------------------------- MODULE LinkResolverProofs -------------------------
(***************************************************************************)
(* LinkResolver, for every number of entries, links and buckets: the hash  *)
(* table is sound, and links are resolved.                                 *)
(*                                                                         *)
(* First the table alone.  Table(r, s) says that s has the chain of every  *)
(* bucket (Listed: its cells lead on and back); taking a cell out, putting *)
(* one in and growing keep that (RemovedTable, PushedTable, GrowTable).    *)
(* Sound adds which cells are in it, and is kept by the functions of the   *)
(* resolver (FindSound, InsertSound, NextEntrySound, EmptiedSound): that   *)
(* is TableInv.                                                            *)
(*                                                                         *)
(* Then each file has an account (FileOK) of the entries that were given,  *)
(* that came back and that are held back, of its cells and of the links    *)
(* they still wait for.  A way through archive_entry_linkify changes the   *)
(* account of one file (File..., OneFile); that all of them are in order   *)
(* is LinksInv, the inductive invariant.                                   *)
(***************************************************************************)
EXTENDS LinkResolver, SequenceTheorems, FiniteSetTheorems, WellFoundedInduction, TLAPS

Link == Cells \cup {Nil}
CellType ==
  [next : Link, previous : Link, canonical : Link, entry : Link, hash : Nat, links : Int]
ResolverType ==
  [cell : [Cells -> CellType], buckets : UNION {[0..(m - 1) -> Link] : m \in Nat \ {0}},
   spare : Link, number_entries : Int, alive : BOOLEAN]

(* The number of buckets.                                                  *)
LEMMA Buckets ==
  ASSUME NEW r \in ResolverType
  PROVE  /\ NumberBuckets(r) \in Nat \ {0}
         /\ r.buckets \in [0..(NumberBuckets(r) - 1) -> Link]
<1>1. PICK m \in Nat \ {0} : r.buckets \in [0..(m - 1) -> Link]
  BY DEF ResolverType
<1>2. Cardinality(0..(m - 1)) = m
  BY <1>1, FS_Interval
<1> QED
  BY <1>1, <1>2 DEF NumberBuckets

LEMMA NumberIs ==
  ASSUME NEW r, NEW m \in Nat, DOMAIN r.buckets = 0..(m - 1)
  PROVE  NumberBuckets(r) = m
<1>1. Cardinality(0..(m - 1)) = m
  BY FS_Interval
<1> QED
  BY <1>1 DEF NumberBuckets

(* s is the chain of bucket b, with its cells leading on and back.         *)
Listed(r, b, s) ==
  /\ s \in Seq(Cells)
  /\ r.buckets[b] = IF Len(s) = 0 THEN Nil ELSE s[1]
  /\ \A k \in 1..Len(s) :
       /\ r.cell[s[k]].next = IF k = Len(s) THEN Nil ELSE s[k + 1]
       /\ r.cell[s[k]].previous = IF k = 1 THEN Nil ELSE s[k - 1]
       /\ \A j \in 1..Len(s) : s[j] = s[k] => j = k

(* No sequence without repetition is longer than the cells are many.       *)
LEMMA ShortList ==
  ASSUME NEW s \in Seq(Cells), \A j, k \in 1..Len(s) : s[j] = s[k] => j = k
  PROVE  Len(s) <= Cardinality(Cells)
<1>1. Len(s) \in Nat /\ s \in [1..Len(s) -> Cells]
  OBVIOUS
<1>2. s \in Injection(1..Len(s), Cells)
  BY <1>1 DEF Injection, IsInjective
<1>3. IsFiniteSet(Cells)
  BY NamesAssumption DEF Cells
<1>4. Cardinality(1..Len(s)) = Len(s)
  BY <1>1, FS_Interval
<1> QED
  BY <1>2, <1>3, <1>4, FS_Injection

-----------------------------------------------------------------------------
(* Induction, and what the recursive functions are.                        *)

LEMMA LessWellFounded == IsWellFoundedOn({p \in Nat \X Nat : p[1] < p[2]}, Nat)
  BY NatLessThanWellFounded DEF OpToRel

(* A set of numbers that holds 0, and with a number the next, holds all.   *)
LEMMA SetInduction ==
  ASSUME NEW S, 0 \in S, \A n \in Nat : n \in S => n + 1 \in S
  PROVE  Nat \subseteq S
<1> DEFINE T == Nat \ S
           R == {p \in Nat \X Nat : p[1] < p[2]}
<1>1. SUFFICES ASSUME T # {} PROVE FALSE
  OBVIOUS
<1>2. IsWellFoundedOn(R, Nat)
  BY LessWellFounded
<1>3. T \subseteq Nat
  OBVIOUS
<1> HIDE DEF T, R
<1>4. \E x \in T : \A y \in T : ~(<<y, x>> \in R)
  BY <1>1, <1>2, <1>3, WFMin
<1> USE DEF T, R
<1>5. PICK x \in T : \A y \in T : ~(y < x)
  BY <1>4
<1>6. x # 0 /\ x \in Nat
  OBVIOUS
<1>7. x - 1 \in Nat
  BY <1>6
<1>8. x - 1 \notin T
  BY <1>5, <1>6, <1>7
<1>9. x - 1 \in S
  BY <1>7, <1>8
<1>10. (x - 1) + 1 \in S
  BY <1>7, <1>9
<1> QED
  BY <1>6, <1>10



LEMMA ChainFunction ==
  ASSUME NEW r \in ResolverType, NEW n \in Nat
  PROVE  \E f : f = [k \in 0..n |-> [c \in Link |->
                       IF k = 0 \/ c = Nil THEN <<>> ELSE <<c>> \o f[k - 1][r.cell[c].next]]]
<1> DEFINE F(f, k) == [c \in Link |-> IF k = 0 \/ c = Nil THEN <<>>
                                      ELSE <<c>> \o f[k - 1][r.cell[c].next]]
           S == {m \in Nat : \E f : f = [k \in 0..m |-> F(f, k)]}
<1>1. 0 \in S
  <2> DEFINE f == [k \in 0..0 |-> [c \in Link |-> <<>>]]
  <2>1. f = [k \in 0..0 |-> F(f, k)]
    OBVIOUS
  <2> QED
    BY <2>1
<1>2. ASSUME NEW m \in Nat, m \in S PROVE m + 1 \in S
  <2>1. PICK f : f = [k \in 0..m |-> F(f, k)]
    BY <1>2
  <2> DEFINE g == [k \in 0..(m + 1) |-> IF k = m + 1 THEN F(f, m + 1) ELSE f[k]]
  <2>2. ASSUME NEW k \in 0..(m + 1) PROVE g[k] = F(g, k)
    <3>1. k # 0 => k - 1 \in 0..m
      OBVIOUS
    <3>2. k # 0 => g[k - 1] = f[k - 1]
      BY <3>1
    <3>3. F(g, k) = F(f, k)
      <4> HIDE DEF g
      <4> QED
        BY <3>2
    <3>4. CASE k = m + 1
      <4>1. k \in 0..(m + 1) /\ g[k] = F(f, m + 1)
        BY <3>4
      <4> HIDE DEF F, g
      <4> QED
        BY <3>3, <3>4, <4>1
    <3>5. CASE k # m + 1
      <4>1. k \in 0..m
        BY <3>5
      <4>2. f[k] = F(f, k)
        BY <4>1, <2>1
      <4> HIDE DEF F
      <4>3. g[k] = f[k]
        BY <3>5
      <4> QED
        BY <3>3, <4>2, <4>3
    <3> QED
      BY <3>4, <3>5
  <2> HIDE DEF F
  <2>3. g = [k \in 0..(m + 1) |-> g[k]]
    OBVIOUS
  <2>4. g = [k \in 0..(m + 1) |-> F(g, k)]
    <3> HIDE DEF g
    <3> QED
      BY <2>2, <2>3
  <2> HIDE DEF g
  <2> QED
    BY <2>4
<1> HIDE DEF F, S
<1>3. Nat \subseteq S
  BY <1>1, <1>2, SetInduction
<1>4. n \in S
  BY <1>3
<1> QED
  BY <1>4 DEF S, F

(* The chain that is read off the cells is the one that they make up.      *)
LEMMA ChainIs ==
  ASSUME NEW r \in ResolverType, NEW b, NEW s, Listed(r, b, s)
  PROVE  Chain(r, r.buckets[b]) = s
<1> DEFINE n == Cardinality(Cells)
           f == CHOOSE f : f = [k \in 0..n |-> [c \in Link |->
                             IF k = 0 \/ c = Nil THEN <<>>
                             ELSE <<c>> \o f[k - 1][r.cell[c].next]]]
           m == Len(s)
           P(j) == IF j = m + 1 THEN Nil ELSE s[j]
           S == {d \in Nat : d <= m => \A k \in d..n : f[k][P(m + 1 - d)] = SubSeq(s, m + 1 - d, m)}
<1>1. n \in Nat /\ m \in Nat /\ m <= n /\ s \in Seq(Cells) /\ Cells \subseteq Link /\ Nil \in Link
  BY NamesAssumption, FS_CardinalityType, ShortList DEF Listed, Cells, Link
<1>2. f = [k \in 0..n |-> [c \in Link |->
             IF k = 0 \/ c = Nil THEN <<>> ELSE <<c>> \o f[k - 1][r.cell[c].next]]]
  BY <1>1, ChainFunction, Zenon
<1>3. Chain(r, r.buckets[b]) = f[n][r.buckets[b]]
  BY Zenon DEF Chain, Link
<1> HIDE DEF f
<1>4. ASSUME NEW k \in 0..n, NEW c \in Link
      PROVE  f[k][c] = IF k = 0 \/ c = Nil THEN <<>> ELSE <<c>> \o f[k - 1][r.cell[c].next]
  <2>1. f[k] = [x \in Link |-> IF k = 0 \/ x = Nil THEN <<>>
                               ELSE <<x>> \o f[k - 1][r.cell[x].next]]
    BY <1>2, Zenon
  <2> QED
    BY <2>1, Zenon
<1>5. \A j \in 1..m : s[j] \in Cells /\ s[j] # Nil /\ r.cell[s[j]].next = P(j + 1)
  BY <1>1, NamesAssumption DEF Listed, Cells, Nil
<1>6. \A j \in 1..(m + 1) : P(j) \in Link
  BY <1>1, <1>5
<1>7. 0 \in S
  <2>1. SubSeq(s, m + 1, m) = <<>>
    BY <1>1
  <2>2. ASSUME NEW k \in 0..n PROVE f[k][P(m + 1)] = SubSeq(s, m + 1, m)
    BY <2>1, <1>4, <1>1
  <2> QED
    BY <2>2, <1>1
<1>8. ASSUME NEW d \in Nat, d \in S PROVE d + 1 \in S
  <2>0. m + 1 - (d + 1) = m - d
    BY <1>1
  <2>1. SUFFICES ASSUME d + 1 <= m, NEW k \in (d + 1)..n
                 PROVE  f[k][P(m - d)] = SubSeq(s, m - d, m)
    <3> HIDE DEF P
    <3> QED
      BY <1>1, <2>0
  <2> DEFINE j == m - d
  <2>2. j \in 1..m /\ k - 1 \in d..n /\ k \in 0..n /\ k # 0 /\ j + 1 = m + 1 - d
    BY <2>1, <1>1
  <2>3. f[k - 1][P(j + 1)] = SubSeq(s, j + 1, m)
    <3>1. \A i \in d..n : f[i][P(m + 1 - d)] = SubSeq(s, m + 1 - d, m)
      <4> HIDE DEF P
      <4> QED
        BY <2>1, <1>1, <1>8
    <3> HIDE DEF P
    <3>2. k - 1 \in d..n /\ j + 1 = m + 1 - d
      BY <2>2
    <3> HIDE DEF j
    <3>3. f[k - 1][P(m + 1 - d)] = SubSeq(s, m + 1 - d, m)
      BY <3>1, <3>2, Zenon
    <3> QED
      BY <3>2, <3>3, Zenon
  <2>4. f[k][s[j]] = <<s[j]>> \o SubSeq(s, j + 1, m)
    <3>1. s[j] \in Link /\ s[j] # Nil /\ r.cell[s[j]].next = P(j + 1)
      BY <2>2, <1>1, <1>5, Zenon
    <3>2. f[k][s[j]] = <<s[j]>> \o f[k - 1][P(j + 1)]
      BY <2>2, <3>1, <1>4, Zenon
    <3> QED
      BY <3>2, <2>3, Zenon
  <2>5. <<s[j]>> \o SubSeq(s, j + 1, m) = SubSeq(s, j, m)
    <3> DEFINE u == SubSeq(s, j + 1, m)
               v == SubSeq(s, j, m)
    <3>1. /\ u \in Seq(Cells) /\ Len(u) = m - j
          /\ \A i \in 1..(m - j) : u[i] = s[j + i]
      BY <2>2, <1>1, <1>5
    <3>2. /\ v \in Seq(Cells) /\ Len(v) = m - j + 1
          /\ \A i \in 1..(m - j + 1) : v[i] = s[j + i - 1]
      BY <2>2, <1>1, <1>5
    <3> HIDE DEF u, v
    <3>3. <<s[j]>> \in Seq(Cells) /\ Len(<<s[j]>>) = 1 /\ <<s[j]>>[1] = s[j]
      BY <2>2, <1>5
    <3> DEFINE w == <<s[j]>> \o u
    <3>4. /\ w \in Seq(Cells) /\ Len(w) = m - j + 1
          /\ \A i \in 1..(m - j + 1) : w[i] = IF i <= 1 THEN s[j] ELSE u[i - 1]
      BY <3>1, <3>3, <2>2, <1>1, ConcatProperties
    <3> HIDE DEF w
    <3>5. ASSUME NEW i \in 1..(m - j + 1) PROVE w[i] = v[i]
      <4>1. i > 1 => i - 1 \in 1..(m - j) /\ j + (i - 1) = j + i - 1
        BY <2>2, <1>1
      <4>2. i <= 1 => i = 1 /\ j + i - 1 = j
        BY <2>2, <1>1
      <4>3. i > 1 \/ i <= 1
        OBVIOUS
      <4>4. w[i] = IF i <= 1 THEN s[j] ELSE u[i - 1]
        BY <3>4
      <4>5. v[i] = s[j + i - 1]
        BY <3>2
      <4>6. CASE i <= 1
        BY <4>2, <4>4, <4>5, <4>6
      <4>7. CASE i > 1
        <5>1. u[i - 1] = s[j + (i - 1)]
          BY <4>1, <4>7, <3>1
        <5>2. w[i] = u[i - 1]
          BY <4>4, <4>7
        <5> QED
          BY <5>1, <5>2, <4>1, <4>5, <4>7
      <4> QED
        BY <4>3, <4>6, <4>7
    <3>6. w = v
      BY <3>2, <3>4, <3>5, SeqEqual
    <3> QED
      BY <3>6 DEF u, v, w
  <2>6. f[k][s[j]] = SubSeq(s, j, m)
    BY <2>4, <2>5
  <2>7. P(j) = s[j]
    BY <2>2
  <2> QED
    BY <2>6, <2>7
<1> HIDE DEF S
<1>9. m \in S
  BY <1>1, <1>7, <1>8, SetInduction
<1>10. f[n][P(1)] = SubSeq(s, 1, m)
  BY <1>9, <1>1 DEF S
<1>11. SubSeq(s, 1, m) = s
  BY <1>1
<1>12. P(1) = r.buckets[b]
  BY <1>1 DEF Listed
<1> QED
  BY <1>3, <1>10, <1>11, <1>12

-----------------------------------------------------------------------------
(* The table: s has the chain of every bucket.                             *)

Table(r, s) ==
  /\ s \in [DOMAIN r.buckets -> Seq(Cells)]
  /\ \A b \in DOMAIN r.buckets :
       /\ Listed(r, b, s[b])
       /\ \A k \in 1..Len(s[b]) : r.cell[s[b][k]].hash % NumberBuckets(r) = b

In(s) == UNION {{s[b][k] : k \in 1..Len(s[b])} : b \in DOMAIN s}

LEMMA TableIs ==
  ASSUME NEW r \in ResolverType, NEW s, Table(r, s)
  PROVE  /\ s = [b \in DOMAIN r.buckets |-> Chain(r, r.buckets[b])]
         /\ InTable(r) = In(s)
         /\ In(s) \subseteq Cells
<1>1. s \in [DOMAIN r.buckets -> Seq(Cells)]
  BY DEF Table
<1>2. ASSUME NEW b \in DOMAIN r.buckets PROVE Chain(r, r.buckets[b]) = s[b]
  BY ChainIs DEF Table
<1>3. ASSUME NEW b \in DOMAIN r.buckets
      PROVE  ToSet(Chain(r, r.buckets[b])) = {s[b][k] : k \in 1..Len(s[b])}
  BY <1>1, <1>2 DEF ToSet
<1>4. ASSUME NEW b \in DOMAIN r.buckets PROVE {s[b][k] : k \in 1..Len(s[b])} \subseteq Cells
  BY <1>1
<1>5. s = [b \in DOMAIN r.buckets |-> Chain(r, r.buckets[b])]
  BY <1>1, <1>2
<1>6. DOMAIN s = DOMAIN r.buckets
  BY <1>1
<1>7. InTable(r) = In(s)
  <2> DEFINE C(b) == ToSet(Chain(r, r.buckets[b]))
             D(b) == {s[b][k] : k \in 1..Len(s[b])}
  <2>1. \A b \in DOMAIN r.buckets : C(b) = D(b)
    BY <1>3
  <2>2. /\ InTable(r) = UNION {C(b) : b \in DOMAIN r.buckets}
        /\ In(s) = UNION {D(b) : b \in DOMAIN r.buckets}
    BY <1>6, Zenon DEF InTable, In
  <2> HIDE DEF C, D
  <2> QED
    BY <2>1, <2>2
<1>8. In(s) \subseteq Cells
  BY <1>4, <1>6, Zenon DEF In
<1> QED
  BY <1>5, <1>7, <1>8

(* The same entries are in the cells.                                      *)
Contents(x, r) == \A c \in Cells : /\ x.cell[c].canonical = r.cell[c].canonical
                                   /\ x.cell[c].entry = r.cell[c].entry
                                   /\ x.cell[c].hash = r.cell[c].hash
                                   /\ x.cell[c].links = r.cell[c].links

(* Only the cells of a set are touched.                                    *)
Outside(x, r, set) == \A e \in Cells : e \notin set => x.cell[e] = r.cell[e]

Without(u, k) == [i \in 1..(Len(u) - 1) |-> IF i < k THEN u[i] ELSE u[i + 1]]

LEMMA WithoutIs ==
  ASSUME NEW u \in Seq(Cells), NEW k \in 1..Len(u),
         \A i, j \in 1..Len(u) : u[i] = u[j] => i = j
  PROVE  /\ Without(u, k) \in Seq(Cells) /\ Len(Without(u, k)) = Len(u) - 1
         /\ \A i \in 1..(Len(u) - 1) : Without(u, k)[i] = IF i < k THEN u[i] ELSE u[i + 1]
         /\ {Without(u, k)[i] : i \in 1..(Len(u) - 1)} = {u[i] : i \in 1..Len(u)} \ {u[k]}
<1> DEFINE m == Len(u)
           v == Without(u, k)
<1>1. m \in Nat /\ m - 1 \in Nat /\ k \in 1..m /\ \A i \in 1..m : u[i] \in Cells
  OBVIOUS
<1>2. \A i \in 1..(m - 1) : i \in 1..m /\ i + 1 \in 1..m
  BY <1>1
<1>3. v = [i \in 1..(m - 1) |-> IF i < k THEN u[i] ELSE u[i + 1]]
  BY DEF Without
<1>4. /\ v \in [1..(m - 1) -> Cells]
      /\ \A i \in 1..(m - 1) : v[i] = IF i < k THEN u[i] ELSE u[i + 1]
  BY <1>1, <1>2, <1>3
<1>5. v \in Seq(Cells) /\ Len(v) = m - 1
  <2>1. m - 1 \in Nat /\ v \in [1..(m - 1) -> Cells]
    BY <1>1, <1>4
  <2> DEFINE l == m - 1
  <2> HIDE DEF v, l
  <2>2. l \in Nat /\ v \in [1..l -> Cells]
    BY <2>1 DEF l
  <2>3. v \in Seq(Cells) /\ Len(v) = l
    BY <2>2
  <2> QED
    BY <2>3 DEF l
<1>6. ASSUME NEW i \in 1..(m - 1) PROVE v[i] \in {u[j] : j \in 1..m} \ {u[k]}
  <2>1. PICK j \in 1..m : v[i] = u[j] /\ j # k
    <3>1. i \in 1..m /\ i + 1 \in 1..m /\ (i < k => i # k) /\ (~(i < k) => i + 1 # k)
      BY <1>1, <1>2
    <3>2. v[i] = IF i < k THEN u[i] ELSE u[i + 1]
      BY <1>4
    <3> HIDE DEF v, m
    <3> QED
      BY <3>1, <3>2
  <2>2. u[j] # u[k]
    BY <2>1, <1>1
  <2> HIDE DEF v
  <2> QED
    BY <2>1, <2>2
<1>7. ASSUME NEW i \in 1..m, i # k PROVE u[i] \in {v[j] : j \in 1..(m - 1)}
  <2>1. CASE i < k
    BY <2>1, <1>1, <1>4
  <2>2. CASE i > k
    <3>1. i - 1 \in 1..(m - 1) /\ ~(i - 1 < k) /\ (i - 1) + 1 = i
      BY <2>2, <1>1
    <3> QED
      BY <3>1, <1>4
  <2> QED
    BY <2>1, <2>2, <1>1, <1>7
<1> HIDE DEF v
<1>8. {v[i] : i \in 1..(m - 1)} = {u[i] : i \in 1..m} \ {u[k]}
  <2>1. {v[i] : i \in 1..(m - 1)} \subseteq {u[i] : i \in 1..m} \ {u[k]}
    BY <1>6
  <2>2. {u[i] : i \in 1..m} \ {u[k]} \subseteq {v[i] : i \in 1..(m - 1)}
    BY <1>7
  <2> QED
    BY <2>1, <2>2
<1> QED
  BY <1>4, <1>5, <1>8 DEF v

(* Cell c is taken out of the table.                                       *)
TakenOut(x, t, r, s, c) ==
  /\ x \in ResolverType /\ Table(x, t) /\ In(t) = In(s) \ {c}
  /\ Contents(x, r) /\ Outside(x, r, In(s)) /\ c \in In(s) /\ c \in Cells
  /\ x.spare = c /\ x.number_entries = r.number_entries - 1 /\ x.alive = r.alive
  /\ DOMAIN x.buckets = DOMAIN r.buckets

LEMMA RemovedTable ==
  ASSUME NEW r \in ResolverType, NEW s, Table(r, s), NEW b \in DOMAIN r.buckets,
         NEW k \in 1..Len(s[b]), NEW c, c = s[b][k]
  PROVE  TakenOut(Removed(r, b, c), [s EXCEPT ![b] = Without(s[b], k)], r, s, c)
<1> DEFINE x == Removed(r, b, c)
           u == s[b]
           m == Len(u)
           v == Without(u, k)
           t == [s EXCEPT ![b] = v]
           n == r.cell[c].next
           p == r.cell[c].previous
<1>1. /\ u \in Seq(Cells) /\ m \in Nat /\ k \in 1..m /\ c = u[k] /\ c \in Cells
      /\ \A i \in 1..m : u[i] \in Cells /\ u[i] # Nil
      /\ \A i, j \in 1..m : u[i] = u[j] => i = j
      /\ \A i \in 1..m : /\ r.cell[u[i]].next = IF i = m THEN Nil ELSE u[i + 1]
                         /\ r.cell[u[i]].previous = IF i = 1 THEN Nil ELSE u[i - 1]
      /\ r.buckets[b] = IF m = 0 THEN Nil ELSE u[1]
  BY NamesAssumption DEF Table, Listed, Cells, Nil
<1>2. /\ n = IF k = m THEN Nil ELSE u[k + 1]
      /\ p = IF k = 1 THEN Nil ELSE u[k - 1]
  BY <1>1
<1>3. n \in Link /\ p \in Link /\ (n = p => n = Nil) /\ Nil \notin Cells
  BY <1>1, <1>2, NamesAssumption DEF Link, Cells, Nil
<1>4. /\ r.cell \in [Cells -> CellType] /\ r.number_entries \in Int
      /\ r.buckets \in [0..(NumberBuckets(r) - 1) -> Link] /\ NumberBuckets(r) \in Nat \ {0}
  BY Buckets DEF ResolverType
<1>5. /\ x.cell = [e \in Cells |-> CASE e = p -> [r.cell[e] EXCEPT !.next = n]
                                     [] e = n -> [r.cell[e] EXCEPT !.previous = p]
                                     [] OTHER -> r.cell[e]]
      /\ x.buckets = [r.buckets EXCEPT ![b] = IF @ = c THEN n ELSE @]
      /\ x.spare = c /\ x.number_entries = r.number_entries - 1 /\ x.alive = r.alive
  BY DEF Removed, ResolverType
<1>6. ASSUME NEW e \in Cells
      PROVE  /\ x.cell[e] \in CellType
             /\ x.cell[e].next = IF e = p THEN n ELSE r.cell[e].next
             /\ x.cell[e].previous = IF e = n THEN p ELSE r.cell[e].previous
             /\ x.cell[e].canonical = r.cell[e].canonical
             /\ x.cell[e].entry = r.cell[e].entry
             /\ x.cell[e].hash = r.cell[e].hash
             /\ x.cell[e].links = r.cell[e].links
  <2> HIDE DEF x, n, p
  <2>1. r.cell[e] \in CellType
    BY <1>4
  <2>2. CASE e = p
    <3>1. x.cell[e] = [r.cell[e] EXCEPT !.next = n] /\ e # n
      BY <2>2, <1>3, <1>5
    <3> QED
      BY <3>1, <2>1, <2>2, <1>3 DEF CellType
  <2>3. CASE e = n /\ e # p
    <3>1. x.cell[e] = [r.cell[e] EXCEPT !.previous = p]
      BY <2>3, <1>5
    <3> QED
      BY <3>1, <2>1, <2>3, <1>3 DEF CellType
  <2>4. CASE e # n /\ e # p
    <3>1. x.cell[e] = r.cell[e]
      BY <2>4, <1>5
    <3> QED
      BY <3>1, <2>1, <2>4
  <2> QED
    BY <2>2, <2>3, <2>4
<1>7. x.buckets \in [0..(NumberBuckets(r) - 1) -> Link]
  <2> HIDE DEF x, n, p
  <2> QED
    BY <1>3, <1>4, <1>5
<1>8. x \in ResolverType
  <2>1. x.cell \in [Cells -> CellType]
    <3> HIDE DEF x, n, p
    <3> QED
      BY <1>5, <1>6
  <2> DEFINE cc == x.cell
             bb == x.buckets
  <2>2. x = [r EXCEPT !.cell = cc, !.buckets = bb, !.number_entries = @ - 1, !.spare = c]
    BY DEF Removed, ResolverType
  <2>3. x.spare \in Link /\ x.number_entries \in Int /\ x.alive \in BOOLEAN
    BY <1>1, <1>4, <1>5 DEF Link, ResolverType
  <2>4. x.buckets \in UNION {[0..(i - 1) -> Link] : i \in Nat \ {0}}
    BY <1>4, <1>7
  <2> HIDE DEF cc, bb
  <2> HIDE DEF x
  <2>5. cc \in [Cells -> CellType] /\ bb \in UNION {[0..(i - 1) -> Link] : i \in Nat \ {0}}
    BY <2>1, <2>4 DEF cc, bb
  <2> QED
    BY <2>2, <2>3, <2>5, <1>1, <1>4 DEF ResolverType, Link
<1>9. NumberBuckets(x) = NumberBuckets(r) /\ DOMAIN x.buckets = DOMAIN r.buckets
  BY <1>4, <1>7 DEF NumberBuckets
<1>10. /\ v \in Seq(Cells) /\ Len(v) = m - 1
       /\ \A i \in 1..(m - 1) : v[i] = IF i < k THEN u[i] ELSE u[i + 1]
       /\ {v[i] : i \in 1..(m - 1)} = {u[i] : i \in 1..m} \ {c}
  <2> HIDE DEF v, x
  <2>1. u \in Seq(Cells) /\ k \in 1..Len(u) /\ \A i, j \in 1..Len(u) : u[i] = u[j] => i = j
    BY <1>1
  <2> HIDE DEF u
  <2>2. /\ Without(u, k) \in Seq(Cells) /\ Len(Without(u, k)) = Len(u) - 1
        /\ \A i \in 1..(Len(u) - 1) : Without(u, k)[i] = IF i < k THEN u[i] ELSE u[i + 1]
        /\ {Without(u, k)[i] : i \in 1..(Len(u) - 1)} = {u[i] : i \in 1..Len(u)} \ {u[k]}
    BY <2>1, WithoutIs, Zenon
  <2> QED
    BY <2>2, <1>1, Zenon DEF v
<1>a. m \in Nat /\ k \in 1..m
  BY <1>1
<1>b. \A i \in 1..m : i < k => i \in 1..(m - 1) /\ v[i] = u[i]
  BY <1>a, <1>10
<1>c. \A i \in 1..(m - 1) : ~(i < k) => v[i] = u[i + 1]
  BY <1>10
<1>d. \A i \in 1..m : r.cell[u[i]].previous = IF i = 1 THEN Nil ELSE u[i - 1]
  BY <1>1
<1>e. \A i \in 1..m : r.cell[u[i]].next = IF i = m THEN Nil ELSE u[i + 1]
  BY <1>1
<1> HIDE DEF x, n, p, v
<1>11. Listed(x, b, v)
  <2>1. x.buckets[b] = IF m - 1 = 0 THEN Nil ELSE v[1]
    <3>1. x.buckets[b] = IF r.buckets[b] = c THEN n ELSE r.buckets[b]
      BY <1>4, <1>5
    <3>2. CASE k = 1
      <4>1. x.buckets[b] = n
        BY <3>1, <3>2, <1>1
      <4>2. m - 1 # 0 => v[1] = u[2]
        <5> HIDE DEF m
        <5>1. ASSUME m - 1 # 0 PROVE 1 \in 1..(m - 1) /\ ~(1 < k) /\ 1 + 1 = 2
          BY <5>1, <3>2, <1>a
        <5> QED
          BY <5>1, <1>c
      <4> QED
        BY <4>1, <4>2, <3>2, <1>1, <1>2
    <3>3. CASE k # 1
      <4>1. m - 1 # 0 /\ r.buckets[b] = u[1] /\ u[1] # c /\ v[1] = u[1]
        BY <3>3, <1>1, <1>10
      <4> QED
        BY <4>1, <3>1
    <3> QED
      BY <3>2, <3>3
  <2>2. ASSUME NEW i \in 1..(m - 1)
        PROVE  /\ x.cell[v[i]].next = IF i = m - 1 THEN Nil ELSE v[i + 1]
               /\ x.cell[v[i]].previous = IF i = 1 THEN Nil ELSE v[i - 1]
    <3>1. CASE i < k
      <4>1. v[i] = u[i] /\ i \in 1..m /\ u[i] \in Cells /\ u[i] # n
        BY <3>1, <1>1, <1>2, <1>10
      <4>2. x.cell[u[i]].previous = IF i = 1 THEN Nil ELSE u[i - 1]
        <5>1. x.cell[u[i]].previous = r.cell[u[i]].previous
          BY <4>1, <1>6
        <5> QED
          BY <5>1, <4>1, <1>d
      <4>3. i # 1 => v[i - 1] = u[i - 1]
        <5>1. i # 1 => i - 1 \in 1..m /\ i - 1 < k
          BY <3>1, <1>a
        <5> QED
          BY <5>1, <1>b
      <4>4. CASE i = k - 1
        <5>1. u[i] = p /\ x.cell[u[i]].next = n
          BY <4>1, <4>4, <1>1, <1>2, <1>6
        <5>2. i # m - 1 => v[i + 1] = u[k + 1] /\ k # m
          BY <4>4, <1>1, <1>10
        <5>3. i = m - 1 => k = m
          BY <4>4, <1>1
        <5> QED
          BY <4>1, <4>2, <4>3, <5>1, <5>2, <5>3, <1>2
      <4>5. CASE i # k - 1
        <5>0. i + 1 \in 1..m /\ i + 1 < k /\ i # m - 1 /\ i # m
          BY <3>1, <4>5, <1>a
        <5>a. v[i + 1] = u[i + 1]
          BY <5>0, <1>b
        <5>b. u[i] # p
          <6>1. CASE k = 1
            BY <6>1, <4>1, <1>1, <1>2
          <6>2. CASE k # 1
            <7>1. k - 1 \in 1..m /\ p = u[k - 1]
              BY <6>2, <1>2, <1>a
            <7> QED
              BY <7>1, <4>1, <4>5, <1>1
          <6> QED
            BY <6>1, <6>2
        <5>c. x.cell[u[i]].next = r.cell[u[i]].next
          BY <5>b, <4>1, <1>6
        <5>1. u[i] # p /\ x.cell[u[i]].next = u[i + 1] /\ i # m - 1 /\ v[i + 1] = u[i + 1]
          BY <5>0, <5>a, <5>b, <5>c, <4>1, <1>1
        <5> QED
          BY <4>1, <4>2, <4>3, <5>1
      <4> QED
        BY <4>4, <4>5
    <3>2. CASE ~(i < k)
      <4>1. v[i] = u[i + 1] /\ i + 1 \in 1..m /\ u[i + 1] \in Cells /\ u[i + 1] # p
        BY <3>2, <1>1, <1>2, <1>10
      <4>2. x.cell[u[i + 1]].next = IF i + 1 = m THEN Nil ELSE u[i + 2]
        <5>1. x.cell[u[i + 1]].next = r.cell[u[i + 1]].next
          BY <4>1, <1>6
        <5>2. r.cell[u[i + 1]].next = IF i + 1 = m THEN Nil ELSE u[(i + 1) + 1]
          BY <4>1, <1>e
        <5>3. (i + 1) + 1 = i + 2
          BY <1>a
        <5> QED
          BY <5>1, <5>2, <5>3
      <4>3. i # m - 1 => v[i + 1] = u[i + 2]
        <5>1. i # m - 1 => i + 1 \in 1..(m - 1) /\ ~(i + 1 < k) /\ (i + 1) + 1 = i + 2
          BY <3>2, <1>a
        <5> QED
          BY <5>1, <1>c
      <4>4. CASE i = k
        <5>1. u[i + 1] = n /\ x.cell[u[i + 1]].previous = p
          BY <4>1, <4>4, <1>1, <1>2, <1>6
        <5>2. i # 1 => v[i - 1] = u[k - 1]
          BY <4>4, <1>1, <1>10
        <5> QED
          BY <4>1, <4>2, <4>3, <4>4, <5>1, <5>2, <1>2
      <4>5. CASE i # k
        <5>0. /\ i # 1 /\ i - 1 \in 1..(m - 1) /\ ~(i - 1 < k) /\ (i - 1) + 1 = i
              /\ i + 1 # 1 /\ (i + 1) - 1 = i
          BY <3>2, <4>5, <1>a
        <5>a. v[i - 1] = u[i]
          BY <5>0, <1>c
        <5>b. u[i + 1] # n
          <6>1. CASE k = m
            BY <6>1, <4>1, <1>1, <1>2
          <6>2. CASE k # m
            <7>1. k + 1 \in 1..m /\ n = u[k + 1] /\ i + 1 # k + 1
              BY <6>2, <4>5, <1>2, <1>a
            <7> QED
              BY <7>1, <4>1, <1>1
          <6> QED
            BY <6>1, <6>2
        <5>c. x.cell[u[i + 1]].previous = r.cell[u[i + 1]].previous
          BY <5>b, <4>1, <1>6
        <5>1. u[i + 1] # n /\ x.cell[u[i + 1]].previous = u[i] /\ i # 1 /\ v[i - 1] = u[i]
          BY <5>0, <5>a, <5>b, <5>c, <4>1, <1>1
        <5> QED
          BY <4>1, <4>2, <4>3, <5>1
      <4> QED
        BY <4>4, <4>5
    <3> QED
      BY <3>1, <3>2
  <2>3. ASSUME NEW i \in 1..(m - 1), NEW j \in 1..(m - 1), v[i] = v[j] PROVE i = j
    <3>1. i \in 1..m /\ j \in 1..m /\ i + 1 \in 1..m /\ j + 1 \in 1..m
      BY <1>1
    <3> DEFINE I == IF i < k THEN i ELSE i + 1
               J == IF j < k THEN j ELSE j + 1
    <3>2. v[i] = u[I] /\ v[j] = u[J]
      BY <1>10
    <3>3. I \in 1..m /\ J \in 1..m
      BY <3>1
    <3>4. I = J
      <4> HIDE DEF I, J
      <4> QED
        BY <2>3, <3>2, <3>3, <1>1
    <3> QED
      BY <3>1, <3>4, <1>a
  <2> QED
    BY <2>1, <2>2, <2>3, <1>10 DEF Listed
<1>12. ASSUME NEW d \in DOMAIN r.buckets, d # b PROVE Listed(x, d, s[d])
  <2>1. Listed(r, d, s[d]) /\ s[d] \in Seq(Cells) /\ \A j \in 1..Len(s[d]) : s[d][j] \in Cells
    BY DEF Table
  <2>2. ASSUME NEW j \in 1..Len(s[d]), NEW i \in 1..m PROVE s[d][j] # u[i]
    BY <1>12 DEF Table
  <2>3. ASSUME NEW j \in 1..Len(s[d]) PROVE s[d][j] # n /\ s[d][j] # p
    <3>1. n # Nil => \E i \in 1..m : n = u[i]
      BY <1>1, <1>2
    <3>2. p # Nil => \E i \in 1..m : p = u[i]
      BY <1>1, <1>2
    <3>3. s[d][j] # Nil
      BY <2>1, <1>3
    <3> QED
      BY <2>2, <3>1, <3>2, <3>3
  <2>4. x.buckets[d] = r.buckets[d]
    BY <1>12, <1>4, <1>5
  <2>5. ASSUME NEW j \in 1..Len(s[d])
        PROVE  /\ x.cell[s[d][j]].next = r.cell[s[d][j]].next
               /\ x.cell[s[d][j]].previous = r.cell[s[d][j]].previous
    BY <2>1, <2>3, <1>6
  <2> QED
    BY <2>1, <2>4, <2>5 DEF Listed
<1>13. t \in [DOMAIN r.buckets -> Seq(Cells)] /\ t[b] = v
       /\ \A d \in DOMAIN r.buckets : d # b => t[d] = s[d]
  BY <1>10 DEF Table
<1>14. ASSUME NEW d \in DOMAIN r.buckets, NEW j \in 1..Len(t[d])
       PROVE  x.cell[t[d][j]].hash % NumberBuckets(r) = d
  <2>1. \E i \in 1..Len(s[d]) : t[d][j] = s[d][i]
    <3>1. CASE d = b
      <4>1. j \in 1..(m - 1) /\ j \in 1..m /\ j + 1 \in 1..m
        BY <3>1, <1>1, <1>10, <1>13
      <4> QED
        BY <3>1, <4>1, <1>10, <1>13
    <3>2. CASE d # b
      BY <3>2, <1>13
    <3> QED
      BY <3>1, <3>2
  <2>2. PICK i \in 1..Len(s[d]) : t[d][j] = s[d][i]
    BY <2>1
  <2>3. s[d][i] \in Cells /\ r.cell[s[d][i]].hash % NumberBuckets(r) = d
    BY DEF Table
  <2>4. x.cell[s[d][i]].hash = r.cell[s[d][i]].hash
    BY <2>3, <1>6
  <2> QED
    BY <2>2, <2>3, <2>4
<1>15. Table(x, t)
  <2> HIDE DEF t
  <2> QED
    BY <1>9, <1>11, <1>12, <1>13, <1>14 DEF Table
<1>16. In(t) = In(s) \ {c}
  <2>1. DOMAIN t = DOMAIN s /\ DOMAIN s = DOMAIN r.buckets
    BY DEF Table
  <2>2. {t[b][i] : i \in 1..Len(t[b])} = {s[b][i] : i \in 1..Len(s[b])} \ {c}
    BY <1>10, <1>13
  <2>3. ASSUME NEW d \in DOMAIN r.buckets, d # b
        PROVE  /\ {t[d][i] : i \in 1..Len(t[d])} = {s[d][i] : i \in 1..Len(s[d])}
               /\ c \notin {s[d][i] : i \in 1..Len(s[d])}
    <3>1. t[d] = s[d]
      BY <2>3, <1>13
    <3>2. \A i \in 1..Len(s[d]) : r.cell[s[d][i]].hash % NumberBuckets(r) = d
      BY DEF Table
    <3>3. r.cell[c].hash % NumberBuckets(r) = b
      BY <1>1 DEF Table
    <3> QED
      BY <3>1, <3>2, <3>3, <2>3
  <2> HIDE DEF t
  <2>4. ASSUME NEW e \in In(t) PROVE e \in In(s) \ {c}
    <3>1. PICK d \in DOMAIN r.buckets : e \in {t[d][i] : i \in 1..Len(t[d])}
      BY <2>1, <2>4, Zenon DEF In
    <3>2. e \in {s[d][i] : i \in 1..Len(s[d])} /\ e # c
      <4>1. CASE d = b
        <5>1. e \in {t[b][i] : i \in 1..Len(t[b])}
          BY <4>1, <3>1, Zenon
        <5>2. e \in {s[b][i] : i \in 1..Len(s[b])} \ {c}
          BY <5>1, <2>2, Zenon
        <5> QED
          BY <5>2, <4>1, Zenon
      <4>2. CASE d # b
        BY <4>2, <3>1, <2>3
      <4> QED
        BY <4>1, <4>2
    <3> QED
      BY <3>2, <2>1 DEF In
  <2>5. ASSUME NEW e \in In(s), e # c PROVE e \in In(t)
    <3>1. PICK d \in DOMAIN r.buckets : e \in {s[d][i] : i \in 1..Len(s[d])}
      BY <2>1, <2>5, Zenon DEF In
    <3>2. e \in {t[d][i] : i \in 1..Len(t[d])}
      <4>1. CASE d = b
        <5>1. e \in {s[b][i] : i \in 1..Len(s[b])} \ {c}
          BY <4>1, <3>1, <2>5, Zenon
        <5> QED
          BY <5>1, <4>1, <2>2, Zenon
      <4>2. CASE d # b
        BY <4>2, <3>1, <2>3, Zenon
      <4> QED
        BY <4>1, <4>2
    <3> QED
      BY <3>2, <2>1 DEF In
  <2> QED
    BY <2>4, <2>5
<1>17. c \in In(s)
  BY DEF In, Table
<1>18. Contents(x, r)
  BY <1>6 DEF Contents
<1>19. Outside(x, r, In(s))
  <2>1. \A i \in 1..m : u[i] \in In(s)
    BY DEF In, Table
  <2>2. n # Nil => n \in In(s)
    <3>1. n # Nil => k + 1 \in 1..m /\ n = u[k + 1]
      BY <1>2, <1>a
    <3> QED
      BY <3>1, <2>1
  <2>3. p # Nil => p \in In(s)
    <3>1. p # Nil => k - 1 \in 1..m /\ p = u[k - 1]
      BY <1>2, <1>a
    <3> QED
      BY <3>1, <2>1
  <2>4. ASSUME NEW e \in Cells, e \notin In(s) PROVE x.cell[e] = r.cell[e]
    <3>1. e # n /\ e # p
      BY <2>2, <2>3, <2>4, <1>3
    <3> QED
      BY <3>1, <1>5
  <2> QED
    BY <2>4 DEF Outside
<1> HIDE DEF t
<1> QED
  BY <1>1, <1>5, <1>8, <1>9, <1>15, <1>16, <1>17, <1>18, <1>19 DEF x, t, v, TakenOut

(* Cell c is put into the table.                                           *)
PutIn(x, t, r, s, c) ==
  /\ x \in ResolverType /\ Table(x, t) /\ In(t) = In(s) \cup {c}
  /\ Contents(x, r) /\ Outside(x, r, In(t))
  /\ x.spare = r.spare /\ x.number_entries = r.number_entries /\ x.alive = r.alive
  /\ DOMAIN x.buckets = DOMAIN r.buckets

LEMMA PushedTable ==
  ASSUME NEW r \in ResolverType, NEW s, Table(r, s), NEW b \in DOMAIN r.buckets,
         NEW c \in Cells, c \notin In(s), r.cell[c].hash % NumberBuckets(r) = b
  PROVE  PutIn(Pushed(r, b, c), [s EXCEPT ![b] = <<c>> \o s[b]], r, s, c)
<1> DEFINE x == Pushed(r, b, c)
           u == s[b]
           m == Len(u)
           v == <<c>> \o u
           t == [s EXCEPT ![b] = v]
           n == r.buckets[b]
<1>1. /\ u \in Seq(Cells) /\ m \in Nat
      /\ \A i \in 1..m : u[i] \in Cells /\ u[i] # Nil /\ u[i] # c
      /\ \A i, j \in 1..m : u[i] = u[j] => i = j
      /\ \A i \in 1..m : /\ r.cell[u[i]].next = IF i = m THEN Nil ELSE u[i + 1]
                         /\ r.cell[u[i]].previous = IF i = 1 THEN Nil ELSE u[i - 1]
      /\ n = IF m = 0 THEN Nil ELSE u[1]
  <2>1. \A i \in 1..m : u[i] \in In(s)
    BY DEF In, Table
  <2> QED
    BY <2>1, NamesAssumption DEF Table, Listed, Cells, Nil
<1>2. n \in Link /\ c # n /\ Nil \notin Cells /\ c \in Link
  BY <1>1, NamesAssumption DEF Link, Cells, Nil
<1>3. /\ r.cell \in [Cells -> CellType]
      /\ r.buckets \in [0..(NumberBuckets(r) - 1) -> Link] /\ NumberBuckets(r) \in Nat \ {0}
  BY Buckets DEF ResolverType
<1>4. /\ x.cell = [e \in Cells |-> CASE e = c -> [r.cell[e] EXCEPT !.next = n, !.previous = Nil]
                                     [] e = n -> [r.cell[e] EXCEPT !.previous = c]
                                     [] OTHER -> r.cell[e]]
      /\ x.buckets = [r.buckets EXCEPT ![b] = c]
      /\ x.spare = r.spare /\ x.number_entries = r.number_entries /\ x.alive = r.alive
  BY DEF Pushed, ResolverType
<1>5. ASSUME NEW e \in Cells
      PROVE  /\ x.cell[e] \in CellType
             /\ x.cell[e].next = IF e = c THEN n ELSE r.cell[e].next
             /\ x.cell[e].previous = IF e = c THEN Nil ELSE IF e = n THEN c ELSE r.cell[e].previous
             /\ x.cell[e].canonical = r.cell[e].canonical
             /\ x.cell[e].entry = r.cell[e].entry
             /\ x.cell[e].hash = r.cell[e].hash
             /\ x.cell[e].links = r.cell[e].links
  <2> HIDE DEF x, n
  <2>1. r.cell[e] \in CellType
    BY <1>3
  <2>2. CASE e = c
    <3>1. x.cell[e] = [r.cell[e] EXCEPT !.next = n, !.previous = Nil]
      BY <2>2, <1>2, <1>4
    <3> QED
      BY <3>1, <2>1, <2>2, <1>2 DEF CellType, Link
  <2>3. CASE e = n /\ e # c
    <3>1. x.cell[e] = [r.cell[e] EXCEPT !.previous = c]
      BY <2>3, <1>4
    <3> QED
      BY <3>1, <2>1, <2>3, <1>2 DEF CellType
  <2>4. CASE e # n /\ e # c
    <3>1. x.cell[e] = r.cell[e]
      BY <2>4, <1>4
    <3> QED
      BY <3>1, <2>1, <2>4
  <2> QED
    BY <2>2, <2>3, <2>4
<1>6. x.buckets \in [0..(NumberBuckets(r) - 1) -> Link]
  <2> HIDE DEF x
  <2> QED
    BY <1>2, <1>3, <1>4
<1>7. x \in ResolverType
  <2>1. x.cell \in [Cells -> CellType]
    <3> HIDE DEF x, n
    <3> QED
      BY <1>4, <1>5
  <2> DEFINE cc == x.cell
             bb == x.buckets
  <2>2. x = [r EXCEPT !.cell = cc, !.buckets = bb]
    BY DEF Pushed, ResolverType
  <2>3. x.buckets \in UNION {[0..(i - 1) -> Link] : i \in Nat \ {0}}
    BY <1>3, <1>6
  <2> HIDE DEF cc, bb
  <2> HIDE DEF x
  <2>4. cc \in [Cells -> CellType] /\ bb \in UNION {[0..(i - 1) -> Link] : i \in Nat \ {0}}
    BY <2>1, <2>3 DEF cc, bb
  <2> QED
    BY <2>2, <2>4 DEF ResolverType
<1>8. NumberBuckets(x) = NumberBuckets(r) /\ DOMAIN x.buckets = DOMAIN r.buckets
  BY <1>3, <1>6 DEF NumberBuckets
<1>9. /\ v \in Seq(Cells) /\ Len(v) = m + 1 /\ v[1] = c
      /\ \A i \in 1..m : v[i + 1] = u[i]
      /\ \A i \in 1..(m + 1) : i # 1 => i - 1 \in 1..m /\ v[i] = u[i - 1]
  <2> HIDE DEF u
  <2>1. <<c>> \in Seq(Cells) /\ Len(<<c>>) = 1 /\ <<c>>[1] = c
    OBVIOUS
  <2>2. /\ v \in Seq(Cells) /\ Len(v) = m + 1
        /\ \A i \in 1..(m + 1) : v[i] = IF i <= 1 THEN c ELSE u[i - 1]
    BY <2>1, <1>1, ConcatProperties
  <2> HIDE DEF v
  <2>3. v[1] = c
    BY <2>2, <1>1
  <2>4. ASSUME NEW i \in 1..(m + 1), i # 1 PROVE i - 1 \in 1..m /\ v[i] = u[i - 1]
    BY <2>2, <2>4, <1>1
  <2>5. ASSUME NEW i \in 1..m PROVE v[i + 1] = u[i]
    <3>1. i + 1 \in 1..(m + 1) /\ i + 1 # 1 /\ (i + 1) - 1 = i
      BY <1>1
    <3> QED
      BY <3>1, <2>4
  <2> QED
    BY <2>2, <2>3, <2>4, <2>5
<1> HIDE DEF x, n, v
<1>10. Listed(x, b, v)
  <2>1. x.buckets[b] = v[1]
    BY <1>3, <1>4, <1>9
  <2>2. ASSUME NEW i \in 1..(m + 1)
        PROVE  /\ x.cell[v[i]].next = IF i = m + 1 THEN Nil ELSE v[i + 1]
               /\ x.cell[v[i]].previous = IF i = 1 THEN Nil ELSE v[i - 1]
    <3>1. CASE i = 1
      <4>1. m # 0 => v[2] = u[1]
        <5>1. m # 0 => 1 \in 1..m /\ 1 + 1 = 2
          BY <1>1
        <5> QED
          BY <5>1, <1>9
      <4> QED
        BY <4>1, <3>1, <1>1, <1>5, <1>9
    <3>2. CASE i # 1
      <4> DEFINE j == i - 1
      <4>1. j \in 1..m /\ v[i] = u[j] /\ u[j] \in Cells /\ u[j] # c
        BY <3>2, <1>1, <1>9
      <4>2. x.cell[u[j]].next = r.cell[u[j]].next
        BY <4>1, <1>5
      <4>3. i # m + 1 => j # m /\ i \in 1..m /\ j + 1 = i
        BY <3>2, <1>1
      <4>4. x.cell[u[j]].next = IF i = m + 1 THEN Nil ELSE v[i + 1]
        BY <4>1, <4>2, <4>3, <1>1, <1>9
      <4>5. CASE j = 1
        <5>1. u[j] = n /\ v[i - 1] = c
          BY <4>5, <4>1, <1>1, <1>9
        <5>2. x.cell[u[j]].previous = c
          BY <5>1, <4>1, <1>5
        <5> QED
          BY <5>1, <5>2, <4>1, <4>4, <3>2
      <4>6. CASE j # 1
        <5>1. u[j] # n
          BY <4>6, <4>1, <1>1
        <5>2. x.cell[u[j]].previous = u[j - 1]
          <6>1. x.cell[u[j]].previous = r.cell[u[j]].previous
            BY <5>1, <4>1, <1>5
          <6> QED
            BY <6>1, <4>1, <4>6, <1>1
        <5>3. j \in 1..(m + 1) /\ v[j] = u[j - 1]
          BY <4>1, <4>6, <1>1, <1>9
        <5> QED
          BY <5>2, <5>3, <4>1, <4>4, <3>2
      <4> QED
        BY <4>5, <4>6
    <3> QED
      BY <3>1, <3>2
  <2>3. ASSUME NEW i \in 1..(m + 1), NEW j \in 1..(m + 1), v[i] = v[j] PROVE i = j
    <3>1. CASE i = 1 \/ j = 1
      <4>1. ASSUME NEW k \in 1..(m + 1), k # 1 PROVE v[k] # c
        <5>1. k - 1 \in 1..m /\ v[k] = u[k - 1]
          BY <4>1, <1>9
        <5> QED
          BY <5>1, <1>1
      <4> QED
        BY <3>1, <4>1, <2>3, <1>9
    <3>2. CASE i # 1 /\ j # 1
      <4>1. i - 1 \in 1..m /\ j - 1 \in 1..m /\ u[i - 1] = u[j - 1]
        BY <3>2, <2>3, <1>9
      <4>2. i - 1 = j - 1
        BY <4>1, <1>1
      <4> QED
        BY <4>2
    <3> QED
      BY <3>1, <3>2
  <2> QED
    BY <2>1, <2>2, <2>3, <1>1, <1>9 DEF Listed
<1>11. ASSUME NEW d \in DOMAIN r.buckets, d # b
       PROVE  Listed(x, d, s[d]) /\ \A j \in 1..Len(s[d]) : s[d][j] # c
  <2>1. Listed(r, d, s[d]) /\ s[d] \in Seq(Cells) /\ \A j \in 1..Len(s[d]) : s[d][j] \in Cells
    BY DEF Table
  <2>2. ASSUME NEW j \in 1..Len(s[d]) PROVE s[d][j] # n /\ s[d][j] # c
    <3>1. r.cell[s[d][j]].hash % NumberBuckets(r) = d
      BY DEF Table
    <3>2. n # Nil => r.cell[n].hash % NumberBuckets(r) = b
      BY <1>1 DEF Table
    <3>3. s[d][j] # Nil
      BY <2>1, <1>2
    <3> QED
      BY <3>1, <3>2, <3>3, <1>11
  <2>4. x.buckets[d] = r.buckets[d]
    BY <1>11, <1>3, <1>4
  <2>5. ASSUME NEW j \in 1..Len(s[d])
        PROVE  /\ x.cell[s[d][j]].next = r.cell[s[d][j]].next
               /\ x.cell[s[d][j]].previous = r.cell[s[d][j]].previous
    BY <2>1, <2>2, <1>5
  <2> QED
    BY <2>1, <2>2, <2>4, <2>5 DEF Listed
<1>12. t \in [DOMAIN r.buckets -> Seq(Cells)] /\ t[b] = v
       /\ \A d \in DOMAIN r.buckets : d # b => t[d] = s[d]
  BY <1>9 DEF Table
<1>13. ASSUME NEW d \in DOMAIN r.buckets, NEW j \in 1..Len(t[d])
       PROVE  x.cell[t[d][j]].hash % NumberBuckets(r) = d
  <2>1. CASE d = b /\ j = 1
    BY <2>1, <1>5, <1>9, <1>12
  <2>2. CASE d # b \/ j # 1
    <3>1. PICK i \in 1..Len(s[d]) : t[d][j] = s[d][i]
      <4>1. CASE d = b
        <5>1. j \in 1..(m + 1) /\ j # 1
          BY <4>1, <2>2, <1>9, <1>12
        <5>2. j - 1 \in 1..m /\ v[j] = u[j - 1]
          BY <5>1, <1>9
        <5> QED
          BY <4>1, <5>2, <1>12
      <4>2. CASE d # b
        BY <4>2, <1>12
      <4> QED
        BY <4>1, <4>2
    <3>2. s[d][i] \in Cells /\ r.cell[s[d][i]].hash % NumberBuckets(r) = d
      BY DEF Table
    <3>3. x.cell[s[d][i]].hash = r.cell[s[d][i]].hash
      BY <3>2, <1>5
    <3> QED
      BY <3>1, <3>2, <3>3
  <2> QED
    BY <2>1, <2>2
<1>14. Table(x, t)
  <2> HIDE DEF t
  <2> QED
    BY <1>8, <1>10, <1>11, <1>12, <1>13 DEF Table
<1>15. In(t) = In(s) \cup {c}
  <2>1. DOMAIN t = DOMAIN s /\ DOMAIN s = DOMAIN r.buckets
    BY DEF Table
  <2>2. {t[b][i] : i \in 1..Len(t[b])} = {s[b][i] : i \in 1..Len(s[b])} \cup {c}
    <3>1. \A i \in 1..(m + 1) : v[i] \in {u[j] : j \in 1..m} \cup {c}
      <4> HIDE DEF u, m
      <4> QED
        BY <1>9
    <3>2. ASSUME NEW j \in 1..m PROVE u[j] \in {v[i] : i \in 1..(m + 1)}
      <4>1. j + 1 \in 1..(m + 1) /\ v[j + 1] = u[j]
        BY <1>1, <1>9
      <4> HIDE DEF u, m
      <4> QED
        BY <4>1
    <3>3. c \in {v[i] : i \in 1..(m + 1)}
      BY <1>1, <1>9
    <3>4. {v[i] : i \in 1..(m + 1)} = {u[j] : j \in 1..m} \cup {c}
      <4>1. {v[i] : i \in 1..(m + 1)} \subseteq {u[j] : j \in 1..m} \cup {c}
        BY <3>1
      <4>2. {u[j] : j \in 1..m} \cup {c} \subseteq {v[i] : i \in 1..(m + 1)}
        BY <3>2, <3>3
      <4> QED
        BY <4>1, <4>2
    <3>5. t[b] = v /\ Len(t[b]) = m + 1
      BY <1>9, <1>12
    <3> HIDE DEF t
    <3> QED
      BY <3>4, <3>5
  <2>3. ASSUME NEW d \in DOMAIN r.buckets, d # b
        PROVE  {t[d][i] : i \in 1..Len(t[d])} = {s[d][i] : i \in 1..Len(s[d])}
    BY <2>3, <1>12
  <2> HIDE DEF t
  <2>4. ASSUME NEW e \in In(t) PROVE e \in In(s) \cup {c}
    <3>1. PICK d \in DOMAIN r.buckets : e \in {t[d][i] : i \in 1..Len(t[d])}
      BY <2>1, <2>4, Zenon DEF In
    <3>2. e \in {s[d][i] : i \in 1..Len(s[d])} \/ e = c
      <4>1. CASE d = b
        <5>1. e \in {t[b][i] : i \in 1..Len(t[b])}
          BY <4>1, <3>1, Zenon
        <5>2. e \in {s[b][i] : i \in 1..Len(s[b])} \cup {c}
          BY <5>1, <2>2, Zenon
        <5> QED
          BY <5>2, <4>1, Zenon
      <4>2. CASE d # b
        BY <4>2, <3>1, <2>3
      <4> QED
        BY <4>1, <4>2
    <3> QED
      BY <3>2, <2>1 DEF In
  <2>5. ASSUME NEW e \in In(s) \cup {c} PROVE e \in In(t)
    <3>1. CASE e = c
      <4>1. e \in {t[b][i] : i \in 1..Len(t[b])}
        BY <3>1, <2>2
      <4> QED
        BY <4>1, <2>1 DEF In
    <3>2. CASE e \in In(s)
      <4>1. PICK d \in DOMAIN r.buckets : e \in {s[d][i] : i \in 1..Len(s[d])}
        BY <2>1, <3>2, Zenon DEF In
      <4>2. e \in {t[d][i] : i \in 1..Len(t[d])}
        <5>1. CASE d = b
          <6>1. e \in {s[b][i] : i \in 1..Len(s[b])}
            BY <5>1, <4>1, Zenon
          <6>2. e \in {t[b][i] : i \in 1..Len(t[b])}
            BY <6>1, <2>2, Zenon
          <6> QED
            BY <6>2, <5>1, Zenon
        <5>2. CASE d # b
          BY <5>2, <4>1, <2>3
        <5> QED
          BY <5>1, <5>2
      <4> QED
        BY <4>2, <2>1 DEF In
    <3> QED
      BY <3>1, <3>2
  <2> QED
    BY <2>4, <2>5
<1>16. Contents(x, r)
  BY <1>5 DEF Contents
<1>17. Outside(x, r, In(t))
  <2>1. n # Nil => n \in In(s)
    <3>1. n # Nil => 1 \in 1..m /\ n = u[1]
      BY <1>1
    <3>2. \A i \in 1..m : u[i] \in In(s)
      BY DEF In, Table
    <3> QED
      BY <3>1, <3>2
  <2>2. ASSUME NEW e \in Cells, e \notin In(t) PROVE x.cell[e] = r.cell[e]
    <3>1. e # n /\ e # c
      BY <2>1, <2>2, <1>2, <1>15
    <3> QED
      BY <3>1, <1>4
  <2> QED
    BY <2>2 DEF Outside
<1> HIDE DEF t
<1> QED
  BY <1>4, <1>7, <1>8, <1>14, <1>15, <1>16, <1>17 DEF x, t, v, PutIn

-----------------------------------------------------------------------------
(* A table that grows has the same cells.                                  *)

Same(x, r) == Contents(x, r) /\ x.spare = r.spare /\ x.number_entries = r.number_entries
              /\ x.alive = r.alive

(* f has the resolver after each cell of the chain.                        *)
Rehashes(f, r, chain, n) ==
  /\ Rehashed(r, chain) = f[n] /\ f[0] = r
  /\ \A k \in 1..n : f[k] = Pushed(f[k - 1], r.cell[chain[k]].hash % NumberBuckets(r), chain[k])

LEMMA RehashedFunction ==
  ASSUME NEW r, NEW chain, NEW n \in Nat, n = Len(chain)
  PROVE  \E f : Rehashes(f, r, chain, n)
<1> DEFINE F(f, k) == IF k = 0 THEN r
                      ELSE Pushed(f[k - 1], r.cell[chain[k]].hash % NumberBuckets(r), chain[k])
           S == {m \in Nat : \E f : f = [k \in 0..m |-> F(f, k)]}
<1>1. 0 \in S
  <2> DEFINE f == [k \in 0..0 |-> r]
  <2>1. f = [k \in 0..0 |-> F(f, k)]
    OBVIOUS
  <2> QED
    BY <2>1
<1>2. ASSUME NEW m \in Nat, m \in S PROVE m + 1 \in S
  <2>1. PICK f : f = [k \in 0..m |-> F(f, k)]
    BY <1>2
  <2> DEFINE g == [k \in 0..(m + 1) |-> IF k = m + 1 THEN F(f, m + 1) ELSE f[k]]
  <2>2. ASSUME NEW k \in 0..(m + 1) PROVE g[k] = F(g, k)
    <3>1. k # 0 => k - 1 \in 0..m
      OBVIOUS
    <3>2. k # 0 => g[k - 1] = f[k - 1]
      BY <3>1
    <3>3. F(g, k) = F(f, k)
      <4> HIDE DEF g
      <4> QED
        BY <3>2
    <3>4. CASE k = m + 1
      <4>1. k \in 0..(m + 1) /\ g[k] = F(f, m + 1)
        BY <3>4
      <4> HIDE DEF F, g
      <4> QED
        BY <3>3, <3>4, <4>1
    <3>5. CASE k # m + 1
      <4>1. k \in 0..m
        BY <3>5
      <4>2. f[k] = F(f, k)
        BY <4>1, <2>1
      <4> HIDE DEF F
      <4>3. g[k] = f[k]
        BY <3>5
      <4> QED
        BY <3>3, <4>2, <4>3
    <3> QED
      BY <3>4, <3>5
  <2> HIDE DEF F
  <2>3. g = [k \in 0..(m + 1) |-> g[k]]
    OBVIOUS
  <2>4. g = [k \in 0..(m + 1) |-> F(g, k)]
    <3> HIDE DEF g
    <3> QED
      BY <2>2, <2>3
  <2> HIDE DEF g
  <2> QED
    BY <2>4
<1> HIDE DEF F, S
<1>3. Nat \subseteq S
  BY <1>1, <1>2, SetInduction
<1>4. n \in S
  BY <1>3
<1> DEFINE f == CHOOSE f : f = [k \in 0..n |-> F(f, k)]
<1>5. f = [k \in 0..n |-> F(f, k)]
  BY <1>4, Zenon DEF S
<1>6. Rehashed(r, chain) = f[n]
  BY Zenon DEF Rehashed, F
<1> HIDE DEF f
<1>7. f[0] = r
  BY <1>5 DEF F
<1>8. ASSUME NEW k \in 1..n
      PROVE  f[k] = Pushed(f[k - 1], r.cell[chain[k]].hash % NumberBuckets(r), chain[k])
  <2>1. k \in 0..n /\ k # 0
    OBVIOUS
  <2>2. f[k] = F(f, k)
    BY <2>1, <1>5, Zenon
  <2> QED
    BY <2>1, <2>2, Zenon DEF F
<1> QED
  BY <1>6, <1>7, <1>8 DEF Rehashes

LEMMA SameTransitive ==
  ASSUME NEW x, NEW y, NEW z, Same(x, y), Same(y, z)
  PROVE  Same(x, z)
  BY DEF Same, Contents

(* The cells of a chain are put into the table.                            *)
PutInAll(x, t, r, s, chain) ==
  /\ x \in ResolverType /\ Table(x, t) /\ Same(x, r)
  /\ DOMAIN x.buckets = DOMAIN r.buckets
  /\ In(t) = In(s) \cup {chain[k] : k \in 1..Len(chain)} /\ Outside(x, r, In(t))

LEMMA RehashedTable ==
  ASSUME NEW r \in ResolverType, NEW s, Table(r, s), NEW chain \in Seq(Cells),
         \A j, k \in 1..Len(chain) : chain[j] = chain[k] => j = k,
         \A k \in 1..Len(chain) : chain[k] \notin In(s)
  PROVE  \E t : PutInAll(Rehashed(r, chain), t, r, s, chain)
<1> DEFINE n == Len(chain)
           G(x, t, k) == /\ x \in ResolverType /\ Table(x, t) /\ Same(x, r)
                         /\ DOMAIN x.buckets = DOMAIN r.buckets
                         /\ In(t) = In(s) \cup {chain[i] : i \in 1..k} /\ Outside(x, r, In(t))
<1>1. n \in Nat /\ \A k \in 1..n : chain[k] \in Cells
  OBVIOUS
<1>0. PICK f : Rehashes(f, r, chain, n)
  <2>1. n \in Nat /\ n = Len(chain)
    OBVIOUS
  <2> HIDE DEF n
  <2> QED
    BY <2>1, RehashedFunction
<1>2. /\ Rehashed(r, chain) = f[n] /\ f[0] = r
      /\ \A k \in 1..n : f[k] = Pushed(f[k - 1],
                           r.cell[chain[k]].hash % NumberBuckets(r), chain[k])
  BY <1>0 DEF Rehashes
<1> DEFINE S == {m \in Nat : m <= n => \E t : G(f[m], t, m)}
<1>4. NumberBuckets(r) \in Nat \ {0} /\ r.buckets \in [0..(NumberBuckets(r) - 1) -> Link]
      /\ r.cell \in [Cells -> CellType]
  BY Buckets DEF ResolverType
<1>5. 0 \in S
  <2>1. f[0] = r
    BY <1>2
  <2>2. {chain[i] : i \in 1..0} = {}
    OBVIOUS
  <2>3. G(r, s, 0)
    BY <2>2 DEF Same, Contents, Outside
  <2> QED
    BY <2>1, <2>3
<1>6. ASSUME NEW m \in Nat, m \in S PROVE m + 1 \in S
  <2>1. SUFFICES ASSUME m + 1 <= n PROVE \E t : G(f[m + 1], t, m + 1)
    OBVIOUS
  <2>2. PICK t : G(f[m], t, m)
    BY <1>6, <2>1, <1>1
  <2> DEFINE y == f[m]
             c == chain[m + 1]
             b == r.cell[c].hash % NumberBuckets(r)
             x == Pushed(y, b, c)
             u == [t EXCEPT ![b] = <<c>> \o t[b]]
  <2>3. m + 1 \in 1..n /\ m + 1 \in 0..n /\ m + 1 # 0 /\ (m + 1) - 1 = m /\ c \in Cells
    BY <2>1, <1>1
  <2>4. f[m + 1] = x
    BY <2>3, <1>2
  <2>5. b \in DOMAIN r.buckets
    <3>1. r.cell[c].hash \in Nat
      BY <2>3, <1>4 DEF CellType
    <3> DEFINE h == r.cell[c].hash
    <3> HIDE DEF h
    <3>2. h % NumberBuckets(r) \in 0..(NumberBuckets(r) - 1)
      BY <3>1, <1>4 DEF h
    <3> QED
      BY <3>2, <1>4 DEF h
  <2>6. NumberBuckets(y) = NumberBuckets(r)
    BY <2>2 DEF NumberBuckets
  <2>7. c \notin In(t)
    <3>1. \A i \in 1..m : i \in 1..n /\ i # m + 1
      BY <2>1, <1>1
    <3>2. c \notin {chain[i] : i \in 1..m}
      BY <3>1, <2>3
    <3> QED
      BY <3>2, <2>2, <2>3
  <2>8. y.cell[c].hash % NumberBuckets(y) = b
    BY <2>2, <2>3, <2>6 DEF Same, Contents
  <2>9. y \in ResolverType /\ Table(y, t) /\ b \in DOMAIN y.buckets
    BY <2>2, <2>5
  <2> HIDE DEF y, c, b
  <2>10. /\ x \in ResolverType /\ Table(x, u) /\ In(u) = In(t) \cup {c} /\ Contents(x, y)
         /\ Outside(x, y, In(u))
         /\ x.spare = y.spare /\ x.number_entries = y.number_entries /\ x.alive = y.alive
         /\ DOMAIN x.buckets = DOMAIN y.buckets
    <3>1. PutIn(x, u, y, t, c)
      BY <2>3, <2>7, <2>8, <2>9, PushedTable, Zenon
    <3> HIDE DEF x, u
    <3> QED
      BY <3>1 DEF PutIn
  <2>11. {chain[i] : i \in 1..(m + 1)} = {chain[i] : i \in 1..m} \cup {c}
    <3>1. 1..(m + 1) = (1..m) \cup {m + 1}
      OBVIOUS
    <3> QED
      BY <3>1 DEF c
  <2>12. Same(y, r) /\ DOMAIN y.buckets = DOMAIN r.buckets
         /\ In(t) = In(s) \cup {chain[i] : i \in 1..m} /\ Outside(y, r, In(t))
    BY <2>2 DEF y
  <2> HIDE DEF x, u
  <2>13. Same(x, r)
    BY <2>10, <2>12, SameTransitive DEF Same
  <2>14. In(u) = In(s) \cup {chain[i] : i \in 1..(m + 1)}
    BY <2>10, <2>11, <2>12
  <2>16. Outside(x, r, In(u))
    BY <2>10, <2>12 DEF Outside
  <2>15. G(x, u, m + 1)
    BY <2>10, <2>12, <2>13, <2>14, <2>16
  <2> HIDE DEF G
  <2> QED
    BY <2>4, <2>15
<1> HIDE DEF S
<1>7. n \in S
  BY <1>1, <1>5, <1>6, SetInduction
<1> QED
  BY <1>1, <1>2, <1>7 DEF S, PutInAll

(* f has the table after each bucket that was moved.                       *)
Empty(r) == [r EXCEPT !.buckets = [x \in 0..(2 * NumberBuckets(r) - 1) |-> Nil]]

Grows(f, r, size) ==
  /\ Grow(r) = f[size] /\ f[0] = Empty(r)
  /\ \A b \in 1..size : f[b] = Rehashed(f[b - 1], Chain(r, r.buckets[b - 1]))

LEMMA GrowFunction ==
  ASSUME NEW r, NEW n \in Nat, n = NumberBuckets(r)
  PROVE  \E f : Grows(f, r, n)
<1> DEFINE F(f, k) == IF k = 0 THEN Empty(r)
                      ELSE Rehashed(f[k - 1], Chain(r, r.buckets[k - 1]))
           S == {m \in Nat : \E f : f = [k \in 0..m |-> F(f, k)]}
<1>1. 0 \in S
  <2> DEFINE f == [k \in 0..0 |-> Empty(r)]
  <2>1. f = [k \in 0..0 |-> F(f, k)]
    OBVIOUS
  <2> QED
    BY <2>1
<1>2. ASSUME NEW m \in Nat, m \in S PROVE m + 1 \in S
  <2>1. PICK f : f = [k \in 0..m |-> F(f, k)]
    BY <1>2
  <2> DEFINE g == [k \in 0..(m + 1) |-> IF k = m + 1 THEN F(f, m + 1) ELSE f[k]]
  <2>2. ASSUME NEW k \in 0..(m + 1) PROVE g[k] = F(g, k)
    <3>1. k # 0 => k - 1 \in 0..m
      OBVIOUS
    <3>2. k # 0 => g[k - 1] = f[k - 1]
      BY <3>1
    <3>3. F(g, k) = F(f, k)
      BY <3>2
    <3>4. CASE k = m + 1
      <4>1. k \in 0..(m + 1) /\ g[k] = F(f, m + 1)
        BY <3>4
      <4> HIDE DEF F, g
      <4> QED
        BY <3>3, <3>4, <4>1
    <3>5. CASE k # m + 1
      <4>1. k \in 0..m
        BY <3>5
      <4>2. f[k] = F(f, k)
        BY <4>1, <2>1
      <4> HIDE DEF F
      <4>3. g[k] = f[k]
        BY <3>5
      <4> QED
        BY <3>3, <4>2, <4>3
    <3> QED
      BY <3>4, <3>5
  <2> HIDE DEF F
  <2>3. g = [k \in 0..(m + 1) |-> g[k]]
    OBVIOUS
  <2>4. g = [k \in 0..(m + 1) |-> F(g, k)]
    <3> HIDE DEF g
    <3> QED
      BY <2>2, <2>3
  <2> HIDE DEF g
  <2> QED
    BY <2>4
<1> HIDE DEF F, S
<1>3. Nat \subseteq S
  BY <1>1, <1>2, SetInduction
<1>4. n \in S
  BY <1>3
<1> DEFINE f == CHOOSE f : f = [k \in 0..n |-> F(f, k)]
<1>5. f = [k \in 0..n |-> F(f, k)]
  BY <1>4, Zenon DEF S
<1>6. Grow(r) = f[n]
  BY Zenon DEF Grow, F, Empty
<1> HIDE DEF f
<1>7. f[0] = Empty(r)
  BY <1>5 DEF F
<1>8. ASSUME NEW k \in 1..n
      PROVE  f[k] = Rehashed(f[k - 1], Chain(r, r.buckets[k - 1]))
  <2>1. k \in 0..n /\ k # 0
    OBVIOUS
  <2>2. f[k] = F(f, k)
    BY <2>1, <1>5, Zenon
  <2> QED
    BY <2>1, <2>2, Zenon DEF F
<1> QED
  BY <1>6, <1>7, <1>8 DEF Grows

(* The cells of the buckets before one.                                    *)
First(s, b) == UNION {{s[d][k] : k \in 1..Len(s[d])} : d \in 0..(b - 1)}

Grown(x, t, r, s) ==
  x \in ResolverType /\ Table(x, t) /\ Same(x, r) /\ In(t) = In(s) /\ Outside(x, r, In(s))

LEMMA GrowTable ==
  ASSUME NEW r \in ResolverType, NEW s, Table(r, s)
  PROVE  \E t : Grown(Grow(r), t, r, s)
<1> DEFINE n == NumberBuckets(r)
           z == 2 * n
           G(x, t, b) == /\ x \in ResolverType /\ Table(x, t) /\ Same(x, r)
                         /\ In(t) = First(s, b) /\ Outside(x, r, In(t))
<1>1. n \in Nat \ {0} /\ r.buckets \in [0..(n - 1) -> Link] /\ z \in Nat \ {0} /\ Nil \in Link
      /\ s \in [0..(n - 1) -> Seq(Cells)]
  BY Buckets DEF Link, Table
<1>2. PICK f : Grows(f, r, n)
  BY <1>1, GrowFunction
<1>3. /\ Grow(r) = f[n] /\ f[0] = Empty(r)
      /\ \A b \in 1..n : f[b] = Rehashed(f[b - 1], Chain(r, r.buckets[b - 1]))
  BY <1>2 DEF Grows
<1> DEFINE S == {m \in Nat : m <= n => \E t : G(f[m], t, m)}
<1>4. 0 \in S
  <2> DEFINE e == Empty(r)
             q == [x \in 0..(z - 1) |-> Nil]
             t == [b \in 0..(z - 1) |-> <<>>]
  <2>1. q \in [0..(z - 1) -> Link] /\ DOMAIN t = 0..(z - 1)
    BY <1>1
  <2>2. e = [r EXCEPT !.buckets = q]
    BY DEF Empty
  <2>3. q \in UNION {[0..(i - 1) -> Link] : i \in Nat \ {0}}
    BY <1>1, <2>1
  <2> HIDE DEF e, q
  <2>4. e \in ResolverType /\ e.buckets = q /\ Same(e, r) /\ e.cell = r.cell
    BY <2>2, <2>3 DEF ResolverType, Same, Contents
  <2> USE DEF q
  <2>5. ASSUME NEW b \in 0..(z - 1)
        PROVE  Listed(e, b, t[b]) /\ Len(t[b]) = 0
    <3>1. t[b] = <<>> /\ e.buckets[b] = Nil
      BY <2>4
    <3> QED
      BY <3>1 DEF Listed
  <2>6. t \in [0..(z - 1) -> Seq(Cells)]
    OBVIOUS
  <2>7. Table(e, t)
    BY <2>4, <2>5, <2>6 DEF Table
  <2>8. In(t) = {} /\ First(s, 0) = {}
    BY <2>5, <2>1 DEF In, First
  <2>9. f[0] = e
    BY <1>3 DEF e
  <2>10. G(e, t, 0)
    BY <2>4, <2>7, <2>8 DEF Outside
  <2> HIDE DEF G, t
  <2> QED
    BY <2>9, <2>10
<1>5. ASSUME NEW m \in Nat, m \in S PROVE m + 1 \in S
  <2>1. SUFFICES ASSUME m + 1 <= n PROVE \E t : G(f[m + 1], t, m + 1)
    OBVIOUS
  <2>2. PICK t : G(f[m], t, m)
    BY <1>5, <2>1, <1>1
  <2> DEFINE y == f[m]
             c == s[m]
             x == Rehashed(y, c)
  <2>3. m + 1 \in 1..n /\ (m + 1) - 1 = m /\ m \in DOMAIN r.buckets /\ m \in 0..(n - 1)
    BY <2>1, <1>1
  <2>4. f[m + 1] = x
    <3>1. Chain(r, r.buckets[m]) = c
      BY <2>3, ChainIs DEF Table
    <3> QED
      BY <3>1, <2>3, <1>3
  <2>5. /\ c \in Seq(Cells) /\ \A j, k \in 1..Len(c) : c[j] = c[k] => j = k
        /\ \A k \in 1..Len(c) : r.cell[c[k]].hash % NumberBuckets(r) = m
    BY <2>3 DEF Table, Listed
  <2>6. ASSUME NEW k \in 1..Len(c) PROVE c[k] \notin In(t)
    <3>1. SUFFICES ASSUME c[k] \in First(s, m) PROVE FALSE
      BY <2>2
    <3>2. PICK d \in 0..(m - 1) : c[k] \in {s[d][j] : j \in 1..Len(s[d])}
      BY <3>1, Zenon DEF First
    <3>3. d \in DOMAIN r.buckets /\ d # m
      BY <3>2, <2>3, <1>1
    <3>4. r.cell[c[k]].hash % NumberBuckets(r) = d
      BY <3>2, <3>3 DEF Table
    <3> QED
      BY <3>3, <3>4, <2>5
  <2>7. y \in ResolverType /\ Table(y, t) /\ Same(y, r) /\ In(t) = First(s, m)
        /\ Outside(y, r, In(t))
    BY <2>2
  <2> HIDE DEF y, c
  <2>8. PICK u : /\ x \in ResolverType /\ Table(x, u) /\ Same(x, y)
                 /\ DOMAIN x.buckets = DOMAIN y.buckets
                 /\ In(u) = In(t) \cup {c[k] : k \in 1..Len(c)} /\ Outside(x, y, In(u))
    <3>1. \E u : PutInAll(x, u, y, t, c)
      BY <2>5, <2>6, <2>7, RehashedTable
    <3> QED
      BY <3>1, Zenon DEF PutInAll
  <2>9. First(s, m + 1) = First(s, m) \cup {c[k] : k \in 1..Len(c)}
    <3>1. 0..((m + 1) - 1) = (0..(m - 1)) \cup {m}
      OBVIOUS
    <3> QED
      BY <3>1 DEF First, c
  <2> HIDE DEF x
  <2>10. Same(x, r)
    BY <2>7, <2>8, SameTransitive
  <2>12. Outside(x, r, In(u))
    BY <2>7, <2>8 DEF Outside
  <2>11. G(x, u, m + 1)
    BY <2>7, <2>8, <2>9, <2>10, <2>12
  <2> HIDE DEF G
  <2> QED
    BY <2>4, <2>11
<1> HIDE DEF S
<1>6. n \in S
  BY <1>1, <1>4, <1>5, SetInduction
<1>7. PICK t : G(f[n], t, n)
  BY <1>1, <1>6 DEF S
<1>8. First(s, n) = In(s)
  BY <1>1 DEF First, In
<1> QED
  BY <1>3, <1>7, <1>8 DEF Grown

-----------------------------------------------------------------------------
(* The resolver.  i is the inode of each entry, G the entries it was given. *)

LEMMA MinIs ==
  ASSUME NEW S, S \subseteq Nat, S # {}
  PROVE  Min(S) \in S
<1> DEFINE R == {p \in Nat \X Nat : p[1] < p[2]}
<1>1. IsWellFoundedOn(R, Nat)
  BY LessWellFounded
<1> HIDE DEF R
<1>2. \E x \in S : \A y \in S : ~(<<y, x>> \in R)
  BY <1>1, WFMin
<1>4. PICK x \in S : \A y \in S : ~(<<y, x>> \in R)
  BY <1>2
<1> USE DEF R
<1>6. \A y \in S : ~(y < x)
  BY <1>4
<1>5. \A y \in S : x =< y
  BY <1>6
<1>3. \E z \in S : \A y \in S : z =< y
  BY <1>5
<1> QED
  BY <1>3, Zenon DEF Min

(* The links of a chain are those of the cells, whatever else is in them.  *)
LEMMA TableFrame ==
  ASSUME NEW r \in ResolverType, NEW x \in ResolverType, NEW s, Table(r, s),
         x.buckets = r.buckets,
         \A c \in In(s) : /\ x.cell[c].next = r.cell[c].next
                          /\ x.cell[c].previous = r.cell[c].previous
                          /\ x.cell[c].hash = r.cell[c].hash
  PROVE  Table(x, s) /\ InTable(x) = InTable(r) /\ InTable(r) = In(s)
<1>1. s \in [DOMAIN r.buckets -> Seq(Cells)]
  BY DEF Table
<1>2. ASSUME NEW b \in DOMAIN r.buckets, NEW k \in 1..Len(s[b]) PROVE s[b][k] \in In(s)
  BY <1>1, <1>2 DEF In
<1>3. NumberBuckets(x) = NumberBuckets(r)
  BY DEF NumberBuckets
<1>4. ASSUME NEW b \in DOMAIN r.buckets PROVE Listed(x, b, s[b])
  <2>1. Listed(r, b, s[b])
    BY DEF Table
  <2>2. \A k \in 1..Len(s[b]) : /\ x.cell[s[b][k]].next = r.cell[s[b][k]].next
                               /\ x.cell[s[b][k]].previous = r.cell[s[b][k]].previous
    BY <1>2
  <2> QED
    BY <2>1, <2>2 DEF Listed
<1>5. ASSUME NEW b \in DOMAIN r.buckets, NEW k \in 1..Len(s[b])
      PROVE  x.cell[s[b][k]].hash % NumberBuckets(x) = b
  BY <1>2, <1>3 DEF Table
<1>6. Table(x, s)
  BY <1>1, <1>4, <1>5 DEF Table
<1> QED
  BY <1>6, TableIs

Sound(r, G, i) ==
  /\ r \in ResolverType
  /\ \E s : Table(r, s)
  /\ \A c \in InTable(r) : /\ r.cell[c].canonical = c /\ c \in G /\ i[c] # 0
                           /\ r.cell[c].hash = Hash[i[c]]
  /\ \A c, e \in InTable(r) : i[c] = i[e] => c = e
  /\ r.number_entries = Cardinality(InTable(r))
  /\ \A c \in Cells : r.cell[c] # Unused => c \in InTable(r) \/ c = r.spare
  /\ r.spare \notin InTable(r)
  /\ r.spare # Nil => r.spare \in G /\ r.cell[r.spare].canonical \in {NoName, r.spare}

LEMMA InTableCells ==
  ASSUME NEW G, NEW i, NEW r, Sound(r, G, i)
  PROVE  InTable(r) \subseteq Cells /\ IsFiniteSet(InTable(r)) /\ Nil \notin InTable(r)
         /\ Nil \notin Cells
<1>1. InTable(r) \subseteq Cells
  BY TableIs DEF Sound
<1> QED
  BY <1>1, NamesAssumption, FS_Subset DEF Cells, Nil

(* What was to be given back of a cell is the same.                        *)
Keeps(x, r, c) ==
  /\ x.cell[c].canonical = r.cell[c].canonical /\ x.cell[c].entry = r.cell[c].entry
  /\ x.cell[c].hash = r.cell[c].hash /\ x.cell[c].links = r.cell[c].links

Freed(x, r, G, i) ==
  /\ Sound(x, G, i) /\ x.spare = Nil /\ x.alive = r.alive /\ InTable(x) = InTable(r)
  /\ \A c \in InTable(r) : x.cell[c] = r.cell[c]

LEMMA SpareFreed ==
  ASSUME NEW G, NEW i, NEW r, Sound(r, G, i)
  PROVE  Freed(FreeSpare(r), r, G, i)
<1> DEFINE x == FreeSpare(r)
<1>1. CASE r.spare = Nil
  BY <1>1 DEF FreeSpare, Freed
<1>2. CASE r.spare # Nil
  <2>1. x = [r EXCEPT !.cell[r.spare] = Unused, !.spare = Nil]
    BY <1>2 DEF FreeSpare
  <2>2. r \in ResolverType /\ r.spare \in Cells /\ Unused \in CellType /\ Nil \in Link
    BY <1>2 DEF Sound, ResolverType, Link, Unused, CellType, NoName, Nil
  <2> DEFINE cc == [r.cell EXCEPT ![r.spare] = Unused]
  <2>3. cc \in [Cells -> CellType] /\ cc[r.spare] = Unused
        /\ \A c \in Cells : c # r.spare => cc[c] = r.cell[c]
    BY <2>2 DEF ResolverType
  <2>4. x = [r EXCEPT !.cell = cc, !.spare = Nil]
    BY <2>1, <2>2 DEF ResolverType
  <2> HIDE DEF x, cc
  <2>5. x \in ResolverType /\ x.cell = cc /\ x.spare = Nil /\ x.buckets = r.buckets
        /\ x.number_entries = r.number_entries /\ x.alive = r.alive
    BY <2>2, <2>3, <2>4 DEF ResolverType
  <2>6. PICK s : Table(r, s)
    BY DEF Sound
  <2>7. InTable(r) = In(s) /\ InTable(r) \subseteq Cells /\ r.spare \notin InTable(r)
    BY <2>2, <2>6, TableIs DEF Sound
  <2>8. \A c \in InTable(r) : x.cell[c] = r.cell[c]
    BY <2>3, <2>5, <2>7
  <2>9. Table(x, s) /\ InTable(x) = InTable(r)
    BY <2>2, <2>5, <2>6, <2>7, <2>8, TableFrame
  <2>10. Nil \notin InTable(r)
    BY InTableCells
  <2>11. \A c \in Cells : x.cell[c] # Unused => c \in InTable(x)
    <3>1. \A c \in Cells : r.cell[c] # Unused => c \in InTable(r) \/ c = r.spare
      BY DEF Sound
    <3> QED
      BY <3>1, <2>3, <2>5, <2>9
  <2>12. /\ \A c \in InTable(r) : /\ r.cell[c].canonical = c /\ c \in G /\ i[c] # 0
                                  /\ r.cell[c].hash = Hash[i[c]]
         /\ \A c, e \in InTable(r) : i[c] = i[e] => c = e
         /\ r.number_entries = Cardinality(InTable(r))
    BY DEF Sound
  <2>13. Sound(x, G, i)
    BY <2>5, <2>8, <2>9, <2>10, <2>11, <2>12 DEF Sound
  <2> QED
    BY <2>5, <2>8, <2>9, <2>13 DEF Freed, x
<1> QED
  BY <1>1, <1>2

(* A cell is taken out of the table and held back.                         *)
Taken(x, r, c, G, i) ==
  /\ Sound(x, G, i) /\ x.spare = c /\ x.alive = r.alive
  /\ c \in InTable(r) /\ InTable(x) = InTable(r) \ {c} /\ \A e \in InTable(r) : Keeps(x, r, e)

LEMMA RemovedSound ==
  ASSUME NEW G, NEW i, NEW r, Sound(r, G, i), r.spare = Nil, NEW b \in DOMAIN r.buckets,
         NEW k \in 1..Len(Chain(r, r.buckets[b])), NEW c, c = Chain(r, r.buckets[b])[k]
  PROVE  Taken(Removed(r, b, c), r, c, G, i)
<1>1. r \in ResolverType
  BY DEF Sound
<1>2. PICK s : Table(r, s)
  BY DEF Sound
<1>3. InTable(r) = In(s) /\ In(s) \subseteq Cells /\ Chain(r, r.buckets[b]) = s[b]
  BY <1>1, <1>2, TableIs
<1> DEFINE x == Removed(r, b, c)
           t == [s EXCEPT ![b] = Without(s[b], k)]
<1>4. TakenOut(x, t, r, s, c)
  BY <1>1, <1>2, <1>3, RemovedTable
<1> HIDE DEF x, t
<1>5. /\ x \in ResolverType /\ Table(x, t) /\ In(t) = In(s) \ {c}
      /\ Contents(x, r) /\ Outside(x, r, In(s)) /\ c \in In(s) /\ c \in Cells
      /\ x.spare = c /\ x.number_entries = r.number_entries - 1 /\ x.alive = r.alive
  BY <1>4 DEF TakenOut
<1>6. InTable(x) = InTable(r) \ {c}
  BY <1>3, <1>5, TableIs
<1>7. /\ \A e \in InTable(r) : /\ r.cell[e].canonical = e /\ e \in G /\ i[e] # 0
                               /\ r.cell[e].hash = Hash[i[e]]
      /\ \A d, e \in InTable(r) : i[d] = i[e] => d = e
      /\ r.number_entries = Cardinality(InTable(r))
      /\ \A e \in Cells : r.cell[e] # Unused => e \in InTable(r) \/ e = r.spare
  BY DEF Sound
<1>8. \A e \in InTable(r) : Keeps(x, r, e)
  BY <1>3, <1>5 DEF Contents, Keeps
<1>9. x.number_entries = Cardinality(InTable(x))
  <2>1. IsFiniteSet(InTable(r)) /\ c \in InTable(r)
    BY <1>3, <1>5, InTableCells
  <2> DEFINE T == InTable(r)
  <2> HIDE DEF T
  <2>3. IsFiniteSet(T) /\ c \in T
    BY <2>1 DEF T
  <2>4. Cardinality(T \ {c}) = Cardinality(T) - 1
    BY <2>3, FS_RemoveElement
  <2>2. Cardinality(InTable(r) \ {c}) = Cardinality(InTable(r)) - 1
    BY <2>4 DEF T
  <2> QED
    BY <2>2, <1>5, <1>6, <1>7
<1>10. \A e \in Cells : x.cell[e] # Unused => e \in InTable(x) \/ e = x.spare
  <2>1. SUFFICES ASSUME NEW e \in Cells, e \notin InTable(x), e # x.spare PROVE x.cell[e] = Unused
    OBVIOUS
  <2>2. e \notin In(s)
    BY <2>1, <1>3, <1>5, <1>6
  <2>3. x.cell[e] = r.cell[e]
    BY <2>2, <1>5 DEF Outside
  <2>4. e # Nil
    BY InTableCells
  <2> QED
    BY <2>2, <2>3, <2>4, <1>3, <1>7
<1>11. /\ \A e \in InTable(x) : /\ x.cell[e].canonical = e /\ e \in G /\ i[e] # 0
                                /\ x.cell[e].hash = Hash[i[e]]
       /\ \A d, e \in InTable(x) : i[d] = i[e] => d = e
  BY <1>6, <1>7, <1>8 DEF Keeps
<1>12. x.spare \notin InTable(x) /\ x.spare \in G /\ x.cell[x.spare].canonical \in {NoName, x.spare}
  BY <1>3, <1>5, <1>6, <1>7, <1>8 DEF Keeps
<1>13. Sound(x, G, i)
  BY <1>5, <1>9, <1>10, <1>11, <1>12 DEF Sound
<1>14. Taken(x, r, c, G, i)
  BY <1>3, <1>5, <1>6, <1>8, <1>13 DEF Taken
<1> QED
  BY <1>14 DEF x

(* Nothing but the entry and the number of links of a cell is changed.     *)
LEMMA CellFrame ==
  ASSUME NEW G, NEW i, NEW r, Sound(r, G, i), NEW x \in ResolverType,
         x.buckets = r.buckets, x.spare = r.spare, x.number_entries = r.number_entries,
         \A c \in Cells : /\ x.cell[c].next = r.cell[c].next
                          /\ x.cell[c].previous = r.cell[c].previous
                          /\ x.cell[c].hash = r.cell[c].hash
                          /\ x.cell[c].canonical = r.cell[c].canonical,
         \A c \in Cells : x.cell[c] # Unused => c \in InTable(r) \/ c = r.spare
  PROVE  Sound(x, G, i) /\ InTable(x) = InTable(r)
<1>1. r \in ResolverType
  BY DEF Sound
<1>2. PICK s : Table(r, s)
  BY DEF Sound
<1>3. InTable(r) = In(s) /\ In(s) \subseteq Cells
  BY <1>1, <1>2, TableIs
<1>4. Table(x, s) /\ InTable(x) = InTable(r)
  BY <1>1, <1>2, <1>3, TableFrame
<1>5. /\ \A e \in InTable(r) : /\ r.cell[e].canonical = e /\ e \in G /\ i[e] # 0
                               /\ r.cell[e].hash = Hash[i[e]]
      /\ \A d, e \in InTable(r) : i[d] = i[e] => d = e
      /\ r.number_entries = Cardinality(InTable(r))
      /\ r.spare \notin InTable(r)
      /\ r.spare # Nil => r.spare \in G /\ r.cell[r.spare].canonical \in {NoName, r.spare}
  BY DEF Sound
<1>6. /\ \A e \in InTable(x) : /\ x.cell[e].canonical = e /\ e \in G /\ i[e] # 0
                               /\ x.cell[e].hash = Hash[i[e]]
  BY <1>3, <1>4, <1>5
<1>7. r.spare # Nil => r.spare \in Cells
  BY <1>1 DEF ResolverType, Link
<1> QED
  BY <1>4, <1>5, <1>6, <1>7 DEF Sound

(* The clone of the cell held back is given away.                          *)
HandedOver(x, r, c, G, i) ==
  /\ Sound(x, G, i) /\ InTable(x) = InTable(r) /\ x.spare = c /\ x.alive = r.alive
  /\ x.cell[c].canonical = NoName
  /\ \A d \in Cells : /\ x.cell[d].entry = r.cell[d].entry
                      /\ x.cell[d].links = r.cell[d].links
                      /\ d # c => x.cell[d] = r.cell[d]

LEMMA HandsOverSound ==
  ASSUME NEW G, NEW i, NEW r, Sound(r, G, i), NEW c \in Cells, c = r.spare
  PROVE  HandedOver(HandsOver(r, c), r, c, G, i)
<1> DEFINE x == HandsOver(r, c)
           cc == [r.cell EXCEPT ![c] = [@ EXCEPT !.canonical = NoName]]
<1>1. r \in ResolverType /\ c \in Cells /\ NoName \in Link /\ c # Nil
  BY InTableCells DEF Sound, ResolverType, Link, NoName, Nil
<1>2. /\ cc \in [Cells -> CellType] /\ cc[c].canonical = NoName
      /\ \A d \in Cells : d # c => cc[d] = r.cell[d]
      /\ \A d \in Cells : /\ cc[d].next = r.cell[d].next /\ cc[d].previous = r.cell[d].previous
                           /\ cc[d].hash = r.cell[d].hash /\ cc[d].entry = r.cell[d].entry
                           /\ cc[d].links = r.cell[d].links
  BY <1>1 DEF ResolverType, CellType
<1>3. x = [r EXCEPT !.cell = cc]
  BY <1>1 DEF ResolverType, HandsOver
<1> HIDE DEF x, cc
<1>4. x \in ResolverType /\ x.cell = cc /\ x.buckets = r.buckets /\ x.spare = r.spare
      /\ x.number_entries = r.number_entries /\ x.alive = r.alive
  BY <1>1, <1>2, <1>3 DEF ResolverType
<1>5. PICK s : Table(r, s)
  BY DEF Sound
<1>6. /\ InTable(r) = In(s) /\ In(s) \subseteq Cells
      /\ \A d \in InTable(r) : d # c
  BY <1>1, <1>5, TableIs DEF Sound
<1>7. Table(x, s) /\ InTable(x) = InTable(r)
  BY <1>1, <1>2, <1>4, <1>5, <1>6, TableFrame
<1>8. /\ \A d \in InTable(x) : /\ x.cell[d].canonical = d /\ d \in G /\ i[d] # 0
                                /\ x.cell[d].hash = Hash[i[d]]
      /\ \A d, e \in InTable(x) : i[d] = i[e] => d = e
  BY <1>2, <1>4, <1>6, <1>7 DEF Sound
<1>9. \A d \in Cells : x.cell[d] # Unused => d \in InTable(x) \/ d = x.spare
  BY <1>2, <1>4, <1>7 DEF Sound
<1>10. /\ x.number_entries = Cardinality(InTable(x)) /\ x.spare \notin InTable(x)
       /\ x.spare \in G /\ x.cell[x.spare].canonical = NoName
  BY <1>1, <1>2, <1>4, <1>7 DEF Sound
<1>11. Sound(x, G, i)
  BY <1>4, <1>7, <1>8, <1>9, <1>10 DEF Sound
<1> QED
  BY <1>2, <1>4, <1>7, <1>10, <1>11 DEF HandedOver, x

(* The resolver and the cell after a search.                               *)
Found(f, r, n, G) ==
  /\ Sound(f.r, G, Inode) /\ f.r.alive = r.alive
  /\ \/ /\ f.c = Nil /\ Freed(f.r, r, G, Inode)
        /\ \A c \in InTable(r) : Inode[c] # Inode[n]
     \/ LET left == (r.cell[f.c].links - 1) % Word IN
        /\ f.c \in InTable(r) /\ Inode[f.c] = Inode[n]
        /\ InTable(f.r) = IF left > 0 THEN InTable(r) ELSE InTable(r) \ {f.c}
        /\ f.r.spare = IF left > 0 THEN Nil ELSE f.c
        /\ f.r.cell[f.c].links = left /\ f.r.cell[f.c].canonical = f.c
        /\ f.r.cell[f.c].entry = r.cell[f.c].entry
        /\ \A e \in InTable(r) \ {f.c} : Keeps(f.r, r, e)

LEMMA FindSound ==
  ASSUME NEW G, NEW r0, Sound(r0, G, Inode), NEW n \in Names, stat \in Stats, Inode[n] # 0
  PROVE  Found(Find(r0, n), r0, n, G)
<1> DEFINE r == FreeSpare(r0)
           h == Hash[Inode[n]]
           b == h % NumberBuckets(r)
           chain == Chain(r, r.buckets[b])
           I == {k \in 1..Len(chain) : r.cell[chain[k]].hash = h
                                        /\ Inode[r.cell[chain[k]].canonical] = Inode[n]}
           found == SelectInSeq(chain, LAMBDA c : r.cell[c].hash = h
                                      /\ Inode[r.cell[c].canonical] = Inode[n])
           c == chain[found]
           seen == [r EXCEPT !.cell[c].links = (@ - 1) % Word]
           f == Find(r0, n)
<1>1. found = IF I # {} THEN Min(I) ELSE 0
  BY Zenon DEF SelectInSeq
<1>2. f = IF found = 0 THEN [r |-> r, c |-> Nil]
          ELSE [r |-> IF seen.cell[c].links > 0 THEN seen ELSE Removed(seen, b, c), c |-> c]
  BY Zenon DEF Find
<1>3. Freed(r, r0, G, Inode)
  BY SpareFreed
<1>4. /\ Sound(r, G, Inode) /\ r.spare = Nil /\ r.alive = r0.alive /\ InTable(r) = InTable(r0)
      /\ \A e \in InTable(r) : r.cell[e] = r0.cell[e]
  BY <1>3 DEF Freed
<1>5. r \in ResolverType /\ NumberBuckets(r) \in Nat \ {0}
      /\ r.buckets \in [0..(NumberBuckets(r) - 1) -> Link]
  BY <1>4, Buckets DEF Sound
<1>6. h \in Nat
  BY StatsAssumption DEF Inode
<1>7. b \in 0..(NumberBuckets(r) - 1)
  BY <1>5, <1>6
<1>8. b \in DOMAIN r.buckets
  BY <1>5, <1>7
<1>9. PICK s : Table(r, s)
  BY <1>4 DEF Sound
<1>10. InTable(r) = In(s) /\ In(s) \subseteq Cells /\ chain = s[b]
  BY <1>5, <1>8, <1>9, TableIs
<1>11. \A e \in InTable(r) : /\ r.cell[e].canonical = e /\ e \in G /\ Inode[e] # 0
                             /\ r.cell[e].hash = Hash[Inode[e]]
  BY <1>4 DEF Sound
<1> HIDE DEF found, r, b, chain, f
<1>12. \A k \in 1..Len(chain) : chain[k] \in InTable(r) /\ chain[k] \in Cells
  BY <1>8, <1>9, <1>10 DEF Table, In
<1>13. CASE I = {}
  <2>1. f = [r |-> r, c |-> Nil]
    BY <1>1, <1>2, <1>13
  <2>2. ASSUME NEW e \in InTable(r), Inode[e] = Inode[n] PROVE FALSE
    <3>1. PICK d \in DOMAIN s : e \in {s[d][k] : k \in 1..Len(s[d])}
      BY <1>10, <2>2, Zenon DEF In
    <3>2. d \in DOMAIN r.buckets
      BY <3>1, <1>9 DEF Table
    <3>3. r.cell[e].hash % NumberBuckets(r) = d
      BY <3>1, <3>2, <1>9 DEF Table
    <3>4. d = b
      BY <3>3, <2>2, <1>11 DEF b
    <3>5. PICK k \in 1..Len(chain) : e = chain[k]
      BY <3>1, <3>4, <1>10
    <3> QED
      BY <3>5, <1>13, <1>11, <2>2
  <2>3. f.r = r /\ f.c = Nil
    BY <2>1
  <2> QED
    BY <2>2, <2>3, <1>3, <1>4 DEF Found, f
<1>14. CASE I # {}
  <2>0. I \subseteq Nat
    OBVIOUS
  <2>1. found \in I
    <3> HIDE DEF I
    <3> QED
      BY <2>0, <1>1, <1>14, MinIs
  <2>2. found # 0 /\ found \in 1..Len(chain)
    BY <2>1
  <2>3. c \in InTable(r) /\ c \in Cells /\ Inode[c] = Inode[n]
    BY <2>1, <1>11, <1>12
  <2> DEFINE left == (r.cell[c].links - 1) % Word
             cc == [r.cell EXCEPT ![c] = [r.cell[c] EXCEPT !.links = left]]
  <2> HIDE DEF c
  <2>4. left \in 0..(Word - 1) /\ left \in Int
    <3>1. r.cell[c].links \in Int /\ Word \in Nat \ {0}
      BY <2>3, <1>5, TableAssumption DEF ResolverType, CellType
    <3> QED
      BY <3>1
  <2> HIDE DEF left
  <2>5. seen = [r EXCEPT !.cell = cc]
    BY <2>3, <1>5 DEF ResolverType, left
  <2>6. /\ cc \in [Cells -> CellType]
        /\ cc[c] = [r.cell[c] EXCEPT !.links = left]
        /\ \A e \in Cells : e # c => cc[e] = r.cell[e]
    <3>1. r.cell \in [Cells -> CellType]
      BY <1>5 DEF ResolverType
    <3>2. [r.cell[c] EXCEPT !.links = left] \in CellType
      BY <3>1, <2>3, <2>4 DEF CellType
    <3> QED
      BY <3>1, <3>2, <2>3
  <2> HIDE DEF cc, seen
  <2>7. seen \in ResolverType /\ seen.cell = cc /\ seen.buckets = r.buckets
        /\ seen.spare = r.spare /\ seen.number_entries = r.number_entries /\ seen.alive = r.alive
    BY <2>5, <2>6, <1>5 DEF ResolverType
  <2>8. /\ seen.cell[c].links = left /\ seen.cell[c].canonical = c
        /\ seen.cell[c].entry = r.cell[c].entry /\ seen.cell[c].hash = r.cell[c].hash
        /\ seen.cell[c].next = r.cell[c].next /\ seen.cell[c].previous = r.cell[c].previous
    <3>1. r.cell[c] \in CellType /\ r.cell[c].canonical = c
      BY <1>5, <2>3, <1>11 DEF ResolverType
    <3> QED
      BY <3>1, <2>6, <2>7 DEF CellType
  <2>9. \A e \in Cells : e # c => seen.cell[e] = r.cell[e]
    BY <2>6, <2>7
  <2>10. \A e \in Cells : seen.cell[e] # Unused => e \in InTable(r) \/ e = r.spare
    BY <2>3, <2>9, <1>4 DEF Sound
  <2>11. Sound(seen, G, Inode) /\ InTable(seen) = InTable(r)
    <3>1. \A e \in Cells : /\ seen.cell[e].next = r.cell[e].next
                           /\ seen.cell[e].previous = r.cell[e].previous
                           /\ seen.cell[e].hash = r.cell[e].hash
                           /\ seen.cell[e].canonical = r.cell[e].canonical
      BY <2>3, <2>8, <2>9, <1>11
    <3> QED
      BY <3>1, <2>7, <2>10, <1>4, CellFrame
  <2>12. left = (r0.cell[c].links - 1) % Word /\ r0.cell[c].entry = r.cell[c].entry
    BY <2>3, <1>4 DEF left
  <2>13. \A e \in InTable(r) \ {c} : Keeps(seen, r0, e)
    BY <2>9, <1>4, <1>10 DEF Keeps
  <2>14. CASE left > 0
    <3>1. f = [r |-> seen, c |-> c]
      BY <2>2, <2>8, <2>14, <1>2 DEF c, seen
    <3>2. f.r = seen /\ f.c = c
      BY <3>1
    <3> HIDE DEF f
    <3> QED
      BY <3>2, <2>3, <2>7, <2>8, <2>11, <2>12, <2>13, <2>14, <1>4 DEF Found, f
  <2>15. CASE ~(left > 0)
    <3> DEFINE x == Removed(seen, b, c)
    <3>1. f = [r |-> x, c |-> c]
      BY <2>2, <2>8, <2>15, <1>2 DEF c, seen
    <3>2. f.r = x /\ f.c = c
      BY <3>1
    <3>3. Chain(seen, seen.buckets[b]) = chain
      <4>1. Table(seen, s)
        <5>1. \A e \in In(s) : /\ seen.cell[e].next = r.cell[e].next
                               /\ seen.cell[e].previous = r.cell[e].previous
                               /\ seen.cell[e].hash = r.cell[e].hash
          BY <2>3, <2>8, <2>9, <1>10
        <5> QED
          BY <5>1, <2>7, <1>5, <1>9, TableFrame
      <4>2. Chain(seen, seen.buckets[b]) = s[b]
        BY <4>1, <2>7, <1>8, TableIs
      <4> QED
        BY <4>2, <1>10
    <3>4. Taken(x, seen, c, G, Inode)
      <4>1. found \in 1..Len(Chain(seen, seen.buckets[b]))
            /\ c = Chain(seen, seen.buckets[b])[found] /\ b \in DOMAIN seen.buckets
        BY <3>3, <2>2, <2>7, <1>8 DEF c
      <4> QED
        BY <4>1, <2>7, <2>11, <1>4, RemovedSound
    <3> HIDE DEF x
    <3>5. /\ Sound(x, G, Inode) /\ x.spare = c /\ x.alive = seen.alive
          /\ InTable(x) = InTable(seen) \ {c} /\ \A e \in InTable(seen) : Keeps(x, seen, e)
      BY <3>4 DEF Taken
    <3>6. \A e \in InTable(r) \ {c} : Keeps(x, r0, e)
      BY <3>5, <2>11, <2>13 DEF Keeps
    <3>7. x.cell[c].links = left /\ x.cell[c].canonical = c /\ x.cell[c].entry = r.cell[c].entry
      BY <3>5, <2>3, <2>8, <2>11 DEF Keeps
    <3> QED
      BY <3>2, <3>5, <3>6, <3>7, <2>3, <2>7, <2>11, <2>12, <2>15, <1>4 DEF Found, f
  <2> QED
    BY <2>14, <2>15
<1> QED
  BY <1>13, <1>14 DEF f

(* A new cell is put into the table.                                       *)
Inserted(x, r, n, G) ==
  /\ Sound(x, G \cup {n}, Inode) /\ x.spare = Nil /\ x.alive = r.alive
  /\ InTable(x) = InTable(r) \cup {n} /\ \A e \in InTable(r) : Keeps(x, r, e)
  /\ x.cell[n].canonical = n /\ x.cell[n].entry = NoName
  /\ x.cell[n].links = (Nlink[n] - 1) % Word

LEMMA InsertSound ==
  ASSUME NEW G, NEW r0, Sound(r0, G, Inode), r0.spare = Nil, NEW n \in Names, n \notin G,
         stat \in Stats, Inode[n] # 0, \A c \in InTable(r0) : Inode[c] # Inode[n],
         NEW grows \in BOOLEAN
  PROVE  Inserted(Insert(r0, n, grows), r0, n, G)
<1> DEFINE r == IF Full(r0) /\ grows THEN Grow(r0) ELSE r0
           h == Hash[Inode[n]]
           new == [Unused EXCEPT !.canonical = n, !.hash = h, !.links = (Nlink[n] - 1) % Word]
           b == h % NumberBuckets(r)
           y == [r EXCEPT !.cell[n] = new]
           p == Pushed(y, b, n)
           x == Insert(r0, n, grows)
<1>1. x = [p EXCEPT !.number_entries = @ + 1]
  BY Zenon DEF Insert
<1>2. r0 \in ResolverType
  BY DEF Sound
<1>3. PICK s0 : Table(r0, s0)
  BY DEF Sound
<1>4. InTable(r0) = In(s0) /\ In(s0) \subseteq Cells
  BY <1>2, <1>3, TableIs
<1>5. PICK s : Grown(r, s, r0, s0)
  <2>1. Grown(r0, s0, r0, s0)
    BY <1>2, <1>3 DEF Grown, Same, Contents, Outside
  <2>2. \E t : Grown(Grow(r0), t, r0, s0)
    BY <1>2, <1>3, GrowTable
  <2> QED
    BY <2>1, <2>2
<1> HIDE DEF r
<1>6. /\ r \in ResolverType /\ Table(r, s) /\ In(s) = In(s0) /\ r.spare = Nil
      /\ r.number_entries = r0.number_entries /\ r.alive = r0.alive
      /\ \A c \in Cells : Keeps(r, r0, c)
      /\ \A c \in Cells : c \notin In(s) => r.cell[c] = r0.cell[c]
  BY <1>5 DEF Grown, Same, Contents, Outside, Keeps
<1>7. NumberBuckets(r) \in Nat \ {0} /\ r.buckets \in [0..(NumberBuckets(r) - 1) -> Link]
  BY <1>6, Buckets
<1>8. h \in Nat /\ n \in Cells /\ Nlink[n] \in Int
  BY StatsAssumption DEF Inode, Nlink, Cells
<1>9. b \in DOMAIN r.buckets
  BY <1>7, <1>8
<1>10. /\ \A e \in InTable(r0) : /\ r0.cell[e].canonical = e /\ e \in G /\ Inode[e] # 0
                                 /\ r0.cell[e].hash = Hash[Inode[e]]
       /\ \A d, e \in InTable(r0) : Inode[d] = Inode[e] => d = e
       /\ r0.number_entries = Cardinality(InTable(r0))
       /\ \A e \in Cells : r0.cell[e] # Unused => e \in InTable(r0) \/ e = r0.spare
  BY DEF Sound
<1>11. n \notin In(s)
  BY <1>4, <1>6, <1>10
<1>12. /\ new \in CellType /\ new.canonical = n /\ new.hash = h /\ new.entry = NoName
       /\ new.links = (Nlink[n] - 1) % Word
  <2>1. (Nlink[n] - 1) % Word \in Int
    BY <1>8, TableAssumption
  <2> QED
    BY <2>1, <1>8 DEF CellType, Unused, Link, Nil, NoName
<1> HIDE DEF new, h
<1> DEFINE cc == [r.cell EXCEPT ![n] = new]
<1>13. y = [r EXCEPT !.cell = cc]
  BY <1>6, <1>8 DEF ResolverType
<1>14. cc \in [Cells -> CellType] /\ cc[n] = new /\ \A e \in Cells : e # n => cc[e] = r.cell[e]
  BY <1>6, <1>8, <1>12 DEF ResolverType
<1> HIDE DEF cc, y
<1>15. y \in ResolverType /\ y.cell = cc /\ y.spare = r.spare /\ y.buckets = r.buckets
       /\ y.number_entries = r.number_entries /\ y.alive = r.alive
  BY <1>6, <1>13, <1>14 DEF ResolverType
<1>16. Table(y, s) /\ NumberBuckets(y) = NumberBuckets(r)
  <2>1. \A c \in In(s) : y.cell[c] = r.cell[c]
    BY <1>4, <1>6, <1>11, <1>14, <1>15
  <2> QED
    BY <2>1, <1>6, <1>15, TableFrame DEF NumberBuckets
<1> DEFINE t == [s EXCEPT ![b] = <<n>> \o s[b]]
<1>17. PutIn(p, t, y, s, n)
  <2>1. y.cell[n].hash % NumberBuckets(y) = b /\ b \in DOMAIN y.buckets
    BY <1>9, <1>12, <1>14, <1>15, <1>16
  <2> HIDE DEF b
  <2> QED
    BY <2>1, <1>8, <1>11, <1>15, <1>16, PushedTable
<1> HIDE DEF p, t, b
<1>18. /\ p \in ResolverType /\ Table(p, t) /\ In(t) = In(s) \cup {n}
       /\ Contents(p, y) /\ Outside(p, y, In(t))
       /\ p.spare = Nil /\ p.number_entries = r0.number_entries /\ p.alive = r0.alive
  BY <1>6, <1>15, <1>17 DEF PutIn
<1> HIDE DEF x
<1>19. x \in ResolverType /\ x.cell = p.cell /\ x.buckets = p.buckets /\ x.spare = Nil
       /\ x.number_entries = r0.number_entries + 1 /\ x.alive = r0.alive
  BY <1>1, <1>18 DEF ResolverType
<1>20. Table(x, t) /\ InTable(x) = InTable(r0) \cup {n}
  <2>1. Table(x, t) /\ InTable(x) = InTable(p) /\ InTable(p) = In(t)
    BY <1>18, <1>19, TableFrame
  <2> QED
    BY <2>1, <1>4, <1>6, <1>18
<1>21. \A e \in InTable(r0) : Keeps(x, r0, e)
  <2> SUFFICES ASSUME NEW e \in InTable(r0) PROVE Keeps(x, r0, e)
    OBVIOUS
  <2>1. e \in Cells /\ e # n
    BY <1>4, <1>6, <1>11
  <2>2. y.cell[e] = r.cell[e]
    BY <2>1, <1>14, <1>15
  <2> QED
    BY <2>1, <2>2, <1>6, <1>18, <1>19 DEF Contents, Keeps
<1>22. /\ x.cell[n].canonical = n /\ x.cell[n].hash = Hash[Inode[n]] /\ x.cell[n].entry = NoName
       /\ x.cell[n].links = (Nlink[n] - 1) % Word
  <2>1. y.cell[n] = new
    BY <1>14, <1>15
  <2> QED
    BY <2>1, <1>8, <1>12, <1>18, <1>19 DEF Contents, h
<1>23. x.number_entries = Cardinality(InTable(x))
  <2> DEFINE T == InTable(r0)
  <2> HIDE DEF T
  <2>1. IsFiniteSet(T) /\ n \notin T
    BY <1>4, <1>6, <1>11, InTableCells DEF T
  <2>2. Cardinality(T \cup {n}) = Cardinality(T) + 1
    BY <2>1, FS_AddElement
  <2> QED
    BY <2>2, <1>10, <1>19, <1>20 DEF T
<1>24. \A e \in Cells : x.cell[e] # Unused => e \in InTable(x) \/ e = x.spare
  <2> SUFFICES ASSUME NEW e \in Cells, e \notin InTable(x) PROVE x.cell[e] = Unused
    OBVIOUS
  <2>1. e # n /\ e \notin In(t) /\ e \notin In(s) /\ e # Nil
    BY <1>4, <1>6, <1>18, <1>20, InTableCells
  <2>2. x.cell[e] = r.cell[e]
    BY <2>1, <1>14, <1>15, <1>18, <1>19 DEF Outside
  <2>3. r0.cell[e] = Unused
    BY <2>1, <1>4, <1>6, <1>10
  <2> QED
    BY <2>1, <2>2, <2>3, <1>6
<1>25. /\ \A e \in InTable(x) : /\ x.cell[e].canonical = e /\ e \in G \cup {n} /\ Inode[e] # 0
                                /\ x.cell[e].hash = Hash[Inode[e]]
       /\ \A d, e \in InTable(x) : Inode[d] = Inode[e] => d = e
  BY <1>10, <1>20, <1>21, <1>22 DEF Keeps
<1>26. Nil \notin InTable(x)
  BY <1>8, <1>20, InTableCells
<1>27. Sound(x, G \cup {n}, Inode)
  BY <1>19, <1>20, <1>23, <1>24, <1>25, <1>26 DEF Sound
<1>28. Inserted(x, r0, n, G)
  BY <1>19, <1>20, <1>21, <1>22, <1>27 DEF Inserted
<1> QED
  BY <1>28 DEF x

(* The resolver and the cell after one of the kinds asked for is taken out. *)
NextTaken(x, r, mode, G) ==
  \/ /\ x.c = Nil /\ Freed(x.r, r, G, Inode)
     /\ \A c \in InTable(r) : Kind(r.cell[c]) \notin mode
  \/ /\ Taken(x.r, r, x.c, G, Inode) /\ Kind(r.cell[x.c]) \in mode

LEMMA NextEntrySound ==
  ASSUME NEW G, NEW r0, Sound(r0, G, Inode), NEW mode
  PROVE  NextTaken(NextEntry(r0, mode), r0, mode, G)
<1> DEFINE r == FreeSpare(r0)
           ch(b) == Chain(r, r.buckets[b])
           I(b) == {k \in 1..Len(ch(b)) : Kind(r.cell[ch(b)[k]]) \in mode}
           found(b) == SelectInSeq(ch(b), LAMBDA c : Kind(r.cell[c]) \in mode)
           some == {b \in DOMAIN r.buckets : found(b) # 0}
           b == Min(some)
           c == ch(b)[found(b)]
           x == NextEntry(r0, mode)
<1>1. ASSUME NEW d PROVE found(d) = IF I(d) # {} THEN Min(I(d)) ELSE 0
  BY Zenon DEF SelectInSeq
<1>2. x = IF some = {} THEN [r |-> r, c |-> Nil] ELSE [r |-> Removed(r, b, c), c |-> c]
  BY Zenon DEF NextEntry
<1>3. Freed(r, r0, G, Inode)
  BY SpareFreed
<1>4. /\ Sound(r, G, Inode) /\ r.spare = Nil /\ r.alive = r0.alive /\ InTable(r) = InTable(r0)
      /\ \A e \in InTable(r) : r.cell[e] = r0.cell[e]
  BY <1>3 DEF Freed
<1>5. r \in ResolverType /\ NumberBuckets(r) \in Nat \ {0}
      /\ r.buckets \in [0..(NumberBuckets(r) - 1) -> Link]
  BY <1>4, Buckets DEF Sound
<1>9. PICK s : Table(r, s)
  BY <1>4 DEF Sound
<1>10. InTable(r) = In(s) /\ In(s) \subseteq Cells /\ \A d \in DOMAIN r.buckets : ch(d) = s[d]
  BY <1>5, <1>9, TableIs
<1> HIDE DEF found, r, ch, x
<1>11. ASSUME NEW d \in DOMAIN r.buckets, I(d) # {}
       PROVE  found(d) \in I(d) /\ found(d) \in 1..Len(ch(d)) /\ found(d) # 0
  <2>1. I(d) \subseteq Nat
    OBVIOUS
  <2>2. found(d) \in I(d)
    <3> HIDE DEF I
    <3> QED
      BY <2>1, <1>1, <1>11, MinIs
  <2> QED
    BY <2>2
<1>12. ASSUME NEW d \in DOMAIN r.buckets PROVE found(d) # 0 <=> I(d) # {}
  BY <1>1, <1>11
<1>13. CASE some = {}
  <2>1. x.r = r /\ x.c = Nil
    BY <1>2, <1>13
  <2>2. ASSUME NEW e \in InTable(r), Kind(r.cell[e]) \in mode PROVE FALSE
    <3>1. PICK d \in DOMAIN s : e \in {s[d][k] : k \in 1..Len(s[d])}
      BY <1>10, <2>2, Zenon DEF In
    <3>2. d \in DOMAIN r.buckets
      BY <3>1, <1>9 DEF Table
    <3>3. PICK k \in 1..Len(ch(d)) : e = ch(d)[k]
      BY <3>1, <3>2, <1>10
    <3>4. k \in I(d)
      BY <3>3, <2>2
    <3> HIDE DEF I
    <3> QED
      BY <3>2, <3>4, <1>12, <1>13
  <2> QED
    BY <2>1, <2>2, <1>3, <1>4 DEF NextTaken, x
<1>14. CASE some # {}
  <2>1. some \subseteq Nat
    BY <1>5
  <2>2. b \in some
    <3> HIDE DEF some
    <3> QED
      BY <2>1, <1>14, MinIs
  <2> HIDE DEF b
  <2>3. b \in DOMAIN r.buckets /\ found(b) # 0
    BY <2>2
  <2>4. found(b) \in 1..Len(ch(b)) /\ Kind(r.cell[c]) \in mode
    BY <2>3, <1>11, <1>12
  <2>5. Taken(Removed(r, b, c), r, c, G, Inode)
    <3>1. found(b) \in 1..Len(Chain(r, r.buckets[b])) /\ c = Chain(r, r.buckets[b])[found(b)]
      BY <2>4 DEF ch
    <3> HIDE DEF c
    <3> QED
      BY <3>1, <2>3, <1>4, RemovedSound
  <2>6. x.r = Removed(r, b, c) /\ x.c = c
    BY <1>2, <1>14 DEF b
  <2> HIDE DEF c
  <2>7. Taken(x.r, r0, x.c, G, Inode) /\ Kind(r0.cell[x.c]) \in mode
    BY <2>4, <2>5, <2>6, <1>4 DEF Taken, Keeps
  <2> QED
    BY <2>7 DEF NextTaken, x
<1> QED
  BY <1>13, <1>14

(* The entry of a cell is put there, or taken away.                        *)
EntrySet(x, r, c, e, G) ==
  /\ Sound(x, G, Inode) /\ x.spare = r.spare /\ x.alive = r.alive /\ InTable(x) = InTable(r)
  /\ \A d \in Cells : d # c => x.cell[d] = r.cell[d]
  /\ x.cell[c].entry = e /\ x.cell[c].links = r.cell[c].links

LEMMA EntrySetSound ==
  ASSUME NEW G, NEW r, Sound(r, G, Inode), NEW c \in Cells, NEW e \in Link,
         c \in InTable(r) \/ c = r.spare
  PROVE  EntrySet([r EXCEPT !.cell[c].entry = e], r, c, e, G)
<1> DEFINE x == [r EXCEPT !.cell[c].entry = e]
           cc == [r.cell EXCEPT ![c] = [r.cell[c] EXCEPT !.entry = e]]
<1>1. r \in ResolverType
  BY DEF Sound
<1>2. x = [r EXCEPT !.cell = cc]
  BY <1>1 DEF ResolverType
<1>3. r.cell[c] \in CellType /\ r.cell \in [Cells -> CellType]
  BY <1>1 DEF ResolverType
<1>4. /\ cc \in [Cells -> CellType] /\ cc[c].entry = e /\ cc[c].links = r.cell[c].links
      /\ cc[c].next = r.cell[c].next /\ cc[c].previous = r.cell[c].previous
      /\ cc[c].hash = r.cell[c].hash /\ cc[c].canonical = r.cell[c].canonical
      /\ \A d \in Cells : d # c => cc[d] = r.cell[d]
  BY <1>3 DEF CellType
<1> HIDE DEF cc, x
<1>5. x \in ResolverType /\ x.cell = cc /\ x.buckets = r.buckets /\ x.spare = r.spare
      /\ x.number_entries = r.number_entries /\ x.alive = r.alive
  BY <1>1, <1>2, <1>4 DEF ResolverType
<1>6. \A d \in Cells : x.cell[d] # Unused => d \in InTable(r) \/ d = r.spare
  BY <1>4, <1>5 DEF Sound
<1>7. Sound(x, G, Inode) /\ InTable(x) = InTable(r)
  <2>1. \A d \in Cells : /\ x.cell[d].next = r.cell[d].next
                         /\ x.cell[d].previous = r.cell[d].previous
                         /\ x.cell[d].hash = r.cell[d].hash
                         /\ x.cell[d].canonical = r.cell[d].canonical
    BY <1>4, <1>5
  <2> QED
    BY <2>1, <1>5, <1>6, CellFrame
<1>8. EntrySet(x, r, c, e, G)
  BY <1>4, <1>5, <1>7 DEF EntrySet
<1> QED
  BY <1>8 DEF x

(* f has the resolver after each cell that is freed.                       *)
Empties(f, r, n) ==
  /\ Emptied(r) = FreeSpare(f[n]) /\ f[0] = r
  /\ \A k \in 1..n : f[k] = NextEntry(f[k - 1], {"deferred", "partial"}).r

LEMMA EmptiedFunction ==
  ASSUME NEW r, NEW n \in Nat, n = Cardinality(Cells)
  PROVE  \E f : Empties(f, r, n)
<1> DEFINE F(f, k) == IF k = 0 THEN r ELSE NextEntry(f[k - 1], {"deferred", "partial"}).r
           S == {m \in Nat : \E f : f = [k \in 0..m |-> F(f, k)]}
<1>1. 0 \in S
  <2> DEFINE f == [k \in 0..0 |-> r]
  <2>1. f = [k \in 0..0 |-> F(f, k)]
    OBVIOUS
  <2> QED
    BY <2>1
<1>2. ASSUME NEW m \in Nat, m \in S PROVE m + 1 \in S
  <2>1. PICK f : f = [k \in 0..m |-> F(f, k)]
    BY <1>2
  <2> DEFINE g == [k \in 0..(m + 1) |-> IF k = m + 1 THEN F(f, m + 1) ELSE f[k]]
  <2>2. ASSUME NEW k \in 0..(m + 1) PROVE g[k] = F(g, k)
    <3>1. k # 0 => k - 1 \in 0..m
      OBVIOUS
    <3>2. k # 0 => g[k - 1] = f[k - 1]
      BY <3>1
    <3>3. F(g, k) = F(f, k)
      BY <3>2
    <3>4. CASE k = m + 1
      <4>1. k \in 0..(m + 1) /\ g[k] = F(f, m + 1)
        BY <3>4
      <4> HIDE DEF F, g
      <4> QED
        BY <3>3, <3>4, <4>1
    <3>5. CASE k # m + 1
      <4>1. k \in 0..m
        BY <3>5
      <4>2. f[k] = F(f, k)
        BY <4>1, <2>1
      <4> HIDE DEF F
      <4>3. g[k] = f[k]
        BY <3>5
      <4> QED
        BY <3>3, <4>2, <4>3
    <3> QED
      BY <3>4, <3>5
  <2> HIDE DEF F
  <2>3. g = [k \in 0..(m + 1) |-> g[k]]
    OBVIOUS
  <2>4. g = [k \in 0..(m + 1) |-> F(g, k)]
    <3> HIDE DEF g
    <3> QED
      BY <2>2, <2>3
  <2> HIDE DEF g
  <2> QED
    BY <2>4
<1> HIDE DEF F, S
<1>3. Nat \subseteq S
  BY <1>1, <1>2, SetInduction
<1>4. n \in S
  BY <1>3
<1> DEFINE f == CHOOSE f : f = [k \in 0..n |-> F(f, k)]
<1>5. f = [k \in 0..n |-> F(f, k)]
  BY <1>4, Zenon DEF S
<1>6. Emptied(r) = FreeSpare(f[n])
  BY Zenon DEF Emptied, F
<1> HIDE DEF f
<1>7. f[0] = r
  BY <1>5 DEF F
<1>8. ASSUME NEW k \in 1..n
      PROVE  f[k] = NextEntry(f[k - 1], {"deferred", "partial"}).r
  <2>1. k \in 0..n /\ k # 0
    OBVIOUS
  <2>2. f[k] = F(f, k)
    BY <2>1, <1>5, Zenon
  <2> QED
    BY <2>1, <2>2, Zenon DEF F
<1> QED
  BY <1>6, <1>7, <1>8 DEF Empties


LEMMA EmptiedSound ==
  ASSUME NEW G, NEW r, Sound(r, G, Inode)
  PROVE  /\ Sound(Emptied(r), G, Inode) /\ Emptied(r).alive = r.alive
         /\ \A c \in Cells : Emptied(r).cell[c] = Unused
<1> DEFINE n == Cardinality(Cells)
<1>1. n \in Nat /\ Cardinality(InTable(r)) <= n
  <2>1. IsFiniteSet(Cells) /\ InTable(r) \in SUBSET Cells
    BY NamesAssumption, InTableCells DEF Cells
  <2> QED
    BY <2>1, FS_CardinalityType, FS_Subset
<1>2. PICK f : Empties(f, r, n)
  BY <1>1, EmptiedFunction
<1>3. /\ Emptied(r) = FreeSpare(f[n]) /\ f[0] = r
      /\ \A k \in 1..n : f[k] = NextEntry(f[k - 1], {"deferred", "partial"}).r
  BY <1>2 DEF Empties
<1> DEFINE P(k) == /\ Sound(f[k], G, Inode) /\ f[k].alive = r.alive
                   /\ Cardinality(InTable(f[k])) <= n - k
           S == {k \in Nat : k <= n => P(k)}
<1>4. 0 \in S
  BY <1>1, <1>3
<1>5. ASSUME NEW k \in Nat, k \in S PROVE k + 1 \in S
  <2> SUFFICES ASSUME k + 1 <= n PROVE P(k + 1)
    OBVIOUS
  <2>1. P(k) /\ k + 1 \in 1..n /\ (k + 1) - 1 = k
    BY <1>1, <1>5
  <2> DEFINE y == f[k]
             x == NextEntry(y, {"deferred", "partial"})
  <2>2. f[k + 1] = x.r
    BY <2>1, <1>3
  <2>3. NextTaken(x, y, {"deferred", "partial"}, G)
    BY <2>1, NextEntrySound
  <2>4. IsFiniteSet(InTable(y)) /\ Cardinality(InTable(y)) \in Nat
    BY <2>1, InTableCells, FS_CardinalityType
  <2> HIDE DEF x
  <2>5. CASE /\ x.c = Nil /\ Freed(x.r, y, G, Inode)
             /\ \A c \in InTable(y) : Kind(y.cell[c]) \notin {"deferred", "partial"}
    <3>1. InTable(y) = {}
      BY <2>5 DEF Kind
    <3>2. Sound(x.r, G, Inode) /\ x.r.alive = y.alive /\ InTable(x.r) = {}
      BY <3>1, <2>5 DEF Freed
    <3>3. Cardinality(InTable(x.r)) = 0
      BY <3>2, FS_EmptySet
    <3>4. Cardinality(InTable(x.r)) <= n - (k + 1)
      BY <3>3, <2>1, <1>1
    <3> QED
      BY <3>2, <3>4, <2>1, <2>2
  <2>6. CASE Taken(x.r, y, x.c, G, Inode)
    <3>1. /\ Sound(x.r, G, Inode) /\ x.r.alive = y.alive /\ x.c \in InTable(y)
          /\ InTable(x.r) = InTable(y) \ {x.c}
      BY <2>6 DEF Taken
    <3> DEFINE T == InTable(y)
    <3> HIDE DEF T
    <3>2. Cardinality(T \ {x.c}) = Cardinality(T) - 1
      BY <3>1, <2>4, FS_RemoveElement DEF T
    <3>3. Cardinality(InTable(x.r)) = Cardinality(InTable(y)) - 1
      BY <3>1, <3>2 DEF T
    <3>4. Cardinality(InTable(x.r)) <= n - (k + 1)
      BY <3>3, <2>1, <2>4, <1>1
    <3> QED
      BY <3>1, <3>4, <2>1, <2>2
  <2> QED
    BY <2>3, <2>5, <2>6 DEF NextTaken
<1> HIDE DEF S
<1>6. n \in S
  BY <1>1, <1>4, <1>5, SetInduction
<1> DEFINE y == f[n]
           x == FreeSpare(y)
<1>7. /\ Sound(y, G, Inode) /\ y.alive = r.alive /\ InTable(y) = {}
  <2>1. P(n)
    BY <1>1, <1>6 DEF S
  <2>2. IsFiniteSet(InTable(y)) /\ Cardinality(InTable(y)) \in Nat
    BY <2>1, InTableCells, FS_CardinalityType
  <2>3. Cardinality(InTable(y)) = 0
    BY <2>1, <2>2, <1>1
  <2> QED
    BY <2>1, <2>2, <2>3, FS_EmptySet
<1>8. Freed(x, y, G, Inode)
  BY <1>7, SpareFreed
<1> HIDE DEF x, y
<1>9. Sound(x, G, Inode) /\ x.alive = r.alive /\ InTable(x) = {} /\ x.spare = Nil
  BY <1>7, <1>8 DEF Freed
<1>10. \A c \in Cells : x.cell[c] = Unused
  <2>1. Nil \notin Cells
    BY NamesAssumption DEF Nil, Cells
  <2> QED
    BY <2>1, <1>9 DEF Sound
<1>11. Emptied(r) = x
  BY <1>3 DEF x, y
<1> QED
  BY <1>9, <1>10, <1>11

LEMMA GivenMore ==
  ASSUME NEW G, NEW H, NEW i, NEW r, Sound(r, G, i), G \subseteq H
  PROVE  Sound(r, H, i)
<1> QED
  BY DEF Sound

-----------------------------------------------------------------------------
(* The table stays sound.                                                  *)

TableInv ==
  /\ stat \in Stats /\ given \subseteq Names
  /\ Sound(res, given, Inode)
  /\ ~res.alive => \A c \in Cells : res.cell[c] = Unused

LEMMA TableSoundHolds ==
  ASSUME TableInv
  PROVE  TableSound
<1>1. res \in ResolverType
  BY DEF TableInv, Sound
<1>2. PICK s : Table(res, s)
  BY DEF TableInv, Sound
<1>3. InTable(res) = In(s) /\ In(s) \subseteq Cells
      /\ \A b \in DOMAIN res.buckets : Chain(res, res.buckets[b]) = s[b]
  BY <1>1, <1>2, TableIs
<1>4. /\ \A e \in InTable(res) : /\ res.cell[e].canonical = e
                                 /\ res.cell[e].hash = Hash[Inode[e]]
      /\ \A c, e \in InTable(res) : Inode[c] = Inode[e] => c = e
      /\ res.number_entries = Cardinality(InTable(res))
      /\ \A e \in Cells : res.cell[e] # Unused => e \in InTable(res) \/ e = res.spare
      /\ res.spare \notin InTable(res)
  BY DEF TableInv, Sound
<1>5. ASSUME NEW b \in DOMAIN res.buckets, NEW k \in DOMAIN s[b]
      PROVE  LET le == res.cell[s[b][k]] IN
             /\ le.previous = IF k = 1 THEN Nil ELSE s[b][k - 1]
             /\ le.canonical # NoName /\ le.hash = Hash[Inode[le.canonical]]
             /\ le.hash % NumberBuckets(res) = b
  <2>1. s[b] \in Seq(Cells) /\ k \in 1..Len(s[b])
    BY <1>2 DEF Table
  <2>2. s[b][k] \in InTable(res)
    BY <2>1, <1>2, <1>3 DEF In, Table
  <2>3. /\ res.cell[s[b][k]].previous = IF k = 1 THEN Nil ELSE s[b][k - 1]
        /\ res.cell[s[b][k]].hash % NumberBuckets(res) = b
    BY <2>1, <1>2 DEF Table, Listed
  <2>4. s[b][k] # NoName
    BY <2>2, <1>3, NamesAssumption DEF Cells, NoName
  <2> QED
    BY <2>2, <2>3, <2>4, <1>4
<1>6. \A c, e \in InTable(res) :
        Inode[res.cell[c].canonical] = Inode[res.cell[e].canonical] => c = e
  BY <1>4
<1>7. ~res.alive => res.cell = [c \in Cells |-> Unused]
  BY <1>1 DEF TableInv, ResolverType
<1>8. \A b \in DOMAIN res.buckets : DOMAIN s[b] = DOMAIN Chain(res, res.buckets[b])
  BY <1>3
<1>9. \A c \in Cells : res.cell[c] # Unused => c \in InTable(res) \cup {res.spare}
  BY <1>4
<1>10. \A b \in DOMAIN res.buckets :
         LET chain == Chain(res, res.buckets[b]) IN
         \A k \in DOMAIN chain :
           LET le == res.cell[chain[k]] IN
           /\ le.previous = IF k = 1 THEN Nil ELSE chain[k - 1]
           /\ le.canonical # NoName /\ le.hash = Hash[Inode[le.canonical]]
           /\ le.hash % NumberBuckets(res) = b
  <2> SUFFICES ASSUME NEW b \in DOMAIN res.buckets, NEW k \in DOMAIN Chain(res, res.buckets[b])
               PROVE  LET chain == Chain(res, res.buckets[b])
                          le == res.cell[chain[k]] IN
                      /\ le.previous = IF k = 1 THEN Nil ELSE chain[k - 1]
                      /\ le.canonical # NoName /\ le.hash = Hash[Inode[le.canonical]]
                      /\ le.hash % NumberBuckets(res) = b
    BY Zenon
  <2> DEFINE chain == Chain(res, res.buckets[b])
  <2>1. chain = s[b] /\ k \in DOMAIN s[b]
    BY <1>3
  <2> HIDE DEF chain
  <2>2. LET le == res.cell[chain[k]] IN
        /\ le.previous = IF k = 1 THEN Nil ELSE chain[k - 1]
        /\ le.canonical # NoName /\ le.hash = Hash[Inode[le.canonical]]
        /\ le.hash % NumberBuckets(res) = b
    BY <1>5, <2>1
  <2> QED
    BY <2>2 DEF chain
<1> QED
  BY <1>4, <1>6, <1>7, <1>9, <1>10 DEF TableSound

(* Nothing is remembered at the start.                                     *)
LEMMA TableInit ==
  ASSUME Init
  PROVE  TableInv /\ InTable(res) = {} /\ res.alive /\ \A c \in Cells : res.cell[c] = Unused
<1> DEFINE q == [b \in 0..(InitialBuckets - 1) |-> Nil]
           cc == [c \in Cells |-> Unused]
           s == [b \in 0..(InitialBuckets - 1) |-> <<>>]
<1>1. res = [cell |-> cc, buckets |-> q, spare |-> Nil, number_entries |-> 0, alive |-> TRUE]
  BY DEF Init
<1>2. q \in [0..(InitialBuckets - 1) -> Link] /\ InitialBuckets \in Nat \ {0}
  BY TableAssumption DEF Link
<1>3. cc \in [Cells -> CellType] /\ Nil \in Link
  BY DEF CellType, Unused, Link, NoName, Nil
<1> HIDE DEF q, cc
<1>4. res \in ResolverType
  BY <1>1, <1>2, <1>3 DEF ResolverType
<1> USE DEF q, cc
<1>5. DOMAIN res.buckets = 0..(InitialBuckets - 1) /\ \A b \in DOMAIN res.buckets : res.buckets[b] = Nil
  BY <1>1
<1>6. Table(res, s)
  <2>1. \A b \in DOMAIN res.buckets : Listed(res, b, s[b]) /\ Len(s[b]) = 0
    <3> SUFFICES ASSUME NEW b \in DOMAIN res.buckets
                 PROVE  Listed(res, b, s[b]) /\ Len(s[b]) = 0
      OBVIOUS
    <3>1. s[b] = <<>> /\ res.buckets[b] = Nil
      BY <1>5
    <3> HIDE DEF s
    <3>2. Len(s[b]) = 0 /\ s[b] \in Seq(Cells)
      BY <3>1, EmptySeq, Zenon
    <3> QED
      BY <3>1, <3>2 DEF Listed
  <2>2. s \in [DOMAIN res.buckets -> Seq(Cells)]
    BY <1>5
  <2> HIDE DEF s
  <2> QED
    BY <2>1, <2>2 DEF Table
<1>7. In(s) = {}
  BY DEF In
<1>8. InTable(res) = {} /\ Nil \notin Cells
  BY <1>4, <1>6, <1>7, TableIs, NamesAssumption DEF Nil, Cells
<1>9. \A c \in Cells : res.cell[c] = Unused
  BY <1>1
<1>10. Sound(res, given, Inode)
  BY <1>1, <1>4, <1>6, <1>8, <1>9, FS_EmptySet DEF Sound
<1>11. res.alive /\ stat \in Stats /\ given \subseteq Names
  BY <1>1 DEF Init
<1> QED
  BY <1>8, <1>9, <1>10, <1>11 DEF TableInv

-----------------------------------------------------------------------------
(* A file: the entries of it that came back, those that were given, its    *)
(* cells, the entries held back in them and the numbers of links that are  *)
(* left there.  t is the inode and nlink of the entries.                   *)

Entry == [name : Names, hardlink : Link, body : BOOLEAN]
NamesOf(i, t) == {n \in Names : t.inode[n] = i}
NameSet(came) == {came[k].name : k \in 1..Len(came)}

(* A hard link at place k names an entry of the file that came before.     *)
LinkRight(came, k, name, i, s, t) ==
  name # NoName =>
    /\ name \in NamesOf(i, t)
    /\ s # "new_cpio" => \E j \in 1..(k - 1) : came[j] = Plain(name)

LinksRight(came, i, s, t) ==
  \A k \in 1..Len(came) : LinkRight(came, k, came[k].hardlink, i, s, t)

FileOK(came, owed, cells, held, left, i, s, lost, alive, t) ==
  /\ came \in Seq(Entry) /\ owed \subseteq NamesOf(i, t) /\ held \subseteq owed /\ cells \subseteq owed
  /\ i = 0 => cells = {}
  /\ \A c, d \in cells : c = d
  /\ \A c, d \in held : c = d
  /\ alive => owed = held \cup NameSet(came)
  /\ Len(came) + Cardinality(held) <= Cardinality(owed)
  /\ i # 0 => LinksRight(came, i, s, t)
  /\ s = "new_cpio" /\ Len(came) # 0 /\ alive => came[Len(came)].body \/ held # {}
  /\ s = "new_cpio" => (cells = {} <=> held = {})
  /\ s # "new_cpio" => held = {}
  /\ s = "old_cpio" => cells = {}
  /\ s \in {"tar", "mtree"} => \A c \in cells : \E j \in 1..Len(came) : came[j] = Plain(c)
  /\ i # 0 /\ i \notin lost =>
       /\ left = {t.nlink[c] - Cardinality(owed) : c \in cells}
       /\ alive /\ s # "old_cpio" /\ owed # {} => cells # {} \/ owed = NamesOf(i, t)
       /\ s = "new_cpio" => \A k \in 1..Len(came) : came[k].body => owed = NamesOf(i, t)
       /\ s \in {"tar", "new_cpio"} =>
            \A j, k \in 1..Len(came) : came[j].body /\ came[k].body => j = k

LEMMA FileLess ==
  ASSUME NEW came, NEW owed, NEW cells, NEW held, NEW left, NEW i \in Nat, NEW s, NEW t, NEW alive,
         NEW lost, NEW lost2, lost \subseteq lost2,
         FileOK(came, owed, cells, held, left, i, s, lost, alive, t)
  PROVE  FileOK(came, owed, cells, held, left, i, s, lost2, alive, t)
<1> QED
  BY DEF FileOK

LEMMA FileFreed ==
  ASSUME NEW came, NEW owed, NEW cells, NEW held, NEW left, NEW i \in Nat, NEW s, NEW t,
         NEW lost, FileOK(came, owed, cells, held, left, i, s, lost, TRUE, t)
  PROVE  FileOK(came, owed, {}, {}, {}, i, s, lost, FALSE, t)
<1>1. IsFiniteSet(held) /\ Cardinality(held) \in Nat /\ Cardinality({}) = 0
  <2>1. held \subseteq Names
    BY DEF FileOK, NamesOf
  <2> QED
    BY <2>1, NamesAssumption, FS_Subset, FS_CardinalityType, FS_EmptySet
<1>2. Len(came) \in Nat /\ Cardinality(owed) \in Nat
  <2>1. owed \subseteq Names
    BY DEF FileOK, NamesOf
  <2>2. Cardinality(owed) \in Nat
    BY <2>1, NamesAssumption, FS_Subset, FS_CardinalityType
  <2>3. came \in Seq(Entry)
    BY DEF FileOK
  <2> QED
    BY <2>2, <2>3
<1>3. Len(came) + Cardinality({}) <= Cardinality(owed)
  <2>1. Len(came) + Cardinality(held) <= Cardinality(owed)
    BY DEF FileOK
  <2> QED
    BY <2>1, <1>1, <1>2
<1> QED
  BY <1>3 DEF FileOK

LEMMA Appended ==
  ASSUME NEW came \in Seq(Entry), NEW e \in Entry
  PROVE  /\ came \o <<e>> \in Seq(Entry) /\ Len(came \o <<e>>) = Len(came) + 1
         /\ \A k \in 1..Len(came) : (came \o <<e>>)[k] = came[k]
         /\ (came \o <<e>>)[Len(came) + 1] = e
         /\ NameSet(came \o <<e>>) = NameSet(came) \cup {e.name}
         /\ Len(came) \in Nat
<1> DEFINE v == came \o <<e>>
           m == Len(came)
<1>1. <<e>> \in Seq(Entry) /\ Len(<<e>>) = 1 /\ <<e>>[1] = e /\ m \in Nat
  OBVIOUS
<1>2. /\ v \in Seq(Entry) /\ Len(v) = m + 1
      /\ \A k \in 1..(m + 1) : v[k] = IF k <= m THEN came[k] ELSE <<e>>[k - m]
  BY <1>1, ConcatProperties
<1> HIDE DEF v, m
<1>3. /\ \A k \in 1..m : v[k] = came[k]
      /\ v[m + 1] = e
  <2>1. m + 1 \in 1..(m + 1) /\ (m + 1) - m = 1 /\ ~(m + 1 <= m)
        /\ \A k \in 1..m : k \in 1..(m + 1) /\ k <= m
    BY <1>1
  <2> QED
    BY <2>1, <1>1, <1>2
<1>4. NameSet(v) = NameSet(came) \cup {e.name}
  <2>1. 1..(m + 1) = (1..m) \cup {m + 1}
    BY <1>1
  <2>2. NameSet(v) \subseteq NameSet(came) \cup {e.name}
    BY <2>1, <1>2, <1>3 DEF NameSet, m
  <2>3. NameSet(came) \cup {e.name} \subseteq NameSet(v)
    BY <2>1, <1>2, <1>3 DEF NameSet, m
  <2> QED
    BY <2>2, <2>3
<1> QED
  BY <1>1, <1>2, <1>3, <1>4 DEF v, m

(* The numbers of entries of a file.                                       *)
Counts(owed, o, all) ==
  /\ IsFiniteSet(owed) /\ Cardinality(owed) \in Nat
  /\ Cardinality(o) = Cardinality(owed) + 1
  /\ Cardinality(all) \in Nat /\ Cardinality(owed) + 1 <= Cardinality(all)
  /\ Cardinality(owed) + 1 = Cardinality(all) => o = all
  /\ owed = {} <=> Cardinality(owed) = 0

LEMMA OwedMore ==
  ASSUME NEW i, NEW t, NEW owed, owed \subseteq NamesOf(i, t), NEW n \in NamesOf(i, t), n \notin owed
  PROVE  Counts(owed, owed \cup {n}, NamesOf(i, t))
<1> DEFINE all == NamesOf(i, t)
<1>1. IsFiniteSet(all)
  <2>1. all \subseteq Names
    BY DEF NamesOf
  <2> QED
    BY <2>1, NamesAssumption, FS_Subset
<1> HIDE DEF all
<1>2. owed \subseteq all /\ owed \cup {n} \subseteq all
  BY DEF all
<1>3. IsFiniteSet(owed) /\ Cardinality(owed) \in Nat /\ Cardinality(all) \in Nat
  BY <1>1, <1>2, FS_Subset, FS_CardinalityType
<1>4. Cardinality(owed \cup {n}) = Cardinality(owed) + 1
  BY <1>3, FS_AddElement
<1>5. /\ Cardinality(owed \cup {n}) <= Cardinality(all)
      /\ Cardinality(owed \cup {n}) = Cardinality(all) => owed \cup {n} = all
  BY <1>1, <1>2, FS_Subset
<1>6. owed = {} <=> Cardinality(owed) = 0
  BY <1>3, FS_EmptySet
<1> QED
  BY <1>3, <1>4, <1>5, <1>6 DEF all, Counts

(* What entry e at the end changes.                                        *)
LEMMA LinksBack ==
  ASSUME NEW came \in Seq(Entry), NEW e \in Entry, NEW i \in Nat, NEW t, NEW s,
         LinksRight(came, i, s, t), LinkRight(came, Len(came) + 1, e.hardlink, i, s, t)
  PROVE  LinksRight(came \o <<e>>, i, s, t)
<1> DEFINE v == came \o <<e>>
           m == Len(came)
<1>1. Len(v) = m + 1 /\ (\A k \in 1..m : v[k] = came[k]) /\ v[m + 1] = e
  BY Appended
<1>2. m \in Nat /\ m = Len(came)
  OBVIOUS
<1> HIDE DEF v, m
<1>3. ASSUME NEW k \in 1..(m + 1) PROVE LinkRight(v, k, v[k].hardlink, i, s, t)
  <2>1. \A j \in 1..(k - 1) : j \in 1..m
    BY <1>2
  <2>2. \A j \in 1..(k - 1) : v[j] = came[j]
    BY <2>1, <1>1
  <2>3. CASE k = m + 1
    <3>1. LinkRight(came, k, v[k].hardlink, i, s, t)
      BY <2>3, <1>1, <1>2
    <3> QED
      BY <3>1, <2>2 DEF LinkRight
  <2>4. CASE k # m + 1
    <3>1. k \in 1..m
      BY <2>4, <1>2
    <3>2. LinkRight(came, k, v[k].hardlink, i, s, t)
      BY <3>1, <1>1, <1>2 DEF LinksRight
    <3> QED
      BY <3>2, <2>2 DEF LinkRight
  <2> QED
    BY <2>3, <2>4
<1>4. LinksRight(v, i, s, t)
  BY <1>1, <1>3 DEF LinksRight
<1> QED
  BY <1>4 DEF v

(* An entry that goes as it came.                                          *)
LEMMA FilePlain ==
  ASSUME NEW came, NEW owed, NEW cells, NEW held, NEW left, NEW i \in Nat, NEW s, NEW t,
         NEW lost, FileOK(came, owed, cells, held, left, i, s, lost, TRUE, t),
         NEW n \in NamesOf(i, t), n \notin owed,
         i # 0 /\ i \notin lost => s = "old_cpio" \/ Cardinality(NamesOf(i, t)) <= 1
  PROVE  FileOK(came \o <<Plain(n)>>, owed \cup {n}, cells, held, left, i, s, lost, TRUE, t)
<1> DEFINE e == Plain(n)
           v == came \o <<e>>
           m == Len(came)
           o == owed \cup {n}
<1>1. n \in Names /\ e \in Entry /\ e.name = n /\ e.hardlink = NoName /\ e.body
  BY DEF Plain, Entry, NamesOf, Link, NoName, Nil
<1>2. came \in Seq(Entry) /\ owed \subseteq NamesOf(i, t) /\ m = Len(came)
  BY DEF FileOK
<1> HIDE DEF e, m
<1>3. /\ v \in Seq(Entry) /\ Len(v) = m + 1 /\ \A k \in 1..m : v[k] = came[k]
      /\ v[m + 1] = e /\ m \in Nat /\ NameSet(v) = NameSet(came) \cup {n}
  BY <1>1, <1>2, Appended
<1>4. /\ Cardinality(o) = Cardinality(owed) + 1 /\ Cardinality(owed) \in Nat
      /\ Cardinality(NamesOf(i, t)) \in Nat /\ Cardinality(owed) + 1 <= Cardinality(NamesOf(i, t))
      /\ (Cardinality(owed) + 1 = Cardinality(NamesOf(i, t)) => o = NamesOf(i, t))
      /\ (owed = {} <=> Cardinality(owed) = 0)
  <2>1. Counts(owed, o, NamesOf(i, t))
    BY <1>2, OwedMore
  <2> QED
    BY <2>1 DEF Counts
<1>5. IsFiniteSet(held) /\ Cardinality(held) \in Nat
  <2>1. held \subseteq Names
    BY DEF FileOK, NamesOf
  <2> QED
    BY <2>1, NamesAssumption, FS_Subset, FS_CardinalityType
<1>6. m + Cardinality(held) <= Cardinality(owed)
  BY <1>2 DEF FileOK
<1>7. i # 0 => LinksRight(v, i, s, t)
  <2>1. LinkRight(came, Len(came) + 1, e.hardlink, i, s, t)
    BY <1>1 DEF LinkRight
  <2>2. i # 0 => LinksRight(came, i, s, t)
    BY DEF FileOK
  <2> QED
    BY <2>1, <2>2, <1>1, <1>2, LinksBack
<1> HIDE DEF v
<1>8. s \in {"tar", "mtree"} => \A c \in cells : \E j \in 1..Len(v) : v[j] = Plain(c)
  <2>1. \A j \in 1..m : j \in 1..Len(v)
    BY <1>3
  <2>2. s \in {"tar", "mtree"} => \A c \in cells : \E j \in 1..m : came[j] = Plain(c)
    BY <1>2 DEF FileOK
  <2> QED
    BY <2>1, <2>2, <1>3
<1>9. ASSUME i # 0, i \notin lost
      PROVE  /\ left = {t.nlink[c] - Cardinality(o) : c \in cells}
             /\ s # "old_cpio" => o = NamesOf(i, t)
             /\ s = "new_cpio" => \A k \in 1..Len(v) : v[k].body => o = NamesOf(i, t)
             /\ s \in {"tar", "new_cpio"} =>
                  \A j, k \in 1..Len(v) : v[j].body /\ v[k].body => j = k
  <2>0. left = {t.nlink[c] - Cardinality(owed) : c \in cells}
    BY <1>9 DEF FileOK
  <2>1. CASE s = "old_cpio"
    <3>1. cells = {}
      BY <2>1 DEF FileOK
    <3> QED
      BY <3>1, <2>0, <2>1
  <2>2. CASE s # "old_cpio"
    <3>0. Cardinality(NamesOf(i, t)) <= 1
      BY <2>2, <1>9
    <3>1. Cardinality(owed) = 0 /\ o = NamesOf(i, t) /\ m = 0
      BY <3>0, <1>3, <1>4, <1>5, <1>6
    <3>3. cells = {}
      BY <3>1, <1>4 DEF FileOK
    <3> QED
      BY <3>1, <3>3, <2>0, <1>3
  <2> QED
    BY <2>1, <2>2
<1>10. Len(v) + Cardinality(held) <= Cardinality(o)
  BY <1>3, <1>4, <1>5, <1>6
<1>11. o = held \cup NameSet(v) /\ o \subseteq NamesOf(i, t) /\ held \subseteq o /\ cells \subseteq o
  BY <1>3 DEF FileOK
<1>12. v[Len(v)].body
  BY <1>1, <1>3
<1>13. /\ i = 0 => cells = {}
       /\ \A c, d \in cells : c = d
       /\ \A c, d \in held : c = d
       /\ s = "new_cpio" => (cells = {} <=> held = {})
       /\ s # "new_cpio" => held = {}
       /\ s = "old_cpio" => cells = {}
  BY DEF FileOK
<1> HIDE DEF o
<1>14. FileOK(v, o, cells, held, left, i, s, lost, TRUE, t)
  BY <1>3, <1>7, <1>8, <1>9, <1>10, <1>11, <1>12, <1>13 DEF FileOK
<1> QED
  BY <1>14 DEF v, e, o, m

(* The numbers of links of a file that is tracked, when one more is given. *)
LEMMA LinksLess ==
  ASSUME NEW owed, NEW o, NEW all, Counts(owed, o, all), NEW links \in 0..(Word - 1),
         Cardinality(all) <= links
  PROVE  /\ (links - Cardinality(owed) - 1) % Word = links - Cardinality(o)
         /\ links - Cardinality(o) \in Nat
         /\ links - Cardinality(o) = 0 => o = all
<1>1. Word \in Nat \ {0}
  BY TableAssumption
<1> DEFINE x == links - Cardinality(owed) - 1
<1>2. x = links - Cardinality(o) /\ x \in 0..(Word - 1) /\ (x = 0 => o = all)
  BY <1>1 DEF Counts
<1> HIDE DEF x
<1>3. x % Word = x
  BY <1>1, <1>2
<1>4. /\ x % Word = links - Cardinality(o) /\ links - Cardinality(o) \in Nat
      /\ links - Cardinality(o) = 0 => o = all
  BY <1>1, <1>2, <1>3
<1> QED
  BY <1>4 DEF x

LEMMA HeldCount ==
  ASSUME NEW h
  PROVE  Cardinality({}) = 0 /\ Cardinality({h}) = 1
<1> QED
  BY FS_EmptySet, FS_Singleton

(* What is left of a cell when it may have been the last link of it.       *)
Kept(l, set) == IF l > 0 THEN set ELSE {}

(* A later link refers to the first.                                       *)
LEMMA FileRefers ==
  ASSUME NEW came, NEW owed, NEW cells, NEW held, NEW left, NEW i \in Nat, NEW s, NEW t,
         NEW lost, FileOK(came, owed, cells, held, left, i, s, lost, TRUE, t),
         NEW n \in NamesOf(i, t), n \notin owed, s \in {"tar", "mtree"},
         NEW c \in cells, NEW l, left = {l}, NEW l2, l2 = (l - 1) % Word,
         t.nlink[c] \in 0..(Word - 1), i \notin lost => Cardinality(NamesOf(i, t)) <= t.nlink[c],
         NEW e, e = [name |-> n, hardlink |-> c, body |-> s = "mtree"]
  PROVE  FileOK(came \o <<e>>, owed \cup {n}, Kept(l2, cells), held, Kept(l2, {l2}), i, s, lost,
                TRUE, t)
<1> DEFINE v == came \o <<e>>
           m == Len(came)
           o == owed \cup {n}
           cells2 == Kept(l2, cells)
           left2 == Kept(l2, {l2})
<1>0. s # "new_cpio" /\ s # "old_cpio" /\ c \in owed /\ c \in NamesOf(i, t) /\ cells = {c}
  BY DEF FileOK
<1>1. n \in Names /\ c \in Names /\ e \in Entry /\ e.name = n /\ e.hardlink = c
      /\ (s = "tar" => ~e.body)
  BY <1>0 DEF Entry, NamesOf, Link, Cells
<1>2. came \in Seq(Entry) /\ owed \subseteq NamesOf(i, t) /\ m = Len(came)
  BY DEF FileOK
<1> HIDE DEF m
<1>3. /\ v \in Seq(Entry) /\ Len(v) = m + 1 /\ \A k \in 1..m : v[k] = came[k]
      /\ v[m + 1] = e /\ m \in Nat /\ NameSet(v) = NameSet(came) \cup {n}
  BY <1>1, <1>2, Appended
<1>4. Counts(owed, o, NamesOf(i, t))
  BY <1>2, OwedMore
<1>5. held = {} /\ m + Cardinality(held) <= Cardinality(owed)
  BY <1>0, <1>2 DEF FileOK
<1>6. \E j \in 1..m : came[j] = Plain(c)
  BY <1>2 DEF FileOK
<1>7. i # 0 => LinksRight(v, i, s, t)
  <2>1. LinkRight(came, Len(came) + 1, e.hardlink, i, s, t)
    <3>1. (Len(came) + 1) - 1 = m
      BY <1>2, <1>3
    <3> QED
      BY <3>1, <1>0, <1>1, <1>6 DEF LinkRight
  <2>2. i # 0 => LinksRight(came, i, s, t)
    BY DEF FileOK
  <2> QED
    BY <2>1, <2>2, <1>1, <1>2, LinksBack
<1> HIDE DEF v
<1>8. \A d \in cells2 : \E j \in 1..Len(v) : v[j] = Plain(d)
  <2>1. \A j \in 1..m : j \in 1..Len(v)
    BY <1>3
  <2> QED
    BY <2>1, <1>0, <1>3, <1>6 DEF Kept
<1>9. ASSUME i # 0, i \notin lost
      PROVE  /\ left2 = {t.nlink[d] - Cardinality(o) : d \in cells2}
             /\ cells2 # {} \/ o = NamesOf(i, t)
             /\ s = "tar" => \A j, k \in 1..Len(v) : v[j].body /\ v[k].body => j = k
  <2>1. left = {t.nlink[d] - Cardinality(owed) : d \in cells}
    BY <1>9 DEF FileOK
  <2>2. l = t.nlink[c] - Cardinality(owed)
    BY <2>1, <1>0
  <2>3. l2 = t.nlink[c] - Cardinality(o) /\ l2 \in Nat /\ (l2 = 0 => o = NamesOf(i, t))
    <3> DEFINE nl == t.nlink[c]
               all == NamesOf(i, t)
    <3>1. nl \in 0..(Word - 1) /\ Cardinality(all) <= nl /\ Counts(owed, o, all)
          /\ l = nl - Cardinality(owed)
      BY <2>2, <1>4, <1>9
    <3> HIDE DEF nl, all, o
    <3>2. /\ (nl - Cardinality(owed) - 1) % Word = nl - Cardinality(o)
          /\ nl - Cardinality(o) \in Nat
          /\ nl - Cardinality(o) = 0 => o = all
      BY <3>1, LinksLess
    <3> QED
      BY <3>1, <3>2 DEF nl, all
  <2>4. s = "tar" => \A j, k \in 1..m : came[j].body /\ came[k].body => j = k
    BY <1>2, <1>9 DEF FileOK
  <2>5. s = "tar" => \A k \in 1..Len(v) : v[k].body => k \in 1..m
    BY <1>1, <1>3
  <2>6. s = "tar" => \A j, k \in 1..Len(v) : v[j].body /\ v[k].body => j = k
    BY <2>4, <2>5, <1>3
  <2> QED
    BY <2>3, <2>6, <1>0 DEF Kept
<1>10. Len(v) + Cardinality(held) <= Cardinality(o)
  <2>1. Cardinality(held) = 0
    BY <1>5, HeldCount
  <2> QED
    BY <2>1, <1>3, <1>4, <1>5 DEF Counts
<1>11. o = held \cup NameSet(v) /\ o \subseteq NamesOf(i, t) /\ held \subseteq o /\ cells2 \subseteq o
       /\ (i = 0 => cells2 = {}) /\ \A d1, d2 \in cells2 : d1 = d2
  BY <1>0, <1>3 DEF FileOK, Kept
<1> HIDE DEF o, cells2, left2
<1>14. FileOK(v, o, cells2, held, left2, i, s, lost, TRUE, t)
  BY <1>0, <1>3, <1>5, <1>7, <1>8, <1>9, <1>10, <1>11 DEF FileOK
<1> QED
  BY <1>14 DEF v, o, cells2, left2

(* Two entries given after others are given one by one.                    *)
Regroups(x, y, z) == (x \o y) \o z = x \o (y \o z)

LEMMA Regrouped ==
  ASSUME NEW E, NEW x \in Seq(E), NEW y \in Seq(E), NEW z \in Seq(E)
  PROVE  Regroups(x, y, z)
BY ConcatAssociative DEF Regroups

(* With cpio the entry that is held back comes out, the new one is held.   *)
LEMMA FileTakes ==
  ASSUME NEW came, NEW owed, NEW cells, NEW held, NEW left, NEW i \in Nat, NEW s, NEW t,
         NEW lost, FileOK(came, owed, cells, held, left, i, s, lost, TRUE, t),
         NEW n \in NamesOf(i, t), n \notin owed, s = "new_cpio", i # 0,
         NEW c \in cells, NEW h \in held, NEW l, left = {l}, NEW l2, l2 = (l - 1) % Word,
         t.nlink[c] \in 0..(Word - 1), i \notin lost => Cardinality(NamesOf(i, t)) <= t.nlink[c],
         NEW e, e = [name |-> h, hardlink |-> c, body |-> FALSE]
  PROVE  /\ l2 # 0 => FileOK(came \o <<e>>, owed \cup {n}, cells, {n}, {l2}, i, s, lost, TRUE, t)
         /\ l2 = 0 => FileOK(came \o <<e, Plain(n)>>, owed \cup {n}, {}, {}, {}, i, s, lost, TRUE, t)
<1> DEFINE v == came \o <<e>>
           m == Len(came)
           o == owed \cup {n}
           p == Plain(n)
           w == v \o <<p>>
<1>0. c \in owed /\ c \in NamesOf(i, t) /\ h \in owed /\ h \in NamesOf(i, t) /\ cells = {c} /\ held = {h}
  BY DEF FileOK
<1>1. n \in Names /\ c \in Names /\ e \in Entry /\ e.name = h /\ e.hardlink = c /\ ~e.body
      /\ p \in Entry /\ p.name = n /\ p.hardlink = NoName /\ p.body
  BY <1>0 DEF Entry, NamesOf, Link, Cells, Plain, NoName, Nil
<1>2. came \in Seq(Entry) /\ owed \subseteq NamesOf(i, t) /\ m = Len(came)
  BY DEF FileOK
<1> HIDE DEF m, p
<1>3. /\ v \in Seq(Entry) /\ Len(v) = m + 1 /\ \A k \in 1..m : v[k] = came[k]
      /\ v[m + 1] = e /\ m \in Nat /\ NameSet(v) = NameSet(came) \cup {h}
  <2> HIDE DEF v
  <2>1. v = came \o <<e>> /\ came \in Seq(Entry) /\ e \in Entry
    BY <1>1, <1>2 DEF v
  <2>2. /\ v \in Seq(Entry) /\ Len(v) = Len(came) + 1 /\ \A k \in 1..Len(came) : v[k] = came[k]
        /\ v[Len(came) + 1] = e /\ Len(came) \in Nat /\ NameSet(v) = NameSet(came) \cup {e.name}
    BY <2>1, Appended
  <2> QED
    BY <2>2, <1>1, <1>2
<1>4. Counts(owed, o, NamesOf(i, t))
  BY <1>2, OwedMore
<1>5. m + Cardinality(held) <= Cardinality(owed) /\ Cardinality(held) = 1
      /\ Cardinality({n}) = 1 /\ Cardinality({}) = 0
  <2>1. m + Cardinality(held) <= Cardinality(owed)
    BY <1>2 DEF FileOK
  <2> QED
    BY <2>1, <1>0, HeldCount
<1>6. LinksRight(v, i, s, t)
  <2>1. LinkRight(came, Len(came) + 1, e.hardlink, i, s, t)
    BY <1>0, <1>1 DEF LinkRight
  <2>2. LinksRight(came, i, s, t)
    BY DEF FileOK
  <2> QED
    BY <2>1, <2>2, <1>1, <1>2, LinksBack
<1>7. came \o <<e, p>> = w
  <2>1. <<e, p>> = <<e>> \o <<p>>
    <3> DEFINE x == <<e, p>>
               y == <<e>> \o <<p>>
    <3>1. x \in Seq(Entry) /\ Len(x) = 2 /\ x[1] = e /\ x[2] = p
      BY <1>1
    <3>2. <<e>> \in Seq(Entry) /\ <<p>> \in Seq(Entry) /\ Len(<<e>>) = 1 /\ Len(<<p>>) = 1
          /\ <<e>>[1] = e /\ <<p>>[1] = p
      BY <1>1
    <3>3. y \in Seq(Entry) /\ Len(y) = 2 /\ y[1] = e /\ y[2] = p
      BY <3>2, ConcatProperties
    <3> HIDE DEF x, y
    <3>6. \A k \in 1..Len(x) : k = 1 \/ k = 2
      BY <3>1
    <3>4. \A k \in 1..Len(x) : x[k] = y[k]
      BY <3>1, <3>3, <3>6, Zenon
    <3>5. x = y
      BY <3>1, <3>3, <3>4, SeqEqual
    <3> QED
      BY <3>5 DEF x, y
  <2>2. <<e>> \in Seq(Entry) /\ <<p>> \in Seq(Entry)
    BY <1>1
  <2>3. (came \o <<e>>) \o <<p>> = came \o (<<e>> \o <<p>>)
    <3> DEFINE x == <<e>>
               y == <<p>>
    <3>1. came \in Seq(Entry) /\ x \in Seq(Entry) /\ y \in Seq(Entry)
      BY <2>2, <1>2
    <3> HIDE DEF x, y
    <3>2. Regroups(came, x, y)
      BY <3>1, Regrouped, Zenon
    <3> QED
      BY <3>2, Zenon DEF Regroups, x, y
  <2> QED
    BY <2>1, <2>3, Zenon
<1> HIDE DEF v
<1>8. /\ w \in Seq(Entry) /\ Len(w) = m + 2 /\ \A k \in 1..(m + 1) : w[k] = v[k]
      /\ w[m + 2] = p /\ NameSet(w) = NameSet(v) \cup {n}
  <2>1. /\ w \in Seq(Entry) /\ Len(w) = Len(v) + 1 /\ \A k \in 1..Len(v) : w[k] = v[k]
        /\ w[Len(v) + 1] = p /\ NameSet(w) = NameSet(v) \cup {n}
    BY <1>1, <1>3, Appended
  <2>2. Len(v) + 1 = m + 2
    BY <1>3
  <2> QED
    BY <2>1, <2>2, <1>3
<1>9. LinksRight(w, i, s, t)
  <2>1. LinkRight(v, Len(v) + 1, p.hardlink, i, s, t)
    BY <1>1 DEF LinkRight
  <2> QED
    BY <2>1, <1>1, <1>3, <1>6, LinksBack
<1> HIDE DEF w
<1>10. ASSUME i \notin lost
       PROVE  /\ l2 = t.nlink[c] - Cardinality(o) /\ l2 \in Nat /\ (l2 = 0 => o = NamesOf(i, t))
              /\ \A k \in 1..m : ~came[k].body
  <2>1. left = {t.nlink[d] - Cardinality(owed) : d \in cells}
    BY <1>10 DEF FileOK
  <2>2. l = t.nlink[c] - Cardinality(owed)
    BY <2>1, <1>0
  <2>3. l2 = t.nlink[c] - Cardinality(o) /\ l2 \in Nat /\ (l2 = 0 => o = NamesOf(i, t))
    <3> DEFINE nl == t.nlink[c]
               all == NamesOf(i, t)
    <3>1. nl \in 0..(Word - 1) /\ Cardinality(all) <= nl /\ Counts(owed, o, all)
          /\ l = nl - Cardinality(owed)
      BY <2>2, <1>4, <1>10
    <3> HIDE DEF nl, all, o
    <3>2. /\ (nl - Cardinality(owed) - 1) % Word = nl - Cardinality(o)
          /\ nl - Cardinality(o) \in Nat
          /\ nl - Cardinality(o) = 0 => o = all
      BY <3>1, LinksLess
    <3> QED
      BY <3>1, <3>2 DEF nl, all
  <2>4. \A k \in 1..m : came[k].body => owed = NamesOf(i, t)
    BY <1>2, <1>10 DEF FileOK
  <2> QED
    BY <2>3, <2>4
<1>11. o = {n} \cup NameSet(v) /\ o = NameSet(w) /\ o \subseteq NamesOf(i, t) /\ {n} \subseteq o
       /\ cells \subseteq o
  <2>1. owed = held \cup NameSet(came)
    BY DEF FileOK
  <2> QED
    BY <2>1, <1>0, <1>2, <1>3, <1>8
<1>12. \A d1, d2 \in cells : d1 = d2
  BY <1>0
<1>13. Len(v) + Cardinality({n}) <= Cardinality(o) /\ Len(w) + Cardinality({}) <= Cardinality(o)
  BY <1>3, <1>4, <1>5, <1>8 DEF Counts
<1>14. \A k \in 1..Len(v) : i \notin lost => ~v[k].body
  BY <1>1, <1>3, <1>10
<1>15. \A k \in 1..Len(w) : i \notin lost /\ w[k].body => k = m + 2
  <2>1. \A k \in 1..Len(w) : k = m + 2 \/ k \in 1..Len(v)
    BY <1>3, <1>8
  <2> QED
    BY <2>1, <1>3, <1>8, <1>14
<1> HIDE DEF o
<1>16. ASSUME l2 # 0 PROVE FileOK(v, o, cells, {n}, {l2}, i, s, lost, TRUE, t)
  <2>1. i \notin lost => {l2} = {t.nlink[d] - Cardinality(o) : d \in cells}
    BY <1>0, <1>10
  <2>2. \A j, k \in 1..Len(v) : i \notin lost /\ v[j].body /\ v[k].body => j = k
    BY <1>14
  <2> QED
    BY <2>1, <2>2, <1>0, <1>3, <1>6, <1>11, <1>12, <1>13, <1>14 DEF FileOK
<1>17. ASSUME l2 = 0 PROVE FileOK(w, o, {}, {}, {}, i, s, lost, TRUE, t)
  <2>1. w[Len(w)].body
    BY <1>1, <1>8
  <2>2. \A j, k \in 1..Len(w) : i \notin lost /\ w[j].body /\ w[k].body => j = k
    BY <1>15
  <2>3. i \notin lost => o = NamesOf(i, t)
    BY <1>10, <1>17
  <2>4. {t.nlink[d] - Cardinality(o) : d \in {}} = {}
    OBVIOUS
  <2> QED
    BY <2>1, <2>2, <2>3, <2>4, <1>8, <1>9, <1>11, <1>13 DEF FileOK
<1> QED
  BY <1>7, <1>16, <1>17 DEF v, w, o, p

(* The first of a file is remembered: with cpio it is held back.           *)
LEMMA FileRemembers ==
  ASSUME NEW came, NEW owed, NEW held, NEW left, NEW i \in Nat, NEW s, NEW t, NEW lost,
         FileOK(came, owed, {}, held, left, i, s, lost, TRUE, t),
         NEW n \in NamesOf(i, t), n \notin owed, s # "old_cpio", i # 0,
         NEW l, l = (t.nlink[n] - 1) % Word,
         t.nlink[n] \in 0..(Word - 1), i \notin lost => Cardinality(NamesOf(i, t)) <= t.nlink[n]
  PROVE  /\ s = "new_cpio" => FileOK(came, owed \cup {n}, {n}, {n}, {l}, i, s, lost, TRUE, t)
         /\ s # "new_cpio" =>
              FileOK(came \o <<Plain(n)>>, owed \cup {n}, {n}, held, {l}, i, s, lost, TRUE, t)
<1> DEFINE m == Len(came)
           o == owed \cup {n}
           e == Plain(n)
           v == came \o <<e>>
<1>0. held = {}
  BY DEF FileOK
<1>1. n \in Names /\ e \in Entry /\ e.name = n /\ e.hardlink = NoName /\ e.body
  BY DEF Plain, Entry, NamesOf, Link, NoName, Nil
<1>2. came \in Seq(Entry) /\ owed \subseteq NamesOf(i, t) /\ m = Len(came) /\ m \in Nat
  BY DEF FileOK
<1> HIDE DEF e, m
<1>3. /\ v \in Seq(Entry) /\ Len(v) = m + 1 /\ \A k \in 1..m : v[k] = came[k]
      /\ v[m + 1] = e /\ m \in Nat /\ NameSet(v) = NameSet(came) \cup {n}
  BY <1>1, <1>2, Appended
<1>4. Counts(owed, o, NamesOf(i, t))
  BY <1>2, OwedMore
<1>5. m <= Cardinality(owed) /\ Cardinality({n}) = 1 /\ Cardinality({}) = 0
  <2>1. m + Cardinality(held) <= Cardinality(owed)
    BY <1>2 DEF FileOK
  <2>2. Cardinality({}) = 0 /\ Cardinality({n}) = 1
    BY HeldCount
  <2>3. m + 0 <= Cardinality(owed)
    BY <2>1, <2>2, <1>0
  <2> QED
    BY <2>2, <2>3, <1>2
<1>6. LinksRight(came, i, s, t)
  BY DEF FileOK
<1>7. LinksRight(v, i, s, t)
  <2>1. LinkRight(came, Len(came) + 1, e.hardlink, i, s, t)
    BY <1>1 DEF LinkRight
  <2> QED
    BY <2>1, <1>1, <1>2, <1>6, LinksBack
<1> HIDE DEF v
<1>8. ASSUME i \notin lost
      PROVE  m = 0 /\ Cardinality(o) = 1 /\ l = t.nlink[n] - Cardinality(o)
  <2>1. owed = {}
    <3>1. owed # {} => owed = NamesOf(i, t)
      BY <1>8 DEF FileOK
    <3> QED
      BY <3>1
  <2>2. Cardinality(owed) = 0 /\ Cardinality(o) = 1 /\ m = 0
    BY <2>1, <1>2, <1>4, <1>5 DEF Counts
  <2> DEFINE nl == t.nlink[n]
             all == NamesOf(i, t)
  <2>3. nl \in 0..(Word - 1) /\ Cardinality(all) <= nl /\ Counts(owed, o, all)
        /\ l = (nl - 1) % Word
    BY <1>4, <1>8
  <2> HIDE DEF nl, all, o
  <2>4. (nl - Cardinality(owed) - 1) % Word = nl - Cardinality(o)
    BY <2>3, LinksLess
  <2>5. nl - Cardinality(owed) - 1 = nl - 1
    BY <2>2, <2>3, TableAssumption
  <2> QED
    BY <2>2, <2>3, <2>4, <2>5 DEF nl
<1>9. o = {n} \cup NameSet(came) /\ o = held \cup NameSet(v) /\ o \subseteq NamesOf(i, t) /\ {n} \subseteq o
  <2>1. owed = held \cup NameSet(came)
    BY DEF FileOK
  <2> QED
    BY <2>1, <1>0, <1>2, <1>3
<1>10. Len(came) + Cardinality({n}) <= Cardinality(o) /\ Len(v) + Cardinality(held) <= Cardinality(o)
  BY <1>0, <1>2, <1>3, <1>4, <1>5 DEF Counts
<1>11. i \notin lost => {l} = {t.nlink[d] - Cardinality(o) : d \in {n}}
  BY <1>8
<1> HIDE DEF o
<1>12. ASSUME s = "new_cpio" PROVE FileOK(came, o, {n}, {n}, {l}, i, s, lost, TRUE, t)
  <2>1. i \notin lost => Len(came) = 0
    BY <1>2, <1>8
  <2> QED
    BY <2>1, <1>2, <1>6, <1>9, <1>10, <1>11, <1>12 DEF FileOK
<1>13. ASSUME s # "new_cpio" PROVE FileOK(v, o, {n}, held, {l}, i, s, lost, TRUE, t)
  <2>1. \E j \in 1..Len(v) : v[j] = Plain(n)
    <3>1. m + 1 \in 1..Len(v) /\ v[m + 1] = Plain(n)
      BY <1>3 DEF e
    <3> QED
      BY <3>1
  <2>2. i \notin lost => \A j, k \in 1..Len(v) : j = k
    BY <1>3, <1>8
  <2> QED
    BY <2>1, <2>2, <1>0, <1>3, <1>7, <1>9, <1>10, <1>11, <1>13 DEF FileOK
<1> QED
  BY <1>12, <1>13 DEF v, e, o

(* The entry held back comes out, the file is not tracked any longer.      *)
LEMMA FileDrained ==
  ASSUME NEW came, NEW owed, NEW cells, NEW held, NEW left, NEW i \in Nat, NEW s, NEW t,
         NEW lost, FileOK(came, owed, cells, held, left, i, s, lost, TRUE, t),
         NEW h \in held, NEW lost2, lost \subseteq lost2, i \in lost2
  PROVE  FileOK(came \o <<Plain(h)>>, owed, {}, {}, {}, i, s, lost2, TRUE, t)
<1> DEFINE m == Len(came)
           e == Plain(h)
           v == came \o <<e>>
<1>0. held = {h} /\ h \in owed /\ s = "new_cpio" /\ h \in Names
  BY DEF FileOK, NamesOf
<1>1. e \in Entry /\ e.name = h /\ e.hardlink = NoName /\ e.body
  BY <1>0 DEF Plain, Entry, Link, NoName, Nil
<1>2. came \in Seq(Entry) /\ owed \subseteq NamesOf(i, t) /\ m = Len(came) /\ m \in Nat
  BY DEF FileOK
<1> HIDE DEF e, m
<1>3. /\ v \in Seq(Entry) /\ Len(v) = m + 1 /\ \A k \in 1..m : v[k] = came[k]
      /\ v[m + 1] = e /\ m \in Nat /\ NameSet(v) = NameSet(came) \cup {h}
  BY <1>1, <1>2, Appended
<1>4. i # 0 => LinksRight(v, i, s, t)
  <2>1. LinkRight(came, Len(came) + 1, e.hardlink, i, s, t)
    BY <1>1 DEF LinkRight
  <2>2. i # 0 => LinksRight(came, i, s, t)
    BY DEF FileOK
  <2> QED
    BY <2>1, <2>2, <1>1, <1>2, LinksBack
<1> HIDE DEF v
<1>5. Len(v) + Cardinality({}) <= Cardinality(owed)
  <2>1. m + Cardinality(held) <= Cardinality(owed)
    BY <1>2 DEF FileOK
  <2>2. Cardinality({}) = 0 /\ Cardinality({h}) = 1
    BY HeldCount
  <2>3. m + 1 <= Cardinality(owed)
    BY <2>1, <2>2, <1>0
  <2>4. Len(v) + 0 <= Cardinality(owed)
    BY <2>3, <1>3
  <2> QED
    BY <2>2, <2>4
<1>6. owed = NameSet(v)
  <2>1. owed = held \cup NameSet(came)
    BY DEF FileOK
  <2> QED
    BY <2>1, <1>0, <1>3
<1>7. v[Len(v)].body
  BY <1>1, <1>3
<1>8. FileOK(v, owed, {}, {}, {}, i, s, lost2, TRUE, t)
  BY <1>0, <1>2, <1>3, <1>4, <1>5, <1>6, <1>7 DEF FileOK
<1> QED
  BY <1>8 DEF v, e

(* A cell without an entry is taken out.                                   *)
LEMMA FileDropped ==
  ASSUME NEW came, NEW owed, NEW cells, NEW held, NEW left, NEW i \in Nat, NEW s, NEW t,
         NEW lost, FileOK(came, owed, cells, held, left, i, s, lost, TRUE, t),
         s # "new_cpio", NEW lost2, i \in lost2
  PROVE  FileOK(came, owed, {}, held, {}, i, s, lost2, TRUE, t)
<1> QED
  BY DEF FileOK

-----------------------------------------------------------------------------
(* Every file is in order.                                                 *)

CellsOf(r, i, t) == {c \in InTable(r) : t.inode[c] = i}
HeldOf(r, i, t) == {r.cell[c].entry : c \in CellsOf(r, i, t)} \ {NoName}
LeftOf(r, i, t) == {r.cell[c].links : c \in CellsOf(r, i, t)}
GivenOf(g, i, t) == {n \in g : t.inode[n] = i}

(* The files that are not tracked.                                         *)
LostOf(x, t) ==
  x \cup {i \in Nat : \E n \in NamesOf(i, t) : t.nlink[n] < Cardinality(NamesOf(i, t))}

FileInv(r, o, g, x, s, t, i) ==
  FileOK(o[i], GivenOf(g, i, t), CellsOf(r, i, t), HeldOf(r, i, t), LeftOf(r, i, t),
         i, s, LostOf(x, t), r.alive, t)

(* Only a cell of the table holds an entry back, one of its file.          *)
Shape(r, t) ==
  \A c \in Cells : r.cell[c].entry # NoName =>
    c \in InTable(r) /\ r.cell[c].entry \in Names /\ t.inode[r.cell[c].entry] = t.inode[c]

LinksInv ==
  /\ TableInv
  /\ DOMAIN out = {Inode[n] : n \in Names}
  /\ Shape(res, stat)
  /\ \A i \in DOMAIN out : FileInv(res, out, given, inexact, strategy, stat, i)

LEMMA LinksInvInit ==
  ASSUME Init
  PROVE  LinksInv
<1>1. TableInv /\ InTable(res) = {} /\ res.alive /\ \A c \in Cells : res.cell[c] = Unused
  BY TableInit
<1>2. DOMAIN out = {Inode[n] : n \in Names} /\ (\A i \in DOMAIN out : out[i] = <<>>) /\ given = {}
      /\ res.alive = TRUE
  BY DEF Init
<1>3. Shape(res, stat)
  BY <1>1 DEF Shape, Unused
<1>4. ASSUME NEW i \in DOMAIN out PROVE FileInv(res, out, given, inexact, strategy, stat, i)
  <2>1. CellsOf(res, i, stat) = {} /\ HeldOf(res, i, stat) = {} /\ LeftOf(res, i, stat) = {}
        /\ GivenOf(given, i, stat) = {}
    BY <1>1, <1>2 DEF CellsOf, HeldOf, LeftOf, GivenOf
  <2>2. out[i] \in Seq(Entry) /\ Len(out[i]) = 0
    BY <1>2, EmptySeq, Zenon
  <2>3. Cardinality({}) = 0
    BY FS_EmptySet
  <2>4. \A s, lost : FileOK(out[i], {}, {}, {}, {}, i, s, lost, TRUE, stat)
    BY <2>2, <2>3 DEF FileOK, LinksRight, NameSet
  <2> QED
    BY <2>1, <2>4, <1>2 DEF FileInv
<1> QED
  BY <1>1, <1>2, <1>3, <1>4 DEF LinksInv

(* A step that is about one file.                                          *)
LEMMA OneFile ==
  ASSUME LinksInv, TableInv', UNCHANGED <<strategy, stat>>, NEW i, DOMAIN out' = DOMAIN out,
         \A j \in DOMAIN out : j # i =>
           /\ out'[j] = out[j] /\ GivenOf(given', j, stat) = GivenOf(given, j, stat)
           /\ CellsOf(res', j, stat) = CellsOf(res, j, stat)
           /\ \A c \in CellsOf(res, j, stat) : /\ res'.cell[c].entry = res.cell[c].entry
                                               /\ res'.cell[c].links = res.cell[c].links,
         inexact \subseteq inexact', res'.alive = res.alive, Shape(res', stat),
         FileInv(res', out', given', inexact', strategy, stat, i)
  PROVE  LinksInv'
<1>1. ASSUME NEW j \in DOMAIN out, j # i
      PROVE  FileInv(res', out', given', inexact', strategy, stat, j)
  <2>1. FileInv(res, out, given, inexact, strategy, stat, j)
    BY DEF LinksInv
  <2>2. /\ CellsOf(res', j, stat) = CellsOf(res, j, stat)
        /\ HeldOf(res', j, stat) = HeldOf(res, j, stat)
        /\ LeftOf(res', j, stat) = LeftOf(res, j, stat)
    BY <1>1 DEF HeldOf, LeftOf
  <2>3. LostOf(inexact, stat) \subseteq LostOf(inexact', stat)
    BY DEF LostOf
  <2>4. FileOK(out[j], GivenOf(given, j, stat), CellsOf(res, j, stat), HeldOf(res, j, stat),
               LeftOf(res, j, stat), j, strategy, LostOf(inexact, stat), res.alive, stat)
    BY <2>1 DEF FileInv
  <2>5. j \in Nat
    BY StatsAssumption DEF LinksInv, TableInv, Inode
  <2>6. FileOK(out[j], GivenOf(given, j, stat), CellsOf(res, j, stat), HeldOf(res, j, stat),
               LeftOf(res, j, stat), j, strategy, LostOf(inexact', stat), res.alive, stat)
    BY <2>3, <2>4, <2>5, FileLess
  <2> QED
    BY <2>2, <2>6, <1>1 DEF FileInv
<1>2. \A j \in DOMAIN out : FileInv(res', out', given', inexact', strategy, stat, j)
  BY <1>1
<1>3. DOMAIN out' = {stat'.inode[n] : n \in Names} /\ Shape(res', stat')
      /\ \A j \in DOMAIN out' : FileInv(res', out', given', inexact', strategy', stat', j)
  BY <1>2 DEF LinksInv, Inode
<1> QED
  BY <1>3 DEF LinksInv, Inode

LEMMA HeldIs ==
  ASSUME LinksInv, NEW i
  PROVE  Of(i, Held) = HeldOf(res, i, stat)
<1>1. InTable(res) \subseteq Cells
  BY InTableCells DEF LinksInv, TableInv
<1>2. \A c \in Cells : res.cell[c].entry # NoName =>
        c \in InTable(res) /\ stat.inode[res.cell[c].entry] = stat.inode[c]
  BY DEF LinksInv, Shape
<1>3. HeldOf(res, i, stat) \subseteq Of(i, Held)
  BY <1>1, <1>2 DEF HeldOf, CellsOf, Of, Held, Inode
<1>4. Of(i, Held) \subseteq HeldOf(res, i, stat)
  BY <1>2 DEF HeldOf, CellsOf, Of, Held, Inode
<1> QED
  BY <1>3, <1>4

LEMMA LinksResolvedHolds ==
  ASSUME LinksInv
  PROVE  LinksResolved
<1> SUFFICES ASSUME NEW i \in DOMAIN out
             PROVE  LET came == out[i]   held == Of(i, Held)   owed == Of(i, given) IN
      /\ res.alive => owed = held \cup CameBack(i)
      /\ Len(came) + Cardinality(held) <= Cardinality(owed)
      /\ i # 0 => \A k \in DOMAIN came :
           came[k].hardlink # NoName =>
             /\ Inode[came[k].hardlink] = i
             /\ strategy # "new_cpio" => \E j \in 1..(k - 1) : came[j] = Plain(came[k].hardlink)
      /\ strategy = "new_cpio" /\ came # <<>> /\ res.alive => Last(came).body \/ held # {}
      /\ i # 0 /\ strategy \in {"tar", "new_cpio"} /\ Tracked(i) =>
           \A j, k \in DOMAIN came : came[j].body /\ came[k].body => j = k
      /\ \A c \in InTable(res) :
           Inode[res.cell[c].canonical] = i /\ Tracked(i) =>
             res.cell[c].links = (Nlink[c] - Cardinality(owed)) % Word
  BY Zenon DEF LinksResolved
<1> DEFINE came == out[i]
           held == HeldOf(res, i, stat)
           owed == GivenOf(given, i, stat)
           cells == CellsOf(res, i, stat)
           left == LeftOf(res, i, stat)
           lost == LostOf(inexact, stat)
           all == NamesOf(i, stat)
<1>1. Of(i, Held) = held /\ Of(i, given) = owed
  BY HeldIs DEF Of, GivenOf, Inode
<1>2. FileOK(came, owed, cells, held, left, i, strategy, lost, res.alive, stat)
  BY DEF LinksInv, FileInv
<1>3. i \in Nat
  BY StatsAssumption DEF LinksInv, TableInv, Inode
<1>4. Tracked(i) => i \notin lost /\ \A n \in all : Cardinality(all) <= Nlink[n]
  <2>1. Of(i, Names) = all
    BY DEF Of, NamesOf, Inode
  <2>2. \A n \in all : Nlink[n] \in Nat /\ Cardinality(all) \in Nat
    <3>1. all \subseteq Names
      BY DEF NamesOf
    <3>2. Cardinality(all) \in Nat
      BY <3>1, NamesAssumption, FS_Subset, FS_CardinalityType
    <3>3. \A n \in Names : Nlink[n] \in 0..(Word - 1)
      BY StatsAssumption DEF LinksInv, TableInv, Nlink
    <3> QED
      BY <3>1, <3>2, <3>3, TableAssumption
  <2> HIDE DEF all
  <2>3. Tracked(i) => i \notin inexact /\ \A n \in all : Nlink[n] >= Cardinality(all)
    BY <2>1 DEF Tracked
  <2>4. ASSUME Tracked(i), NEW n \in all PROVE ~(Nlink[n] < Cardinality(all)) /\ Cardinality(all) <= Nlink[n]
    BY <2>2, <2>3, <2>4
  <2> QED
    BY <2>3, <2>4 DEF LostOf, all, Nlink
<1> HIDE DEF came, held, owed, cells, left, lost, all
<1>5. came \in Seq(Entry)
  BY <1>2 DEF FileOK
<1>6. DOMAIN came = 1..Len(came) /\ (came # <<>> => Len(came) # 0) /\ Last(came) = came[Len(came)]
  BY <1>5, EmptySeq DEF Last
<1>7. CameBack(i) = NameSet(came)
  BY <1>6 DEF CameBack, NameSet, came
<1>8. i # 0 => \A k \in DOMAIN came :
        came[k].hardlink # NoName =>
          /\ Inode[came[k].hardlink] = i
          /\ strategy # "new_cpio" => \E j \in 1..(k - 1) : came[j] = Plain(came[k].hardlink)
  BY <1>2, <1>6 DEF FileOK, LinksRight, LinkRight, NamesOf, Inode
<1>9. ASSUME NEW c \in InTable(res), Inode[res.cell[c].canonical] = i, Tracked(i)
      PROVE  res.cell[c].links = (Nlink[c] - Cardinality(owed)) % Word
  <2>1. res.cell[c].canonical = c /\ Inode[c] # 0 /\ c \in Names
    BY InTableCells DEF LinksInv, TableInv, Sound, Cells
  <2>2. c \in cells /\ i # 0 /\ c \in all
    BY <2>1, <1>9 DEF cells, CellsOf, Inode, all, NamesOf
  <2>3. left = {Nlink[d] - Cardinality(owed) : d \in cells} /\ cells = {c} /\ owed \subseteq all
    BY <2>2, <1>2, <1>4, <1>9 DEF FileOK, Nlink, all
  <2>4. res.cell[c].links \in left
    BY <2>2 DEF left, LeftOf, cells
  <2>5. res.cell[c].links = Nlink[c] - Cardinality(owed)
    BY <2>3, <2>4
  <2>6. Cardinality(all) \in Nat /\ Cardinality(owed) \in Nat /\ Cardinality(owed) <= Cardinality(all)
    <3>1. all \subseteq Names
      BY DEF all, NamesOf
    <3> QED
      BY <3>1, <2>3, NamesAssumption, FS_Subset, FS_CardinalityType
  <2>7. Nlink[c] \in 0..(Word - 1) /\ Cardinality(all) <= Nlink[c]
    BY <2>1, <2>2, <1>4, <1>9, StatsAssumption DEF LinksInv, TableInv, Nlink
  <2> DEFINE x == Nlink[c] - Cardinality(owed)
  <2>8. x \in 0..(Word - 1) /\ Word \in Nat \ {0}
    BY <2>6, <2>7, TableAssumption
  <2> HIDE DEF x
  <2>9. x % Word = x
    BY <2>8
  <2> QED
    BY <2>5, <2>9 DEF x
<1>10. /\ res.alive => owed = held \cup NameSet(came)
       /\ Len(came) + Cardinality(held) <= Cardinality(owed)
       /\ strategy = "new_cpio" /\ came # <<>> /\ res.alive => Last(came).body \/ held # {}
       /\ i # 0 /\ strategy \in {"tar", "new_cpio"} /\ Tracked(i) =>
            \A j, k \in DOMAIN came : came[j].body /\ came[k].body => j = k
  BY <1>2, <1>4, <1>6 DEF FileOK
<1> QED
  BY <1>1, <1>7, <1>8, <1>9, <1>10 DEF came

(* What is known of a new entry n of file i.                               *)
NewOf(n, i) ==
  /\ i = Inode[n] /\ i \in Nat /\ i \in DOMAIN out /\ n \in NamesOf(i, stat)
  /\ n \notin GivenOf(given, i, stat)
  /\ GivenOf(given \cup {n}, i, stat) = GivenOf(given, i, stat) \cup {n}
  /\ \A j : j # i => GivenOf(given \cup {n}, j, stat) = GivenOf(given, j, stat)

LEMMA NewOfIs ==
  ASSUME LinksInv, NEW n \in Names, n \notin given
  PROVE  NewOf(n, Inode[n])
<1>1. Inode[n] \in Nat /\ Inode[n] \in DOMAIN out
  BY StatsAssumption DEF LinksInv, TableInv, Inode
<1> QED
  BY <1>1 DEF NewOf, NamesOf, GivenOf, Inode

LEMMA TrackedLinks ==
  ASSUME LinksInv, NEW i \in Nat, NEW x, i \notin LostOf(x, stat), NEW c \in NamesOf(i, stat)
  PROVE  Cardinality(NamesOf(i, stat)) <= stat.nlink[c]
<1>1. NamesOf(i, stat) \subseteq Names
  BY DEF NamesOf
<1>2. Cardinality(NamesOf(i, stat)) \in Nat
  BY <1>1, NamesAssumption, FS_Subset, FS_CardinalityType
<1>3. stat.nlink[c] \in 0..(Word - 1) /\ Word \in Nat
  BY <1>1, StatsAssumption, TableAssumption DEF LinksInv, TableInv
<1>4. ~(stat.nlink[c] < Cardinality(NamesOf(i, stat)))
  BY DEF LostOf
<1> QED
  BY <1>2, <1>3, <1>4

LEMMA LinkNumber ==
  ASSUME LinksInv, NEW n \in Names
  PROVE  stat.nlink[n] \in 0..(Word - 1)
<1> QED
  BY StatsAssumption DEF LinksInv, TableInv

(* The entries come out of the file of the first.                          *)
Emitted(entries, i) ==
  /\ DOMAIN out' = DOMAIN out /\ out'[i] = out[i] \o entries
  /\ \A j \in DOMAIN out : j # i => out'[j] = out[j]

LEMMA EmitIs ==
  ASSUME NEW i \in DOMAIN out, NEW entries, Inode[entries[1].name] = i, Emit(entries)
  PROVE  Emitted(entries, i)
<1>1. out' = [out EXCEPT ![i] = out[i] \o entries]
  BY DEF Emit
<1> QED
  BY <1>1 DEF Emitted

LEMMA PassesThroughKeeps ==
  ASSUME LinksInv, NEW n \in Names, PassesThrough(n)
  PROVE  LinksInv'
<1> DEFINE i == Inode[n]
<1>1. /\ res.alive /\ n \notin given /\ given' = given \cup {n} /\ res' = res
      /\ UNCHANGED <<strategy, stat>> /\ inexact' = inexact /\ Emit(<<Plain(n)>>)
      /\ Nlink[n] = 1 \/ strategy = "old_cpio"
  BY DEF PassesThrough, Given
<1>2. NewOf(n, i)
  BY <1>1, NewOfIs
<1>3. Emitted(<<Plain(n)>>, i)
  <2>1. <<Plain(n)>>[1].name = n
    BY DEF Plain
  <2> QED
    BY <2>1, <1>1, <1>2, EmitIs DEF NewOf
<1> HIDE DEF i
<1>4. TableInv'
  <2>1. Sound(res, given \cup {n}, stat.inode)
    BY GivenMore DEF LinksInv, TableInv, Inode
  <2> QED
    BY <2>1, <1>1 DEF LinksInv, TableInv, Inode
<1>5. i # 0 /\ i \notin LostOf(inexact, stat) =>
        strategy = "old_cpio" \/ Cardinality(NamesOf(i, stat)) <= 1
  <2>1. i \notin LostOf(inexact, stat) => Cardinality(NamesOf(i, stat)) <= Nlink[n]
    BY <1>2, TrackedLinks DEF NewOf, Nlink
  <2> QED
    BY <2>1, <1>1
<1>6. FileInv(res', out', given', inexact', strategy, stat, i)
  <2>1. FileOK(out[i], GivenOf(given, i, stat), CellsOf(res, i, stat), HeldOf(res, i, stat),
               LeftOf(res, i, stat), i, strategy, LostOf(inexact, stat), TRUE, stat)
    <3>1. res.alive = TRUE
      BY <1>1 DEF LinksInv, TableInv, Sound, ResolverType
    <3> QED
      BY <3>1, <1>2 DEF LinksInv, FileInv, NewOf
  <2>2. FileOK(out[i] \o <<Plain(n)>>, GivenOf(given, i, stat) \cup {n}, CellsOf(res, i, stat),
               HeldOf(res, i, stat), LeftOf(res, i, stat), i, strategy, LostOf(inexact, stat),
               TRUE, stat)
    BY <2>1, <1>2, <1>5, FilePlain DEF NewOf
  <2>3. res.alive = TRUE
    BY <1>1 DEF LinksInv, TableInv, Sound, ResolverType
  <2> QED
    BY <2>2, <2>3, <1>1, <1>2, <1>3 DEF FileInv, NewOf, Emitted
<1>7. \A j \in DOMAIN out : j # i =>
        /\ out'[j] = out[j] /\ GivenOf(given', j, stat) = GivenOf(given, j, stat)
        /\ CellsOf(res', j, stat) = CellsOf(res, j, stat)
        /\ \A c \in CellsOf(res, j, stat) : /\ res'.cell[c].entry = res.cell[c].entry
                                            /\ res'.cell[c].links = res.cell[c].links
  BY <1>1, <1>2, <1>3 DEF NewOf, Emitted
<1>8. Shape(res', stat)
  BY <1>1 DEF LinksInv
<1> QED
  BY <1>1, <1>3, <1>4, <1>6, <1>7, <1>8, OneFile DEF Emitted

LEMMA ShapeIs ==
  ASSUME NEW G, NEW t, NEW x, Sound(x, G, t.inode),
         \A d \in InTable(x) : x.cell[d].entry # NoName =>
           x.cell[d].entry \in Names /\ t.inode[x.cell[d].entry] = t.inode[d],
         x.spare # Nil => x.cell[x.spare].entry = NoName
  PROVE  Shape(x, t)
<1>1. \A d \in Cells : d \notin InTable(x) /\ d # x.spare => x.cell[d] = Unused
  BY DEF Sound
<1>2. ASSUME NEW d \in Cells, x.cell[d].entry # NoName, d \notin InTable(x) PROVE FALSE
  <2>1. d # Nil
    BY NamesAssumption DEF Cells, Nil
  <2> QED
    BY <2>1, <1>1, <1>2 DEF Unused
<1> QED
  BY <1>2 DEF Shape

(* A search that finds a cell: what it does to the cells of each file.     *)
FoundCell(f, c, l, l2, i) ==
  /\ i # 0 /\ f.c = c /\ c \in InTable(res) /\ c \in NamesOf(i, stat) /\ l2 = (l - 1) % Word
  /\ l2 \in Nat /\ l = res.cell[c].links
  /\ f.r.cell[c].canonical = c /\ f.r.cell[c].entry = res.cell[c].entry /\ f.r.cell[c].links = l2
  /\ f.r.alive = res.alive /\ f.r.spare = IF l2 > 0 THEN Nil ELSE c
  /\ Sound(f.r, given, stat.inode)
  /\ CellsOf(res, i, stat) = {c} /\ LeftOf(res, i, stat) = {l}
  /\ CellsOf(f.r, i, stat) = (IF l2 > 0 THEN {c} ELSE {})
  /\ \A j : j # i => CellsOf(f.r, j, stat) = CellsOf(res, j, stat)
  /\ \A d \in InTable(res) : d # c => /\ f.r.cell[d].entry = res.cell[d].entry
                                      /\ f.r.cell[d].links = res.cell[d].links
  /\ InTable(f.r) = (IF l2 > 0 THEN InTable(res) ELSE InTable(res) \ {c})

LEMMA FoundCellIs ==
  ASSUME LinksInv, NEW n \in Names, NEW f, f = Find(res, n), f.c # Nil
  PROVE  FoundCell(f, f.c, res.cell[f.c].links, (res.cell[f.c].links - 1) % Word, Inode[n])
<1> DEFINE c == f.c
           l == res.cell[c].links
           l2 == (l - 1) % Word
           i == Inode[n]
<1>1. Inode[n] # 0
  <2>1. Inode[n] = 0 => Find(res, n) = [r |-> res, c |-> Nil]
    BY Zenon DEF Find
  <2> QED
    BY <2>1
<1>2. Sound(res, given, Inode) /\ stat \in Stats
  BY DEF LinksInv, TableInv
<1>3. Found(f, res, n, given)
  BY <1>1, <1>2, FindSound
<1>4. /\ Sound(f.r, given, Inode) /\ f.r.alive = res.alive
      /\ c \in InTable(res) /\ Inode[c] = Inode[n]
      /\ InTable(f.r) = (IF l2 > 0 THEN InTable(res) ELSE InTable(res) \ {c})
      /\ f.r.spare = IF l2 > 0 THEN Nil ELSE c
      /\ f.r.cell[c].links = l2 /\ f.r.cell[c].canonical = c
      /\ f.r.cell[c].entry = res.cell[c].entry
      /\ \A e \in InTable(res) \ {c} : Keeps(f.r, res, e)
  BY <1>3 DEF Found
<1>5. c \in Cells /\ res.cell[c] \in CellType
  <2>1. c \in Cells
    BY <1>2, <1>4, InTableCells
  <2>2. res.cell \in [Cells -> CellType]
    BY <1>2 DEF Sound, ResolverType
  <2> QED
    BY <2>1, <2>2
<1>6. l2 \in Nat
  <2>1. l \in Int /\ Word \in Nat \ {0}
    BY <1>5, TableAssumption DEF CellType
  <2> HIDE DEF l
  <2> QED
    BY <2>1
<1> HIDE DEF l2, l, c
<1>7. CellsOf(res, i, stat) = {c} /\ LeftOf(res, i, stat) = {l}
  <2>1. CellsOf(res, i, stat) = {c}
    BY <1>2, <1>4 DEF Sound, CellsOf, Inode
  <2> QED
    BY <2>1 DEF LeftOf, l
<1>8. CellsOf(f.r, i, stat) = (IF l2 > 0 THEN {c} ELSE {})
  BY <1>4, <1>7 DEF CellsOf
<1>9. \A j : j # i => CellsOf(f.r, j, stat) = CellsOf(res, j, stat)
  BY <1>4 DEF CellsOf, Inode
<1>10. c \in NamesOf(i, stat)
  BY <1>4, <1>5 DEF NamesOf, Inode, Cells
<1>11. l2 = (l - 1) % Word /\ l = res.cell[c].links /\ c = f.c /\ i # 0
  BY <1>1 DEF l2, l, c
<1>12. Sound(f.r, given, stat.inode)
  BY <1>4 DEF Inode
<1>13. \A d \in InTable(res) : d # c => /\ f.r.cell[d].entry = res.cell[d].entry
                                        /\ f.r.cell[d].links = res.cell[d].links
  BY <1>4 DEF Keeps
<1> HIDE DEF i
<1>14. FoundCell(f, c, l, l2, i)
  BY <1>4, <1>6, <1>7, <1>8, <1>9, <1>10, <1>11, <1>12, <1>13 DEF FoundCell
<1> QED
  BY <1>14 DEF c, l, l2, i

(* The entries held back for a file, when it is in order.                  *)
LEMMA NoneHeld ==
  ASSUME LinksInv, NEW c \in InTable(res), strategy # "new_cpio"
  PROVE  res.cell[c].entry = NoName
<1>1. c \in Names
  BY InTableCells DEF LinksInv, TableInv, Cells
<1>2. HeldOf(res, Inode[c], stat) = {}
  BY <1>1 DEF LinksInv, FileInv, FileOK
<1> QED
  BY <1>2 DEF HeldOf, CellsOf, Inode

LEMMA FileOf ==
  ASSUME LinksInv, res.alive, NEW i \in DOMAIN out
  PROVE  /\ res.alive = TRUE
         /\ FileOK(out[i], GivenOf(given, i, stat), CellsOf(res, i, stat), HeldOf(res, i, stat),
                   LeftOf(res, i, stat), i, strategy, LostOf(inexact, stat), TRUE, stat)
<1>1. res.alive = TRUE
  BY DEF LinksInv, TableInv, Sound, ResolverType
<1> QED
  BY <1>1 DEF LinksInv, FileInv

LEMMA RefersBackKeeps ==
  ASSUME LinksInv, NEW n \in Names, RefersBack(n)
  PROVE  LinksInv'
<1> DEFINE i == Inode[n]
           f == Find(res, n)
           c == f.c
           l == res.cell[c].links
           l2 == (l - 1) % Word
           e == LinkTo(n, f.r.cell[c].canonical)
<1>1. /\ res.alive /\ n \notin given /\ given' = given \cup {n} /\ strategy \in {"tar", "mtree"}
      /\ UNCHANGED <<strategy, stat>> /\ inexact' = inexact
      /\ c # Nil /\ res' = f.r /\ Emit(<<e>>)
  BY DEF RefersBack, Resolved, Given
<1>2. NewOf(n, i)
  BY <1>1, NewOfIs
<1>3. FoundCell(f, c, l, l2, i)
  BY <1>1, FoundCellIs
<1>4. e = [name |-> n, hardlink |-> c, body |-> strategy = "mtree"]
  BY <1>3 DEF LinkTo, FoundCell
<1>5. Emitted(<<e>>, i)
  <2>1. <<e>>[1].name = n
    BY <1>4
  <2> HIDE DEF e
  <2> QED
    BY <2>1, <1>1, <1>2, EmitIs DEF NewOf
<1> HIDE DEF i, f, c, l, l2, e
<1>6. TableInv'
  <2>1. Sound(f.r, given, stat.inode) /\ f.r.alive = res.alive
    BY <1>3 DEF FoundCell
  <2>2. Sound(f.r, given \cup {n}, stat.inode)
    BY <2>1, GivenMore
  <2> QED
    BY <2>1, <2>2, <1>1 DEF LinksInv, TableInv, Inode
<1>7. Shape(res', stat)
  <2>1. \A d \in InTable(f.r) : f.r.cell[d].entry = NoName
    BY <1>1, <1>3, NoneHeld DEF FoundCell
  <2>2. f.r.spare # Nil => f.r.cell[f.r.spare].entry = NoName
    BY <1>1, <1>3, NoneHeld DEF FoundCell
  <2>3. Sound(f.r, given, stat.inode)
    BY <1>3 DEF FoundCell
  <2> QED
    BY <2>1, <2>2, <2>3, <1>1, ShapeIs
<1>8. \A j \in DOMAIN out : j # i =>
        /\ out'[j] = out[j] /\ GivenOf(given', j, stat) = GivenOf(given, j, stat)
        /\ CellsOf(res', j, stat) = CellsOf(res, j, stat)
        /\ \A d \in CellsOf(res, j, stat) : /\ res'.cell[d].entry = res.cell[d].entry
                                            /\ res'.cell[d].links = res.cell[d].links
  <2>1. \A j : j # i => \A d \in CellsOf(res, j, stat) : d \in InTable(res) /\ d # c
    BY <1>3 DEF FoundCell, CellsOf, NamesOf
  <2>2. \A j \in DOMAIN out : j # i =>
          out'[j] = out[j] /\ GivenOf(given', j, stat) = GivenOf(given, j, stat)
    BY <1>1, <1>2, <1>5 DEF NewOf, Emitted
  <2>3. \A j : j # i => CellsOf(res', j, stat) = CellsOf(res, j, stat)
    BY <1>1, <1>3 DEF FoundCell
  <2>4. \A d \in InTable(res) : d # c => /\ res'.cell[d].entry = res.cell[d].entry
                                         /\ res'.cell[d].links = res.cell[d].links
    BY <1>1, <1>3 DEF FoundCell
  <2> QED
    BY <2>1, <2>2, <2>3, <2>4
<1>9. FileInv(res', out', given', inexact', strategy, stat, i)
  <2> DEFINE came == out[i]
             owed == GivenOf(given, i, stat)
             cells == CellsOf(res, i, stat)
             held == HeldOf(res, i, stat)
             left == LeftOf(res, i, stat)
             lost == LostOf(inexact, stat)
  <2>1. FileOK(came, owed, cells, held, left, i, strategy, lost, TRUE, stat) /\ res.alive = TRUE
    BY <1>1, <1>2, FileOf DEF NewOf
  <2>2. held = {}
    BY <2>1, <1>1 DEF FileOK
  <2>3. CellsOf(res', i, stat) = (IF l2 > 0 THEN cells ELSE {})
    BY <1>1, <1>3 DEF FoundCell
  <2>4. LeftOf(res', i, stat) = (IF l2 > 0 THEN {l2} ELSE {})
    BY <2>3, <1>1, <1>3 DEF FoundCell, LeftOf
  <2>5. HeldOf(res', i, stat) = held
    <3>1. \A d \in CellsOf(res', i, stat) : res'.cell[d].entry = NoName
      <4>1. \A d \in CellsOf(res', i, stat) : d = c
        BY <1>1, <1>3 DEF FoundCell
      <4>2. res'.cell[c].entry = NoName
        BY <1>1, <1>3, NoneHeld DEF FoundCell
      <4> QED
        BY <4>1, <4>2
    <3> QED
      BY <3>1, <2>2 DEF HeldOf
  <2>6. out'[i] = came \o <<e>> /\ GivenOf(given', i, stat) = owed \cup {n} /\ res'.alive = TRUE
        /\ LostOf(inexact', stat) = lost
    BY <2>1, <1>1, <1>2, <1>3, <1>5 DEF NewOf, FoundCell, Emitted
  <2>7. /\ i \in Nat /\ n \in NamesOf(i, stat) /\ n \notin owed /\ c \in cells /\ left = {l}
        /\ l2 = (l - 1) % Word /\ c \in NamesOf(i, stat)
    BY <1>2, <1>3 DEF NewOf, FoundCell
  <2>8. stat.nlink[c] \in 0..(Word - 1)
        /\ (i \notin lost => Cardinality(NamesOf(i, stat)) <= stat.nlink[c])
    BY <2>7, TrackedLinks, LinkNumber DEF NamesOf
  <2> HIDE DEF came, owed, cells, held, left, lost
  <2>9. FileOK(came \o <<e>>, owed \cup {n}, Kept(l2, cells), held, Kept(l2, {l2}), i,
               strategy, lost, TRUE, stat)
    BY <2>1, <2>7, <2>8, <1>1, <1>4, FileRefers, Zenon
  <2> QED
    BY <2>3, <2>4, <2>5, <2>6, <2>9 DEF FileInv, Kept
<1> QED
  <2>1. DOMAIN out' = DOMAIN out /\ res'.alive = res.alive
    BY <1>1, <1>3, <1>5 DEF FoundCell, Emitted
  <2> QED
    BY <2>1, <1>1, <1>6, <1>7, <1>8, <1>9, OneFile

LEMMA TakesPlaceKeeps ==
  ASSUME LinksInv, NEW n \in Names, TakesPlace(n)
  PROVE  LinksInv'
<1> DEFINE i == Inode[n]
           f == Find(res, n)
           c == f.c
           l == res.cell[c].links
           l2 == (l - 1) % Word
           h == res.cell[c].entry
           e == [name |-> h, hardlink |-> c, body |-> FALSE]
           new == IF l2 = 0 THEN NoName ELSE n
           entries == IF l2 = 0 THEN <<e, Plain(n)>> ELSE <<e>>
           x == [f.r EXCEPT !.cell[c].entry = new]
<1>1. /\ res.alive /\ n \notin given /\ given' = given \cup {n} /\ strategy = "new_cpio"
      /\ UNCHANGED <<strategy, stat>> /\ inexact' = inexact /\ c # Nil
      /\ Emit(Swaps(f.r.cell[c], n))
      /\ res' = [f.r EXCEPT !.cell[c].entry = IF f.r.cell[c].links = 0 THEN NoName ELSE n]
  BY DEF TakesPlace, Resolved, Given
<1>2. NewOf(n, i)
  BY <1>1, NewOfIs
<1>3. FoundCell(f, c, l, l2, i)
  BY <1>1, FoundCellIs
<1>4. Swaps(f.r.cell[c], n) = entries /\ res' = x
  <2>1. f.r.cell[c].links = l2 /\ f.r.cell[c].entry = h /\ f.r.cell[c].canonical = c
    BY <1>3 DEF FoundCell
  <2>2. LinkTo(h, c) = e
    BY <1>1 DEF LinkTo
  <2> QED
    BY <2>1, <2>2, <1>1 DEF Swaps
<1>5. FileOK(out[i], GivenOf(given, i, stat), CellsOf(res, i, stat), HeldOf(res, i, stat),
             LeftOf(res, i, stat), i, strategy, LostOf(inexact, stat), TRUE, stat)
      /\ res.alive = TRUE
  BY <1>1, <1>2, FileOf DEF NewOf
<1>6. h \in HeldOf(res, i, stat) /\ HeldOf(res, i, stat) = {h} /\ h \in NamesOf(i, stat)
  <2>1. HeldOf(res, i, stat) # {} /\ HeldOf(res, i, stat) \subseteq NamesOf(i, stat)
    BY <1>1, <1>3, <1>5 DEF FileOK, FoundCell
  <2>2. HeldOf(res, i, stat) \subseteq {h}
    BY <1>3 DEF FoundCell, HeldOf
  <2> QED
    BY <2>1, <2>2
<1>7. Emitted(entries, i)
  <2>1. entries[1].name = h
    OBVIOUS
  <2>2. Inode[h] = i
    BY <1>6 DEF NamesOf, Inode
  <2> HIDE DEF entries, h, i
  <2> QED
    BY <2>1, <2>2, <1>1, <1>2, <1>4, EmitIs DEF NewOf
<1> HIDE DEF i, f, c, l, l2, h, e, entries
<1>8. EntrySet(x, f.r, c, new, given)
  <2>1. Sound(f.r, given, Inode) /\ (c \in InTable(f.r) \/ c = f.r.spare)
    BY <1>3 DEF FoundCell, Inode
  <2>2. c \in Cells /\ new \in Link
    BY <1>3 DEF FoundCell, NamesOf, Cells, Link, NoName, Nil
  <2> HIDE DEF new
  <2> QED
    BY <2>1, <2>2, EntrySetSound
<1> HIDE DEF x
<1>9. /\ Sound(x, given, stat.inode) /\ x.spare = f.r.spare /\ x.alive = f.r.alive
      /\ InTable(x) = InTable(f.r)
      /\ \A d \in Cells : d # c => x.cell[d] = f.r.cell[d]
      /\ x.cell[c].entry = new /\ x.cell[c].links = l2
  BY <1>3, <1>8 DEF EntrySet, Inode, FoundCell
<1>10. TableInv'
  <2>1. Sound(x, given \cup {n}, stat.inode)
    BY <1>9, GivenMore
  <2>2. x.alive = res.alive
    BY <1>3, <1>9 DEF FoundCell
  <2> QED
    BY <2>1, <2>2, <1>1, <1>4 DEF LinksInv, TableInv, Inode
<1>11. InTable(res) \subseteq Cells /\ InTable(f.r) \subseteq InTable(res)
  BY <1>3, InTableCells DEF LinksInv, TableInv, FoundCell
<1>12. \A d \in InTable(res) : d # c => /\ x.cell[d].entry = res.cell[d].entry
                                        /\ x.cell[d].links = res.cell[d].links
  BY <1>3, <1>9, <1>11 DEF FoundCell
<1>13. Shape(res', stat)
  <2>1. ASSUME NEW d \in InTable(x), x.cell[d].entry # NoName
        PROVE  x.cell[d].entry \in Names /\ stat.inode[x.cell[d].entry] = stat.inode[d]
    <3>1. CASE d = c
      BY <3>1, <2>1, <1>2, <1>3, <1>9 DEF NewOf, FoundCell, NamesOf
    <3>2. CASE d # c
      <4>1. d \in InTable(res) /\ d \in Cells /\ x.cell[d].entry = res.cell[d].entry
        BY <3>2, <1>9, <1>11, <1>12
      <4> QED
        BY <4>1, <2>1 DEF LinksInv, Shape
    <3> QED
      BY <3>1, <3>2
  <2>2. x.spare # Nil => x.cell[x.spare].entry = NoName
    <3>1. x.spare # Nil => x.spare = c /\ ~(l2 > 0) /\ l2 \in Nat
      BY <1>3, <1>9 DEF FoundCell
    <3> QED
      BY <3>1, <1>9
  <2> QED
    BY <2>1, <2>2, <1>4, <1>9, ShapeIs
<1>14. \A j \in DOMAIN out : j # i =>
        /\ out'[j] = out[j] /\ GivenOf(given', j, stat) = GivenOf(given, j, stat)
        /\ CellsOf(res', j, stat) = CellsOf(res, j, stat)
        /\ \A d \in CellsOf(res, j, stat) : /\ res'.cell[d].entry = res.cell[d].entry
                                            /\ res'.cell[d].links = res.cell[d].links
  <2>1. \A j : j # i => \A d \in CellsOf(res, j, stat) : d \in InTable(res) /\ d # c
    BY <1>3 DEF FoundCell, CellsOf, NamesOf
  <2>2. \A j \in DOMAIN out : j # i =>
          out'[j] = out[j] /\ GivenOf(given', j, stat) = GivenOf(given, j, stat)
    BY <1>1, <1>2, <1>7 DEF NewOf, Emitted
  <2>3. \A j : j # i => CellsOf(x, j, stat) = CellsOf(res, j, stat)
    <3>1. \A j : CellsOf(x, j, stat) = CellsOf(f.r, j, stat)
      BY <1>9 DEF CellsOf
    <3> QED
      BY <3>1, <1>3 DEF FoundCell
  <2> QED
    BY <2>1, <2>2, <2>3, <1>4, <1>12
<1>15. FileInv(res', out', given', inexact', strategy, stat, i)
  <2> DEFINE came == out[i]
             owed == GivenOf(given, i, stat)
             cells == CellsOf(res, i, stat)
             held == HeldOf(res, i, stat)
             left == LeftOf(res, i, stat)
             lost == LostOf(inexact, stat)
  <2>1. FileOK(came, owed, cells, held, left, i, strategy, lost, TRUE, stat)
    BY <1>5
  <2>2. CellsOf(x, i, stat) = (IF l2 > 0 THEN {c} ELSE {}) /\ cells = {c}
    BY <1>3, <1>9 DEF FoundCell, CellsOf
  <2>3. /\ LeftOf(x, i, stat) = (IF l2 > 0 THEN {l2} ELSE {})
        /\ HeldOf(x, i, stat) = (IF l2 > 0 THEN {new} \ {NoName} ELSE {})
    BY <2>2, <1>9 DEF LeftOf, HeldOf
  <2>4. out'[i] = came \o entries /\ GivenOf(given', i, stat) = owed \cup {n} /\ x.alive = TRUE
        /\ LostOf(inexact', stat) = lost
    BY <1>1, <1>2, <1>3, <1>5, <1>7, <1>9 DEF NewOf, FoundCell, Emitted
  <2>5. /\ i \in Nat /\ i # 0 /\ n \in NamesOf(i, stat) /\ n \notin owed /\ c \in cells /\ left = {l}
        /\ l2 = (l - 1) % Word /\ c \in NamesOf(i, stat) /\ l2 \in Nat /\ h \in held
    BY <1>2, <1>3, <1>6 DEF NewOf, FoundCell
  <2>6. stat.nlink[c] \in 0..(Word - 1)
        /\ (i \notin lost => Cardinality(NamesOf(i, stat)) <= stat.nlink[c])
    BY <2>5, TrackedLinks, LinkNumber DEF NamesOf
  <2> HIDE DEF came, owed, cells, held, left, lost
  <2>7. e = [name |-> h, hardlink |-> c, body |-> FALSE]
    BY DEF e
  <2>8. /\ l2 # 0 => FileOK(came \o <<e>>, owed \cup {n}, cells, {n}, {l2}, i, strategy, lost, TRUE, stat)
        /\ l2 = 0 => FileOK(came \o <<e, Plain(n)>>, owed \cup {n}, {}, {}, {}, i, strategy, lost, TRUE, stat)
    BY <2>1, <2>5, <2>6, <2>7, <1>1, FileTakes, Zenon
  <2>9. CASE l2 = 0
    <3>1. CellsOf(x, i, stat) = {} /\ LeftOf(x, i, stat) = {} /\ HeldOf(x, i, stat) = {}
      BY <2>2, <2>3, <2>9
    <3>2. entries = <<e, Plain(n)>>
      BY <2>9 DEF entries
    <3> QED
      BY <3>1, <3>2, <2>4, <2>8, <2>9, <1>4 DEF FileInv
  <2>10. CASE l2 # 0
    <3>1. l2 > 0 /\ new = n /\ n # NoName
      BY <2>5, <2>10, NamesAssumption DEF NamesOf, NoName
    <3>2. CellsOf(x, i, stat) = cells /\ LeftOf(x, i, stat) = {l2} /\ HeldOf(x, i, stat) = {n}
      BY <3>1, <2>2, <2>3
    <3>3. entries = <<e>>
      BY <2>10 DEF entries
    <3> QED
      BY <3>2, <3>3, <2>4, <2>8, <2>10, <1>4 DEF FileInv
  <2> QED
    BY <2>9, <2>10
<1> QED
  <2>1. DOMAIN out' = DOMAIN out /\ res'.alive = res.alive
    BY <1>3, <1>4, <1>7, <1>9 DEF FoundCell, Emitted
  <2> QED
    BY <2>1, <1>1, <1>10, <1>13, <1>14, <1>15, OneFile

(* The table is the same, but for the links of its chains.                 *)
Quiet(x) ==
  /\ Sound(x, given, stat.inode) /\ x.alive = res.alive /\ InTable(x) = InTable(res)
  /\ \A c \in InTable(res) : x.cell[c] = res.cell[c]
  /\ Shape(x, stat)

LEMMA QuietFreed ==
  ASSUME LinksInv, NEW x, Freed(x, res, given, Inode)
  PROVE  Quiet(x)
<1>1. /\ Sound(x, given, stat.inode) /\ x.alive = res.alive /\ InTable(x) = InTable(res)
      /\ \A c \in InTable(res) : x.cell[c] = res.cell[c] /\ x.spare = Nil
  BY DEF Freed, Inode
<1>2. InTable(res) \subseteq Cells
  BY InTableCells DEF LinksInv, TableInv
<1>3. \A d \in InTable(x) : x.cell[d].entry # NoName =>
        x.cell[d].entry \in Names /\ stat.inode[x.cell[d].entry] = stat.inode[d]
  BY <1>1, <1>2 DEF LinksInv, Shape
<1>4. x.spare = Nil
  BY DEF Freed
<1>5. Shape(x, stat)
  BY <1>1, <1>3, <1>4, ShapeIs
<1> QED
  BY <1>1, <1>5 DEF Quiet

LEMMA QuietFiles ==
  ASSUME NEW x, Quiet(x), NEW i
  PROVE  /\ CellsOf(x, i, stat) = CellsOf(res, i, stat)
         /\ HeldOf(x, i, stat) = HeldOf(res, i, stat)
         /\ LeftOf(x, i, stat) = LeftOf(res, i, stat)
         /\ \A d \in CellsOf(res, i, stat) : x.cell[d] = res.cell[d]
<1>1. CellsOf(x, i, stat) = CellsOf(res, i, stat)
      /\ \A d \in CellsOf(res, i, stat) : x.cell[d] = res.cell[d]
  BY DEF Quiet, CellsOf
<1> QED
  BY <1>1 DEF HeldOf, LeftOf

LEMMA FoundNone ==
  ASSUME LinksInv, NEW n \in Names, NEW f, f = Find(res, n), f.c = Nil
  PROVE  /\ Quiet(f.r)
         /\ Inode[n] # 0 => f.r.spare = Nil /\ \A c \in InTable(res) : Inode[c] # Inode[n]
<1>1. CASE Inode[n] = 0
  <2>1. Find(res, n) = [r |-> res, c |-> Nil]
    BY <1>1, Zenon DEF Find
  <2>2. f.r = res
    BY <2>1
  <2> QED
    BY <1>1, <2>2 DEF Quiet, LinksInv, TableInv, Inode
<1>2. CASE Inode[n] # 0
  <2>1. Sound(res, given, Inode) /\ stat \in Stats
    BY DEF LinksInv, TableInv
  <2>2. Found(f, res, n, given)
    BY <1>2, <2>1, FindSound
  <2>3. f.c \notin InTable(res)
    BY <2>1, InTableCells
  <2>4. Freed(f.r, res, given, Inode) /\ \A c \in InTable(res) : Inode[c] # Inode[n]
    BY <2>2, <2>3 DEF Found
  <2> QED
    BY <2>4, QuietFreed DEF Freed
<1> QED
  BY <1>1, <1>2

LEMMA NotRememberedKeeps ==
  ASSUME LinksInv, NEW n \in Names, NotRemembered(n)
  PROVE  LinksInv'
<1> DEFINE i == Inode[n]
           f == Find(res, n)
           e == Plain(n)
<1>1. /\ res.alive /\ n \notin given /\ given' = given \cup {n}
      /\ UNCHANGED <<strategy, stat>> /\ inexact' = inexact \cup {i}
      /\ f.c = Nil /\ res' = f.r /\ Emit(<<e>>)
  BY DEF NotRemembered, Resolved, Given
<1>2. NewOf(n, i)
  BY <1>1, NewOfIs
<1>3. Quiet(f.r)
  BY <1>1, FoundNone
<1>4. Emitted(<<e>>, i)
  <2>1. <<e>>[1].name = n
    BY DEF Plain
  <2> HIDE DEF e
  <2> QED
    BY <2>1, <1>1, <1>2, EmitIs DEF NewOf
<1> HIDE DEF i, f
<1>5. TableInv'
  <2>1. Sound(f.r, given, stat.inode) /\ f.r.alive = res.alive
    BY <1>3 DEF Quiet
  <2>2. Sound(f.r, given \cup {n}, stat.inode)
    BY <2>1, GivenMore
  <2> QED
    BY <2>1, <2>2, <1>1 DEF LinksInv, TableInv, Inode
<1>6. \A j \in DOMAIN out : j # i =>
        /\ out'[j] = out[j] /\ GivenOf(given', j, stat) = GivenOf(given, j, stat)
        /\ CellsOf(res', j, stat) = CellsOf(res, j, stat)
        /\ \A d \in CellsOf(res, j, stat) : /\ res'.cell[d].entry = res.cell[d].entry
                                            /\ res'.cell[d].links = res.cell[d].links
  <2>1. \A j : CellsOf(f.r, j, stat) = CellsOf(res, j, stat)
               /\ \A d \in CellsOf(res, j, stat) : f.r.cell[d] = res.cell[d]
    BY <1>3, QuietFiles
  <2>2. \A j \in DOMAIN out : j # i =>
          out'[j] = out[j] /\ GivenOf(given', j, stat) = GivenOf(given, j, stat)
    BY <1>1, <1>2, <1>4 DEF NewOf, Emitted
  <2> QED
    BY <2>1, <2>2, <1>1
<1>7. FileInv(res', out', given', inexact', strategy, stat, i)
  <2> DEFINE came == out[i]
             owed == GivenOf(given, i, stat)
             cells == CellsOf(res, i, stat)
             held == HeldOf(res, i, stat)
             left == LeftOf(res, i, stat)
             lost == LostOf(inexact, stat)
             lost2 == LostOf(inexact', stat)
  <2>1. FileOK(came, owed, cells, held, left, i, strategy, lost, TRUE, stat) /\ res.alive = TRUE
    BY <1>1, <1>2, FileOf DEF NewOf
  <2>2. lost \subseteq lost2 /\ i \in lost2
    BY <1>1 DEF LostOf
  <2>3. i \in Nat /\ n \in NamesOf(i, stat) /\ n \notin owed
    BY <1>2 DEF NewOf
  <2>4. CellsOf(res', i, stat) = cells /\ HeldOf(res', i, stat) = held /\ LeftOf(res', i, stat) = left
    BY <1>1, <1>3, QuietFiles
  <2>5. out'[i] = came \o <<e>> /\ GivenOf(given', i, stat) = owed \cup {n} /\ res'.alive = TRUE
    BY <2>1, <1>1, <1>2, <1>3, <1>4 DEF NewOf, Quiet, Emitted
  <2> HIDE DEF came, owed, cells, held, left, lost, lost2
  <2>6. FileOK(came, owed, cells, held, left, i, strategy, lost2, TRUE, stat)
    BY <2>1, <2>2, <2>3, FileLess
  <2>7. FileOK(came \o <<e>>, owed \cup {n}, cells, held, left, i, strategy, lost2, TRUE, stat)
    BY <2>2, <2>3, <2>6, FilePlain
  <2> HIDE DEF e
  <2> QED
    BY <2>4, <2>5, <2>7 DEF FileInv, lost2
<1> QED
  <2>1. DOMAIN out' = DOMAIN out /\ res'.alive = res.alive /\ Shape(res', stat)
        /\ inexact \subseteq inexact'
    BY <1>1, <1>3, <1>4 DEF Quiet, Emitted
  <2> QED
    BY <2>1, <1>1, <1>5, <1>6, <1>7, OneFile

LEMMA RememberedKeeps ==
  ASSUME LinksInv, NEW n \in Names, Remembered(n)
  PROVE  LinksInv'
<1> DEFINE i == Inode[n]
           f == Find(res, n)
           e == Plain(n)
           l == (stat.nlink[n] - 1) % Word
<1>1. /\ res.alive /\ n \notin given /\ given' = given \cup {n} /\ strategy # "old_cpio"
      /\ UNCHANGED <<strategy, stat>> /\ inexact' = inexact /\ f.c = Nil /\ i # 0
  BY DEF Remembered, Resolved, Given
<1>2. PICK grows \in {TRUE, ~Full(f.r)} :
        LET x == Insert(f.r, n, grows) IN
        IF strategy = "new_cpio" THEN res' = [x EXCEPT !.cell[n].entry = n] /\ UNCHANGED out
        ELSE res' = x /\ Emit(<<e>>)
  BY Zenon DEF Remembered
<1>3. NewOf(n, i)
  BY <1>1, NewOfIs
<1>4. Quiet(f.r) /\ f.r.spare = Nil /\ \A c \in InTable(res) : Inode[c] # Inode[n]
  BY <1>1, FoundNone
<1> DEFINE x == Insert(f.r, n, grows)
<1>5. Inserted(x, f.r, n, given)
  <2>1. Sound(f.r, given, Inode) /\ InTable(f.r) = InTable(res)
    BY <1>4 DEF Quiet, Inode
  <2>2. stat \in Stats /\ grows \in BOOLEAN
    BY DEF LinksInv, TableInv, Full
  <2> QED
    BY <2>1, <2>2, <1>1, <1>4, InsertSound
<1>6. IF strategy = "new_cpio" THEN res' = [x EXCEPT !.cell[n].entry = n] /\ UNCHANGED out
      ELSE res' = x /\ Emit(<<e>>)
  BY <1>2
<1>7. i = stat.inode[n] /\ l = (Nlink[n] - 1) % Word
  BY DEF Inode, Nlink
<1> HIDE DEF x, f, i, l, e
<1>8. InTable(f.r) = InTable(res) /\ f.r.alive = res.alive /\ InTable(res) \subseteq Cells
      /\ n \in Cells /\ n # NoName
  BY <1>4, InTableCells, NamesAssumption DEF Quiet, LinksInv, TableInv, Cells, NoName
<1> DEFINE y == IF strategy = "new_cpio" THEN [x EXCEPT !.cell[n].entry = n] ELSE x
<1>9. res' = y
  BY <1>6
<1>10. /\ Sound(x, given \cup {n}, stat.inode) /\ x.spare = Nil /\ x.alive = res.alive
       /\ InTable(x) = InTable(res) \cup {n}
       /\ \A d \in InTable(res) : /\ x.cell[d].entry = res.cell[d].entry
                                  /\ x.cell[d].links = res.cell[d].links
       /\ x.cell[n].entry = NoName /\ x.cell[n].links = l
  <2>1. \A d \in InTable(res) : Keeps(x, f.r, d) /\ f.r.cell[d] = res.cell[d]
    BY <1>4, <1>5, <1>8 DEF Inserted, Quiet
  <2> QED
    BY <2>1, <1>5, <1>7, <1>8 DEF Inserted, Inode, Keeps
<1>11. n \notin InTable(res)
  BY <1>4
<1>12. /\ Sound(y, given \cup {n}, stat.inode) /\ y.spare = Nil /\ y.alive = res.alive
       /\ InTable(y) = InTable(res) \cup {n}
       /\ \A d \in InTable(res) : /\ y.cell[d].entry = res.cell[d].entry
                                  /\ y.cell[d].links = res.cell[d].links
       /\ y.cell[n].entry = (IF strategy = "new_cpio" THEN n ELSE NoName)
       /\ y.cell[n].links = l
  <2>1. CASE strategy = "new_cpio"
    <3> DEFINE z == [x EXCEPT !.cell[n].entry = n]
    <3>1. EntrySet(z, x, n, n, given \cup {n})
      <4>1. Sound(x, given \cup {n}, Inode) /\ n \in InTable(x) /\ n \in Link
        BY <1>8, <1>10 DEF Inode, Link
      <4> QED
        BY <4>1, <1>8, EntrySetSound
    <3> HIDE DEF z
    <3>2. /\ Sound(z, given \cup {n}, stat.inode) /\ z.spare = x.spare /\ z.alive = x.alive
          /\ InTable(z) = InTable(x) /\ \A d \in Cells : d # n => z.cell[d] = x.cell[d]
          /\ z.cell[n].entry = n /\ z.cell[n].links = x.cell[n].links
      BY <3>1 DEF EntrySet, Inode
    <3>3. y = z
      BY <2>1 DEF z
    <3> HIDE DEF y
    <3>4. \A d \in InTable(res) : z.cell[d] = x.cell[d]
      BY <3>2, <1>8, <1>11
    <3> QED
      BY <3>2, <3>3, <3>4, <2>1, <1>10
  <2>2. CASE strategy # "new_cpio"
    BY <2>2, <1>10
  <2> QED
    BY <2>1, <2>2
<1> HIDE DEF y
<1>13. TableInv'
  BY <1>1, <1>9, <1>12 DEF LinksInv, TableInv, Inode
<1>14. Shape(y, stat)
  <2>1. \A d \in InTable(y) : y.cell[d].entry # NoName =>
          y.cell[d].entry \in Names /\ stat.inode[y.cell[d].entry] = stat.inode[d]
    BY <1>8, <1>12 DEF LinksInv, Shape
  <2> QED
    BY <2>1, <1>12, ShapeIs
<1>15. DOMAIN out' = DOMAIN out /\ (\A j \in DOMAIN out : j # i => out'[j] = out[j])
       /\ out'[i] = IF strategy = "new_cpio" THEN out[i] ELSE out[i] \o <<e>>
  <2>1. <<e>>[1].name = n /\ Inode[n] = i
    BY DEF Plain, e, i
  <2>2. Emit(<<e>>) => Emitted(<<e>>, i)
    BY <2>1, <1>3, EmitIs DEF NewOf
  <2> QED
    BY <2>2, <1>6 DEF Emitted
<1>16. /\ CellsOf(res, i, stat) = {} /\ CellsOf(y, i, stat) = {n}
       /\ \A j : j # i => CellsOf(y, j, stat) = CellsOf(res, j, stat)
  BY <1>4, <1>7, <1>12 DEF CellsOf, Inode
<1>17. \A j \in DOMAIN out : j # i =>
        /\ out'[j] = out[j] /\ GivenOf(given', j, stat) = GivenOf(given, j, stat)
        /\ CellsOf(res', j, stat) = CellsOf(res, j, stat)
        /\ \A d \in CellsOf(res, j, stat) : /\ res'.cell[d].entry = res.cell[d].entry
                                            /\ res'.cell[d].links = res.cell[d].links
  <2>1. \A j : CellsOf(res, j, stat) \subseteq InTable(res)
    BY DEF CellsOf
  <2>2. \A j : j # i => GivenOf(given', j, stat) = GivenOf(given, j, stat)
    BY <1>1, <1>3 DEF NewOf
  <2>3. \A j : j # i => \A d \in CellsOf(res, j, stat) :
          y.cell[d].entry = res.cell[d].entry /\ y.cell[d].links = res.cell[d].links
    BY <2>1, <1>12
  <2> QED
    BY <2>2, <2>3, <1>9, <1>15, <1>16
<1>18. FileInv(res', out', given', inexact', strategy, stat, i)
  <2> DEFINE came == out[i]
             owed == GivenOf(given, i, stat)
             held == HeldOf(res, i, stat)
             left == LeftOf(res, i, stat)
             lost == LostOf(inexact, stat)
  <2>1. FileOK(came, owed, {}, held, left, i, strategy, lost, TRUE, stat) /\ res.alive = TRUE
    BY <1>1, <1>3, <1>16, FileOf DEF NewOf
  <2>2. held = {}
    BY <1>16 DEF HeldOf
  <2>3. LeftOf(y, i, stat) = {l} /\ HeldOf(y, i, stat) = (IF strategy = "new_cpio" THEN {n} ELSE {})
    BY <1>8, <1>12, <1>16 DEF LeftOf, HeldOf
  <2>4. GivenOf(given', i, stat) = owed \cup {n} /\ y.alive = TRUE /\ LostOf(inexact', stat) = lost
    BY <2>1, <1>1, <1>3, <1>12 DEF NewOf
  <2>5. /\ i \in Nat /\ i # 0 /\ n \in NamesOf(i, stat) /\ n \notin owed
    BY <1>1, <1>3 DEF NewOf
  <2>6. stat.nlink[n] \in 0..(Word - 1)
        /\ (i \notin lost => Cardinality(NamesOf(i, stat)) <= stat.nlink[n])
    BY <2>5, TrackedLinks, LinkNumber
  <2> HIDE DEF came, owed, held, left, lost
  <2>7. l = (stat.nlink[n] - 1) % Word
    BY DEF l
  <2>8. /\ strategy = "new_cpio" =>
             FileOK(came, owed \cup {n}, {n}, {n}, {l}, i, strategy, lost, TRUE, stat)
        /\ strategy # "new_cpio" =>
             FileOK(came \o <<Plain(n)>>, owed \cup {n}, {n}, held, {l}, i, strategy, lost, TRUE, stat)
    BY <2>1, <2>5, <2>6, <2>7, <1>1, FileRemembers, Zenon
  <2>9. CASE strategy = "new_cpio"
    <3>1. out'[i] = came
      BY <2>9, <1>15 DEF came
    <3> QED
      BY <3>1, <2>3, <2>4, <2>8, <2>9, <1>9, <1>16 DEF FileInv
  <2>10. CASE strategy # "new_cpio"
    <3>1. out'[i] = came \o <<Plain(n)>>
      BY <2>10, <1>15 DEF came, e
    <3> QED
      BY <3>1, <2>2, <2>3, <2>4, <2>8, <2>10, <1>9, <1>16 DEF FileInv
  <2> QED
    BY <2>9, <2>10
<1> QED
  <2>1. res'.alive = res.alive /\ Shape(res', stat) /\ inexact \subseteq inexact'
    BY <1>1, <1>9, <1>12, <1>14
  <2> QED
    BY <2>1, <1>1, <1>13, <1>15, <1>17, <1>18, OneFile

(* A step that changes nothing but the chains.                             *)
LEMMA QuietKeeps ==
  ASSUME LinksInv, Quiet(res'), UNCHANGED <<strategy, stat, given, out, inexact>>, res.alive
  PROVE  LinksInv'
<1>1. TableInv'
  <2>1. Sound(res', given, stat.inode) /\ res'.alive = res.alive
    BY DEF Quiet
  <2> QED
    BY <2>1 DEF LinksInv, TableInv, Inode
<1>2. ASSUME NEW j \in DOMAIN out PROVE FileInv(res', out', given', inexact', strategy, stat, j)
  <2>1. /\ CellsOf(res', j, stat) = CellsOf(res, j, stat)
        /\ HeldOf(res', j, stat) = HeldOf(res, j, stat)
        /\ LeftOf(res', j, stat) = LeftOf(res, j, stat)
    BY QuietFiles
  <2>2. res'.alive = res.alive
    BY DEF Quiet
  <2>3. FileInv(res, out, given, inexact, strategy, stat, j)
    BY DEF LinksInv
  <2> QED
    BY <2>1, <2>2, <2>3 DEF FileInv
<1>3. DOMAIN out' = {stat'.inode[n] : n \in Names} /\ Shape(res', stat')
      /\ \A j \in DOMAIN out' : FileInv(res', out', given', inexact', strategy', stat', j)
  BY <1>2 DEF LinksInv, Quiet, Inode
<1> QED
  BY <1>1, <1>3 DEF LinksInv, Inode

(* A cell that is taken out: what it does to the cells of each file.       *)
TakenCell(x, c, i) ==
  /\ i = stat.inode[c] /\ i \in Nat /\ i # 0 /\ i \in DOMAIN out
  /\ c \in Cells /\ c \in InTable(res) /\ x.cell[c].canonical = c
  /\ x.cell[c].entry = res.cell[c].entry /\ x.spare = c
  /\ Sound(x, given, stat.inode) /\ x.alive = res.alive /\ InTable(x) = InTable(res) \ {c}
  /\ \A d \in InTable(res) : /\ x.cell[d].entry = res.cell[d].entry
                             /\ x.cell[d].links = res.cell[d].links
  /\ CellsOf(res, i, stat) = {c} /\ CellsOf(x, i, stat) = {}
  /\ \A j : j # i => CellsOf(x, j, stat) = CellsOf(res, j, stat)

LEMMA TakenCellIs ==
  ASSUME LinksInv, NEW r, NEW x, NEW c, Taken(x, r, c, given, Inode), r.alive = res.alive,
         InTable(r) = InTable(res), \A d \in InTable(res) : r.cell[d] = res.cell[d]
  PROVE  TakenCell(x, c, Inode[c])
<1>1. /\ Sound(x, given, stat.inode) /\ x.spare = c /\ x.alive = res.alive
      /\ c \in InTable(res) /\ InTable(x) = InTable(res) \ {c}
      /\ \A d \in InTable(res) : Keeps(x, res, d)
  BY DEF Taken, Keeps, Inode
<1>2. /\ InTable(res) \subseteq Cells
      /\ \A d \in InTable(res) : res.cell[d].canonical = d /\ Inode[d] # 0
      /\ \A d, e \in InTable(res) : Inode[d] = Inode[e] => d = e
  <2>1. Sound(res, given, Inode)
    BY DEF LinksInv, TableInv
  <2>2. InTable(res) \subseteq Cells
    BY <2>1, InTableCells
  <2>3. /\ \A d \in InTable(res) : res.cell[d].canonical = d /\ Inode[d] # 0
        /\ \A d, e \in InTable(res) : Inode[d] = Inode[e] => d = e
    BY <2>1 DEF Sound
  <2> QED
    BY <2>2, <2>3
<1>3. Inode[c] \in Nat /\ Inode[c] \in DOMAIN out
  BY <1>1, <1>2, StatsAssumption DEF LinksInv, TableInv, Inode, Cells
<1>4. CellsOf(res, Inode[c], stat) = {c} /\ CellsOf(x, Inode[c], stat) = {}
      /\ \A j : j # Inode[c] => CellsOf(x, j, stat) = CellsOf(res, j, stat)
  BY <1>1, <1>2 DEF CellsOf, Inode
<1> QED
  BY <1>1, <1>2, <1>3, <1>4 DEF TakenCell, Keeps, Inode

LEMMA DrainKeeps ==
  ASSUME LinksInv, Drain
  PROVE  LinksInv'
<1> DEFINE x == NextEntry(res, {"deferred"})
           c == x.c
           i == Inode[c]
           h == x.r.cell[c].entry
           e == Plain(h)
           y == [x.r EXCEPT !.cell[c].entry = NoName]
<1>1. res.alive /\ UNCHANGED <<strategy, stat, given>>
  BY DEF Drain
<1>2. IF c = Nil THEN res' = x.r /\ UNCHANGED <<out, inexact>>
      ELSE /\ res' = y /\ Emit(<<e>>)
           /\ inexact' = inexact \cup {Inode[x.r.cell[c].canonical]}
  BY Zenon DEF Drain
<1>3. NextTaken(x, res, {"deferred"}, given)
  BY NextEntrySound DEF LinksInv, TableInv
<1> HIDE DEF x
<1>4. CASE c = Nil
  <2>1. c \notin InTable(res)
    BY <1>4, InTableCells DEF LinksInv, TableInv
  <2>2. Freed(x.r, res, given, Inode)
    BY <2>1, <1>3 DEF NextTaken, Taken
  <2>3. Quiet(res')
    BY <2>2, <1>2, <1>4, QuietFreed
  <2> QED
    BY <2>3, <1>1, <1>2, <1>4, QuietKeeps
<1>5. CASE c # Nil
  <2>1. Taken(x.r, res, c, given, Inode) /\ Kind(res.cell[c]) \in {"deferred"}
    BY <1>3, <1>5 DEF NextTaken
  <2>2. TakenCell(x.r, c, i)
    BY <2>1, TakenCellIs
  <2>3. /\ res.cell[c].entry # NoName /\ h = res.cell[c].entry /\ x.r.cell[c].canonical = c
        /\ c \in Cells /\ i \in DOMAIN out
    BY <2>1, <2>2 DEF Kind, TakenCell
  <2>4. h \in Names /\ stat.inode[h] = i
    BY <2>3 DEF LinksInv, Shape, Inode
  <2>5. res' = y /\ inexact' = inexact \cup {i} /\ Emit(<<e>>)
    BY <2>3, <1>2, <1>5
  <2>6. Emitted(<<e>>, i)
    <3>1. <<e>>[1].name = h
      BY DEF Plain
    <3> HIDE DEF e, h, i
    <3> QED
      BY <3>1, <2>3, <2>4, <2>5, EmitIs DEF Inode
  <2> HIDE DEF h, i, c
  <2>7. EntrySet(y, x.r, c, NoName, given)
    <3>1. Sound(x.r, given, Inode) /\ c \in Cells /\ c = x.r.spare
      BY <2>2 DEF TakenCell, Inode
    <3>2. NoName \in Link
      BY DEF Link, Nil, NoName
    <3> QED
      BY <3>1, <3>2, EntrySetSound
  <2> HIDE DEF y
  <2>8. /\ Sound(y, given, stat.inode) /\ y.spare = c /\ y.alive = res.alive
        /\ InTable(y) = InTable(res) \ {c} /\ y.cell[c].entry = NoName
        /\ \A d \in InTable(res) : d # c => /\ y.cell[d].entry = res.cell[d].entry
                                            /\ y.cell[d].links = res.cell[d].links
    <3>1. InTable(res) \subseteq Cells
      BY InTableCells DEF LinksInv, TableInv
    <3> QED
      BY <3>1, <2>2, <2>7 DEF TakenCell, EntrySet, Inode
  <2>9. TableInv'
    BY <2>5, <2>8, <1>1 DEF LinksInv, TableInv, Inode
  <2>10. Shape(y, stat)
    <3>1. InTable(res) \subseteq Cells
      BY InTableCells DEF LinksInv, TableInv
    <3>2. \A d \in InTable(y) : y.cell[d].entry # NoName =>
            y.cell[d].entry \in Names /\ stat.inode[y.cell[d].entry] = stat.inode[d]
      BY <3>1, <2>8 DEF LinksInv, Shape
    <3> QED
      BY <3>2, <2>8, ShapeIs
  <2>11. CellsOf(y, i, stat) = {} /\ HeldOf(y, i, stat) = {} /\ LeftOf(y, i, stat) = {}
         /\ \A j : j # i => CellsOf(y, j, stat) = CellsOf(res, j, stat)
    <3>1. \A j : CellsOf(y, j, stat) = CellsOf(x.r, j, stat)
      BY <2>2, <2>8 DEF CellsOf, TakenCell
    <3>2. CellsOf(y, i, stat) = {} /\ \A j : j # i => CellsOf(y, j, stat) = CellsOf(res, j, stat)
      BY <3>1, <2>2 DEF TakenCell
    <3> QED
      BY <3>2 DEF HeldOf, LeftOf
  <2>12. \A j \in DOMAIN out : j # i =>
        /\ out'[j] = out[j] /\ GivenOf(given', j, stat) = GivenOf(given, j, stat)
        /\ CellsOf(res', j, stat) = CellsOf(res, j, stat)
        /\ \A d \in CellsOf(res, j, stat) : /\ res'.cell[d].entry = res.cell[d].entry
                                            /\ res'.cell[d].links = res.cell[d].links
    <3>1. \A j : j # i => \A d \in CellsOf(res, j, stat) : d \in InTable(res) /\ d # c
      BY <2>2 DEF CellsOf, TakenCell
    <3>2. \A j : j # i => \A d \in CellsOf(res, j, stat) :
            y.cell[d].entry = res.cell[d].entry /\ y.cell[d].links = res.cell[d].links
      BY <3>1, <2>8
    <3> QED
      BY <3>2, <2>5, <2>6, <2>11, <1>1 DEF Emitted
  <2>13. FileInv(res', out', given', inexact', strategy, stat, i)
    <3> DEFINE came == out[i]
               owed == GivenOf(given, i, stat)
               cells == CellsOf(res, i, stat)
               held == HeldOf(res, i, stat)
               left == LeftOf(res, i, stat)
               lost == LostOf(inexact, stat)
               lost2 == LostOf(inexact', stat)
    <3>1. FileOK(came, owed, cells, held, left, i, strategy, lost, TRUE, stat) /\ res.alive = TRUE
      BY <1>1, <2>3, FileOf
    <3>2. lost \subseteq lost2 /\ i \in lost2
      BY <2>5 DEF LostOf
    <3>3. i \in Nat /\ h \in held
      BY <2>2, <2>3 DEF TakenCell, HeldOf
    <3>4. out'[i] = came \o <<Plain(h)>> /\ GivenOf(given', i, stat) = owed /\ y.alive = TRUE
      BY <3>1, <2>6, <2>8, <1>1 DEF Emitted, e
    <3> HIDE DEF came, owed, cells, held, left, lost, lost2
    <3>5. FileOK(came \o <<Plain(h)>>, owed, {}, {}, {}, i, strategy, lost2, TRUE, stat)
      BY <3>1, <3>2, <3>3, FileDrained
    <3> QED
      BY <3>4, <3>5, <2>5, <2>11 DEF FileInv, lost2
  <2> QED
    <3>1. DOMAIN out' = DOMAIN out /\ res'.alive = res.alive /\ Shape(res', stat)
          /\ inexact \subseteq inexact'
      BY <2>5, <2>6, <2>8, <2>10 DEF Emitted
    <3> QED
      BY <3>1, <1>1, <2>9, <2>12, <2>13, OneFile
<1> QED
  BY <1>4, <1>5

LEMMA PartialLinksKeeps ==
  ASSUME LinksInv, PartialLinks
  PROVE  LinksInv'
<1> DEFINE r == FreeSpare(res)
           x == NextEntry(r, {"partial"})
           c == x.c
           i == Inode[c]
           y == HandsOver(x.r, c)
<1>1. res.alive /\ UNCHANGED <<strategy, stat, given, out>>
      /\ IF c = Nil THEN UNCHANGED inexact /\ res' = x.r
         ELSE inexact' = inexact \cup {Inode[x.r.cell[c].canonical]} /\ res' = y
  BY DEF PartialLinks
<1>2. Freed(r, res, given, Inode)
  BY SpareFreed DEF LinksInv, TableInv
<1> HIDE DEF r
<1>3. NextTaken(x, r, {"partial"}, given)
  BY <1>2, NextEntrySound DEF Freed
<1> HIDE DEF x
<1>4. CASE c = Nil
  <2>1. c \notin InTable(r)
    BY <1>2, <1>4, InTableCells DEF Freed
  <2>2. Freed(x.r, r, given, Inode)
    BY <2>1, <1>3 DEF NextTaken, Taken
  <2>3. Freed(x.r, res, given, Inode)
    BY <2>2, <1>2 DEF Freed
  <2>4. Quiet(res')
    BY <2>3, <1>1, <1>4, QuietFreed
  <2> QED
    BY <2>4, <1>1, <1>4, QuietKeeps
<1>5. CASE c # Nil
  <2>1. Taken(x.r, r, c, given, Inode) /\ Kind(r.cell[c]) \in {"partial"}
    BY <1>3, <1>5 DEF NextTaken
  <2>2. TakenCell(x.r, c, i)
    <3>1. r.alive = res.alive /\ InTable(r) = InTable(res)
          /\ \A d \in InTable(res) : r.cell[d] = res.cell[d]
      BY <1>2 DEF Freed
    <3> QED
      BY <2>1, <3>1, TakenCellIs
  <2>3. /\ res.cell[c].entry = NoName /\ x.r.cell[c].entry = NoName
        /\ x.r.cell[c].canonical = c /\ i \in DOMAIN out /\ i \in Nat
    <3>1. c \in InTable(res) /\ r.cell[c] = res.cell[c]
      BY <2>2, <1>2 DEF TakenCell, Freed
    <3> QED
      BY <3>1, <2>1, <2>2 DEF Kind, TakenCell
  <2>1a. HandedOver(y, x.r, c, given, stat.inode)
    BY <2>2, HandsOverSound DEF TakenCell
  <2> HIDE DEF i, c, y
  <2>1b. res' = y
    BY <1>1, <1>5
  <2>0. /\ Sound(y, given, stat.inode) /\ InTable(y) = InTable(x.r) /\ y.spare = c
        /\ y.alive = x.r.alive /\ res' = y
        /\ \A d \in Cells : /\ y.cell[d].entry = x.r.cell[d].entry
                             /\ y.cell[d].links = x.r.cell[d].links
    BY <2>1a, <2>1b DEF HandedOver
  <2>4. inexact' = inexact \cup {i}
    BY <1>1, <1>5, <2>3 DEF i
  <2>5. FileOK(out[i], GivenOf(given, i, stat), CellsOf(res, i, stat), HeldOf(res, i, stat),
               LeftOf(res, i, stat), i, strategy, LostOf(inexact, stat), TRUE, stat)
        /\ res.alive = TRUE
    BY <1>1, <2>3, FileOf
  <2>6. HeldOf(res, i, stat) = {} /\ strategy # "new_cpio"
    <3>1. CellsOf(res, i, stat) = {c}
      BY <2>2 DEF TakenCell
    <3>2. HeldOf(res, i, stat) = {}
      BY <3>1, <2>3 DEF HeldOf
    <3> QED
      BY <3>1, <3>2, <2>5 DEF FileOK
  <2>7. /\ CellsOf(y, i, stat) = {} /\ HeldOf(y, i, stat) = {} /\ LeftOf(y, i, stat) = {}
        /\ \A j : j # i => CellsOf(y, j, stat) = CellsOf(res, j, stat)
    <3>1. \A j : CellsOf(y, j, stat) = CellsOf(x.r, j, stat)
      BY <2>0 DEF CellsOf
    <3> QED
      BY <3>1, <2>2 DEF TakenCell, HeldOf, LeftOf
  <2>8. FileInv(res', out', given', inexact', strategy, stat, i)
    <3>1. i \in LostOf(inexact', stat)
      BY <2>4 DEF LostOf
    <3>2. FileOK(out[i], GivenOf(given, i, stat), {}, HeldOf(res, i, stat), {}, i, strategy,
                 LostOf(inexact', stat), TRUE, stat)
      BY <3>1, <2>3, <2>5, <2>6, FileDropped
    <3>3. y.alive = TRUE
      BY <2>0, <2>2, <2>5 DEF TakenCell
    <3> QED
      BY <3>2, <3>3, <2>0, <2>6, <2>7, <1>1 DEF FileInv
  <2>9. TableInv'
    BY <2>0, <2>2, <1>1 DEF LinksInv, TableInv, TakenCell, Inode
  <2>10. Shape(y, stat)
    <3>1. InTable(res) \subseteq Cells
      BY InTableCells DEF LinksInv, TableInv
    <3>2. \A d \in InTable(y) : y.cell[d].entry # NoName =>
            y.cell[d].entry \in Names /\ stat.inode[y.cell[d].entry] = stat.inode[d]
      BY <3>1, <2>0, <2>2 DEF LinksInv, Shape, TakenCell
    <3>3. y.cell[c].entry = NoName
      BY <2>0, <2>2, <2>3 DEF TakenCell
    <3> QED
      BY <3>2, <3>3, <2>0, ShapeIs
  <2>11. \A j \in DOMAIN out : j # i =>
        /\ out'[j] = out[j] /\ GivenOf(given', j, stat) = GivenOf(given, j, stat)
        /\ CellsOf(res', j, stat) = CellsOf(res, j, stat)
        /\ \A d \in CellsOf(res, j, stat) : /\ res'.cell[d].entry = res.cell[d].entry
                                            /\ res'.cell[d].links = res.cell[d].links
    <3>0. InTable(res) \subseteq Cells
      BY InTableCells DEF LinksInv, TableInv
    <3>1. \A d \in InTable(res) : /\ y.cell[d].entry = res.cell[d].entry
                                  /\ y.cell[d].links = res.cell[d].links
      BY <3>0, <2>0, <2>2 DEF TakenCell
    <3>2. \A j : \A d \in CellsOf(res, j, stat) : d \in InTable(res)
      BY DEF CellsOf
    <3> QED
      BY <3>1, <3>2, <2>0, <2>7, <1>1
  <2>12. DOMAIN out' = DOMAIN out /\ inexact \subseteq inexact' /\ res'.alive = res.alive
         /\ Shape(res', stat) /\ UNCHANGED <<strategy, stat>>
    BY <2>0, <2>2, <2>4, <2>10, <1>1 DEF TakenCell
  <2> QED
    BY <2>8, <2>9, <2>11, <2>12, OneFile
<1> QED
  BY <1>4, <1>5

LEMMA FreeKeeps ==
  ASSUME LinksInv, Free
  PROVE  LinksInv'
<1> DEFINE x == Emptied(res)
<1>1. res.alive /\ res' = [x EXCEPT !.alive = FALSE]
      /\ UNCHANGED <<strategy, stat, given, out, inexact>>
  BY DEF Free
<1>2. Sound(x, given, Inode) /\ x.alive = res.alive /\ \A c \in Cells : x.cell[c] = Unused
  BY EmptiedSound DEF LinksInv, TableInv
<1> HIDE DEF x
<1>3. x \in ResolverType
  BY <1>2 DEF Sound
<1>4. /\ res' \in ResolverType /\ res'.cell = x.cell /\ res'.buckets = x.buckets
      /\ res'.spare = x.spare /\ res'.number_entries = x.number_entries /\ res'.alive = FALSE
  BY <1>1, <1>3 DEF ResolverType
<1>5. Sound(res', given, Inode) /\ InTable(res') = InTable(x)
  BY <1>2, <1>4, CellFrame
<1>6. InTable(res') = {}
  <2>1. \A c \in InTable(x) : c \in Cells /\ x.cell[c].canonical = c /\ c # Nil
    BY <1>2, InTableCells DEF Sound
  <2>2. \A c \in InTable(x) : FALSE
    BY <2>1, <1>2 DEF Unused, NoName, Nil
  <2> QED
    BY <2>2, <1>5
<1>7. \A c \in Cells : res'.cell[c] = Unused
  BY <1>2, <1>4
<1>8. TableInv'
  BY <1>1, <1>5, <1>7 DEF LinksInv, TableInv, Inode
<1>9. Shape(res', stat)
  BY <1>7 DEF Shape, Unused
<1>10. ASSUME NEW j \in DOMAIN out PROVE FileInv(res', out', given', inexact', strategy, stat, j)
  <2>1. CellsOf(res', j, stat) = {} /\ HeldOf(res', j, stat) = {} /\ LeftOf(res', j, stat) = {}
    BY <1>6 DEF CellsOf, HeldOf, LeftOf
  <2>2. FileOK(out[j], GivenOf(given, j, stat), CellsOf(res, j, stat), HeldOf(res, j, stat),
               LeftOf(res, j, stat), j, strategy, LostOf(inexact, stat), TRUE, stat)
    BY <1>1, FileOf
  <2>3. j \in Nat
    BY StatsAssumption DEF LinksInv, TableInv, Inode
  <2>4. FileOK(out[j], GivenOf(given, j, stat), {}, {}, {}, j, strategy, LostOf(inexact, stat),
               FALSE, stat)
    BY <2>2, <2>3, FileFreed
  <2> QED
    BY <2>1, <2>4, <1>1, <1>4 DEF FileInv
<1>11. DOMAIN out' = {stat'.inode[n] : n \in Names} /\ Shape(res', stat')
      /\ \A j \in DOMAIN out' : FileInv(res', out', given', inexact', strategy', stat', j)
  BY <1>1, <1>9, <1>10 DEF LinksInv, Inode
<1> QED
  BY <1>8, <1>11 DEF LinksInv, Inode

-----------------------------------------------------------------------------
(* What the cells free is theirs.                                          *)

(* The cells that have a clone.                                            *)
CloneCells(x) == {c \in Cells : x.cell[c].canonical # NoName}

(* What was given away was given to the resolver before, and no cell has it. *)
OwnedInv == taken \subseteq given /\ taken \cap CloneCells(res) = {}

LEMMA ClonesAre ==
  ASSUME NEW G, NEW i, NEW x, Sound(x, G, i)
  PROVE  /\ InTable(x) \subseteq CloneCells(x) /\ CloneCells(x) \subseteq InTable(x) \cup {x.spare}
         /\ CloneCells(x) \subseteq G /\ Nil \notin Cells
         /\ \A c \in Cells : x.cell[c].canonical \in {NoName, c}
<1>1. InTable(x) \subseteq Cells /\ Nil \notin Cells
  BY InTableCells
<1>2. /\ \A c \in InTable(x) : x.cell[c].canonical = c /\ c \in G
      /\ \A c \in Cells : x.cell[c] # Unused => c \in InTable(x) \/ c = x.spare
      /\ x.spare # Nil => x.spare \in G /\ x.cell[x.spare].canonical \in {NoName, x.spare}
  BY DEF Sound
<1>3. Unused.canonical = NoName
  BY DEF Unused
<1>4. InTable(x) \subseteq CloneCells(x)
  BY <1>1, <1>2 DEF CloneCells, NoName, Nil
<1>5. ASSUME NEW c \in Cells, x.cell[c].canonical # NoName PROVE c \in InTable(x) \/ c = x.spare
  BY <1>2, <1>3, <1>5
<1>6. ASSUME NEW c \in Cells PROVE x.cell[c].canonical \in {NoName, c}
  BY <1>1, <1>2, <1>5, <1>6
<1>7. CloneCells(x) \subseteq InTable(x) \cup {x.spare} /\ CloneCells(x) \subseteq G
  BY <1>1, <1>2, <1>5 DEF CloneCells
<1> QED
  BY <1>1, <1>4, <1>6, <1>7

LEMMA FreedClones ==
  ASSUME LinksInv, NEW x, Freed(x, res, given, Inode)
  PROVE  CloneCells(x) \subseteq CloneCells(res)
<1>1. Sound(x, given, Inode) /\ x.spare = Nil /\ InTable(x) = InTable(res)
  BY DEF Freed
<1>2. Sound(res, given, Inode)
  BY DEF LinksInv, TableInv
<1>3. CloneCells(x) \subseteq InTable(res) \cup {Nil} /\ Nil \notin Cells
  BY <1>1, ClonesAre
<1>4. CloneCells(x) \subseteq Cells /\ InTable(res) \subseteq CloneCells(res)
  BY <1>2, ClonesAre DEF CloneCells
<1> QED
  BY <1>3, <1>4

LEMMA TakenClones ==
  ASSUME LinksInv, NEW r, NEW x, NEW c, Taken(x, r, c, given, Inode), InTable(r) = InTable(res)
  PROVE  CloneCells(x) \subseteq CloneCells(res) /\ c \in CloneCells(res) /\ x.spare = c
         /\ x \in ResolverType
<1>1. /\ Sound(x, given, Inode) /\ x.spare = c /\ c \in InTable(res)
      /\ InTable(x) = InTable(res) \ {c}
  BY DEF Taken
<1>2. Sound(res, given, Inode)
  BY DEF LinksInv, TableInv
<1>3. CloneCells(x) \subseteq InTable(x) \cup {x.spare}
  BY <1>1, ClonesAre
<1>4. InTable(res) \subseteq CloneCells(res)
  BY <1>2, ClonesAre
<1>5. x \in ResolverType
  BY <1>1 DEF Sound
<1> QED
  BY <1>1, <1>3, <1>4, <1>5

LEMMA FoundClones ==
  ASSUME LinksInv, NEW n \in Names, NEW f, f = Find(res, n)
  PROVE  /\ CloneCells(f.r) \subseteq CloneCells(res) /\ f.r \in ResolverType
         /\ f.c # Nil => f.c \in Cells
<1>1. Sound(res, given, Inode) /\ stat \in Stats /\ res \in ResolverType
  BY DEF LinksInv, TableInv, Sound
<1>2. CASE Inode[n] = 0
  <2>1. Find(res, n) = [r |-> res, c |-> Nil]
    BY <1>2, Zenon DEF Find
  <2> QED
    BY <2>1, <1>1
<1>3. CASE Inode[n] # 0
  <2>1. Found(f, res, n, given)
    BY <1>1, <1>3, FindSound
  <2>2. Sound(f.r, given, Inode) /\ f.r \in ResolverType
    BY <2>1 DEF Found, Sound
  <2>3. CASE f.c = Nil
    <3>1. f.c \notin InTable(res)
      BY <2>3, <1>1, InTableCells
    <3>2. Freed(f.r, res, given, Inode)
      BY <2>1, <3>1 DEF Found
    <3> QED
      BY <3>2, <2>2, <2>3, FreedClones
  <2>4. CASE f.c # Nil
    <3>1. CASE Freed(f.r, res, given, Inode) /\ f.c = Nil
      BY <3>1, <2>4
    <3>2. CASE ~(Freed(f.r, res, given, Inode) /\ f.c = Nil)
      <4>1. /\ f.c \in InTable(res) /\ InTable(f.r) \subseteq InTable(res)
            /\ f.r.spare \in {Nil, f.c}
        BY <3>2, <2>1 DEF Found
      <4>2. CloneCells(f.r) \subseteq InTable(f.r) \cup {f.r.spare} /\ Nil \notin Cells
            /\ CloneCells(f.r) \subseteq Cells
        BY <2>2, ClonesAre DEF CloneCells
      <4>3. InTable(res) \subseteq CloneCells(res) /\ InTable(res) \subseteq Cells
        BY <1>1, ClonesAre, InTableCells
      <4> QED
        BY <4>1, <4>2, <4>3, <2>2
    <3> QED
      BY <3>1, <3>2
  <2> QED
    BY <2>3, <2>4
<1> QED
  BY <1>2, <1>3

(* An entry put in a cell does not move clones. *)
LEMMA EntryClones ==
  ASSUME NEW r \in ResolverType, NEW c \in Cells, NEW e
  PROVE  CloneCells([r EXCEPT !.cell[c].entry = e]) = CloneCells(r)
<1> DEFINE x == [r EXCEPT !.cell[c].entry = e]
<1>1. \A d \in Cells : x.cell[d].canonical = r.cell[d].canonical
  BY DEF ResolverType, CellType
<1> HIDE DEF x
<1>2. CloneCells(x) = CloneCells(r)
  BY <1>1 DEF CloneCells
<1> QED
  BY <1>2 DEF x

(* No call but archive_entry_partial_links gives a clone away, and only    *)
(* insert_entry makes one, of an entry that is new.                        *)
LEMMA RememberedClones ==
  ASSUME LinksInv, NEW n \in Names, Remembered(n)
  PROVE  CloneCells(res') \subseteq CloneCells(res) \cup {n}
<1> DEFINE f == Find(res, n)
<1>1. n \notin given /\ f.c = Nil /\ Inode[n] # 0
  BY DEF Remembered, Resolved, Given
<1>2. PICK grows \in {TRUE, ~Full(f.r)} :
        LET x == Insert(f.r, n, grows) IN
        IF strategy = "new_cpio" THEN res' = [x EXCEPT !.cell[n].entry = n] /\ UNCHANGED out
        ELSE res' = x /\ Emit(<<Plain(n)>>)
  BY Zenon DEF Remembered
<1>3. Quiet(f.r) /\ f.r.spare = Nil /\ \A c \in InTable(res) : Inode[c] # Inode[n]
  BY <1>1, FoundNone
<1> DEFINE x == Insert(f.r, n, grows)
<1>4. Inserted(x, f.r, n, given)
  <2>1. Sound(f.r, given, Inode) /\ InTable(f.r) = InTable(res)
    BY <1>3 DEF Quiet, Inode
  <2>2. stat \in Stats /\ grows \in BOOLEAN
    BY DEF LinksInv, TableInv, Full
  <2> QED
    BY <2>1, <2>2, <1>1, <1>3, InsertSound
<1>5. IF strategy = "new_cpio" THEN res' = [x EXCEPT !.cell[n].entry = n] ELSE res' = x
  BY <1>2
<1> HIDE DEF x, f
<1>6. /\ Sound(x, given \cup {n}, Inode) /\ x.spare = Nil /\ x \in ResolverType
      /\ InTable(x) = InTable(res) \cup {n} /\ n \in Cells
  BY <1>3, <1>4 DEF Inserted, Quiet, Sound, Cells
<1>7. CloneCells(x) \subseteq InTable(res) \cup {n, Nil} /\ Nil \notin Cells
  BY <1>6, ClonesAre
<1>8. InTable(res) \subseteq CloneCells(res)
  BY ClonesAre DEF LinksInv, TableInv
<1>9. CloneCells(x) \subseteq CloneCells(res) \cup {n}
  BY <1>7, <1>8 DEF CloneCells
<1>10. CloneCells(res') = CloneCells(x)
  BY <1>5, <1>6, EntryClones
<1> QED
  BY <1>9, <1>10

LEMMA PartialLinksOwned ==
  ASSUME LinksInv, OwnedInv, PartialLinks
  PROVE  OwnedInv'
<1> DEFINE r == FreeSpare(res)
           x == NextEntry(r, {"partial"})
           c == x.c
           y == HandsOver(x.r, c)
<1>1. /\ given' = given
      /\ IF c = Nil THEN taken' = taken /\ res' = x.r
         ELSE taken' = taken \cup {x.r.cell[c].canonical} /\ res' = y
  BY DEF PartialLinks
<1>2. Freed(r, res, given, Inode) /\ Sound(res, given, Inode)
  BY SpareFreed DEF LinksInv, TableInv
<1> HIDE DEF r
<1>3. NextTaken(x, r, {"partial"}, given)
  BY <1>2, NextEntrySound DEF Freed
<1> HIDE DEF x
<1>4. CASE c = Nil
  <2>1. c \notin InTable(r)
    BY <1>2, <1>4, InTableCells DEF Freed
  <2>2. Freed(x.r, r, given, Inode)
    BY <2>1, <1>3 DEF NextTaken, Taken
  <2>3. Freed(x.r, res, given, Inode)
    BY <2>2, <1>2 DEF Freed
  <2>4. CloneCells(x.r) \subseteq CloneCells(res)
    BY <2>3, FreedClones
  <2> HIDE DEF c, y
  <2>5. taken' = taken /\ res' = x.r
    BY <1>1, <1>4
  <2> QED
    BY <2>4, <2>5, <1>1 DEF OwnedInv
<1>5. CASE c # Nil
  <2>1. Taken(x.r, r, c, given, Inode) /\ InTable(r) = InTable(res)
    BY <1>2, <1>3, <1>5 DEF NextTaken, Freed
  <2>2. CloneCells(x.r) \subseteq CloneCells(res) /\ c \in CloneCells(res) /\ x.r.spare = c
        /\ x.r \in ResolverType
    BY <2>1, TakenClones
  <2>3. Sound(x.r, given, Inode) /\ c \in Cells
    BY <2>1, <2>2 DEF Taken, CloneCells
  <2>4. HandedOver(y, x.r, c, given, Inode)
    BY <2>2, <2>3, HandsOverSound
  <2>5. CloneCells(res) \subseteq given /\ x.r.cell[c].canonical \in {NoName, c} /\ Nil \notin Cells
    BY <1>2, <2>3, ClonesAre
  <2>6. r.cell[c].canonical = c
    BY <2>1, <1>2 DEF Freed, Sound, Taken
  <2>7. x.r.cell[c].canonical = c
    BY <2>1, <2>6 DEF Taken, Keeps
  <2> HIDE DEF c, y
  <2>8. taken' = taken \cup {c} /\ res' = y
    BY <1>1, <1>5, <2>7
  <2>9. CloneCells(y) \subseteq CloneCells(res) \ {c}
    <3>1. \A d \in Cells : d # c => y.cell[d] = x.r.cell[d]
      BY <2>4 DEF HandedOver
    <3>2. y.cell[c].canonical = NoName
      BY <2>4 DEF HandedOver
    <3>3. CloneCells(y) \subseteq CloneCells(x.r) \ {c}
      BY <3>1, <3>2 DEF CloneCells
    <3> QED
      BY <3>3, <2>2
  <2> QED
    BY <1>1, <2>2, <2>5, <2>8, <2>9 DEF OwnedInv
<1> QED
  BY <1>4, <1>5

LEMMA DrainClones ==
  ASSUME LinksInv, Drain
  PROVE  CloneCells(res') \subseteq CloneCells(res)
<1> DEFINE x == NextEntry(res, {"deferred"})
           c == x.c
           y == [x.r EXCEPT !.cell[c].entry = NoName]
<1>1. IF c = Nil THEN res' = x.r ELSE res' = y
  BY DEF Drain
<1>2. Sound(res, given, Inode)
  BY DEF LinksInv, TableInv
<1>3. NextTaken(x, res, {"deferred"}, given)
  BY <1>2, NextEntrySound
<1> HIDE DEF x
<1>4. CASE c = Nil
  <2>1. c \notin InTable(res)
    BY <1>2, <1>4, InTableCells
  <2>2. Freed(x.r, res, given, Inode)
    BY <2>1, <1>3 DEF NextTaken, Taken
  <2> QED
    BY <2>2, <1>1, <1>4, FreedClones
<1>5. CASE c # Nil
  <2>1. Taken(x.r, res, c, given, Inode)
    BY <1>3, <1>5 DEF NextTaken
  <2>2. CloneCells(x.r) \subseteq CloneCells(res) /\ c \in CloneCells(res) /\ x.r \in ResolverType
    BY <2>1, TakenClones
  <2>3. c \in Cells
    BY <2>2 DEF CloneCells
  <2>4. CloneCells(y) = CloneCells(x.r)
    BY <2>2, <2>3, EntryClones
  <2> HIDE DEF c, y
  <2>5. res' = y
    BY <1>1, <1>5
  <2> QED
    BY <2>2, <2>4, <2>5
<1> QED
  BY <1>4, <1>5

LEMMA OwnedStep ==
  ASSUME LinksInv, LinksInv', OwnedInv, [Next]_vars
  PROVE  OwnedInv'
<1>0. CloneCells(res) \subseteq given
  BY ClonesAre DEF LinksInv, TableInv
<1>a. ASSUME CloneCells(res') \subseteq CloneCells(res), taken' = taken, given \subseteq given'
      PROVE  OwnedInv'
  BY <1>a DEF OwnedInv
<1>1. ASSUME NEW n \in Names, PassesThrough(n) PROVE OwnedInv'
  BY <1>1 DEF PassesThrough, Given, OwnedInv
<1>2. ASSUME NEW n \in Names, RefersBack(n) PROVE OwnedInv'
  <2>1. res' = Find(res, n).r /\ taken' = taken /\ given \subseteq given'
    BY <1>2 DEF RefersBack, Resolved, Given
  <2> QED
    BY <2>1, <1>a, FoundClones
<1>3. ASSUME NEW n \in Names, TakesPlace(n) PROVE OwnedInv'
  <2> DEFINE f == Find(res, n)
             e == IF f.r.cell[f.c].links = 0 THEN NoName ELSE n
  <2>1. /\ f.c # Nil /\ taken' = taken /\ given \subseteq given'
        /\ res' = [f.r EXCEPT !.cell[f.c].entry = e]
    BY <1>3 DEF TakesPlace, Resolved, Given
  <2>2. CloneCells(f.r) \subseteq CloneCells(res) /\ f.r \in ResolverType /\ f.c \in Cells
    BY <2>1, FoundClones
  <2> HIDE DEF f, e
  <2>3. CloneCells(res') = CloneCells(f.r)
    BY <2>1, <2>2, EntryClones
  <2> QED
    BY <2>1, <2>2, <2>3, <1>a
<1>4. ASSUME NEW n \in Names, Remembered(n) PROVE OwnedInv'
  <2>1. n \notin given /\ given' = given \cup {n} /\ taken' = taken
    BY <1>4 DEF Remembered, Resolved, Given
  <2>2. CloneCells(res') \subseteq CloneCells(res) \cup {n}
    BY <1>4, RememberedClones
  <2> QED
    BY <2>1, <2>2 DEF OwnedInv
<1>5. ASSUME NEW n \in Names, NotRemembered(n) PROVE OwnedInv'
  <2>1. res' = Find(res, n).r /\ taken' = taken /\ given \subseteq given'
    BY <1>5 DEF NotRemembered, Resolved, Given
  <2> QED
    BY <2>1, <1>a, FoundClones
<1>6. CASE Drain
  <2>1. taken' = taken /\ given' = given
    BY <1>6 DEF Drain
  <2> QED
    BY <2>1, <1>6, <1>a, DrainClones
<1>7. CASE PartialLinks
  BY <1>7, PartialLinksOwned
<1>8. CASE Free
  <2>1. taken' = taken /\ given' = given /\ ~res'.alive
    <3>1. Sound(Emptied(res), given, Inode)
      BY EmptiedSound DEF LinksInv, TableInv
    <3>2. Emptied(res) \in ResolverType
      BY <3>1 DEF Sound
    <3> QED
      BY <3>2, <1>8 DEF Free, ResolverType
  <2>2. CloneCells(res') = {}
    BY <2>1 DEF LinksInv, TableInv, CloneCells, Unused
  <2> QED
    BY <2>1, <2>2, <1>a
<1>9. CASE UNCHANGED vars
  BY <1>9 DEF vars, OwnedInv
<1> QED
  BY <1>1, <1>2, <1>3, <1>4, <1>5, <1>6, <1>7, <1>8, <1>9 DEF Next

(* As many names as entries, at most. *)
LEMMA NamesCount ==
  ASSUME NEW came \in Seq(Entry)
  PROVE  Cardinality(NameSet(came)) <= Len(came)
<1> DEFINE f == [k \in 1..Len(came) |-> came[k].name]
           m == Len(came)
<1>1. m \in Nat /\ f \in Surjection(1..m, NameSet(came))
  BY DEF Surjection, NameSet
<1> HIDE DEF f
<1>2. IsFiniteSet(1..m) /\ Cardinality(1..m) = m
  <2> HIDE DEF m
  <2> QED
    BY <1>1, FS_Interval
<1>3. Cardinality(NameSet(came)) <= Cardinality(1..m)
  BY <1>1, <1>2, FS_Surjection
<1> QED
  BY <1>2, <1>3

(* What is held back did not come back. *)
LEMMA HeldApart ==
  ASSUME LinksInv, res.alive, NEW i \in DOMAIN out, NEW h \in HeldOf(res, i, stat)
  PROVE  h \notin CameBack(i)
<1> DEFINE came == out[i]
           held == HeldOf(res, i, stat)
           owed == GivenOf(given, i, stat)
<1>1. i \in Nat
  BY StatsAssumption DEF LinksInv, TableInv, Inode
<1>2. FileOK(came, owed, CellsOf(res, i, stat), held, LeftOf(res, i, stat), i, strategy,
             LostOf(inexact, stat), TRUE, stat)
  BY <1>1, FileOf
<1> HIDE DEF came, held, owed
<1>3. /\ came \in Seq(Entry) /\ owed \subseteq NamesOf(i, stat) /\ held \subseteq owed
      /\ \A c, d \in held : c = d
      /\ owed = held \cup NameSet(came)
      /\ Len(came) + Cardinality(held) <= Cardinality(owed)
  BY <1>2 DEF FileOK
<1>4. h \in held /\ held = {h}
  BY <1>3 DEF held
<1>5. Cardinality(held) = 1
  BY <1>4, FS_Singleton
<1>6. Len(came) + 1 <= Cardinality(owed) /\ Len(came) \in Nat /\ Cardinality(owed) \in Nat
  <2>1. owed \subseteq Names
    BY <1>3 DEF NamesOf
  <2>2. Cardinality(owed) \in Nat
    BY <2>1, NamesAssumption, FS_Subset, FS_CardinalityType
  <2> QED
    BY <2>2, <1>3, <1>5
<1>7. h \notin NameSet(came)
  <2>1. SUFFICES ASSUME h \in NameSet(came) PROVE FALSE
    OBVIOUS
  <2>2. owed = NameSet(came)
    BY <2>1, <1>3, <1>4
  <2>3. Cardinality(owed) <= Len(came)
    BY <2>2, <1>3, NamesCount
  <2> QED
    BY <2>3, <1>6
<1>8. CameBack(i) = NameSet(came)
  BY <1>3 DEF CameBack, NameSet, came
<1> QED
  BY <1>7, <1>8

LEMMA FreedOnceHolds ==
  ASSUME LinksInv, OwnedInv
  PROVE  FreedOnce
<1>1. Sound(res, given, Inode)
  BY DEF LinksInv, TableInv
<1>2. \A c \in Cells : res.cell[c].canonical \in {NoName, c}
  BY <1>1, ClonesAre
<1>3. \A c \in Cells : res.cell[c].canonical # NoName => res.cell[c].canonical = c /\ c \notin taken
  BY <1>2 DEF OwnedInv, CloneCells
<1>4. \A c \in Cells : res.cell[c].entry # NoName =>
        /\ c \in InTable(res) /\ res.cell[c].entry \in Names
        /\ Inode[res.cell[c].entry] = Inode[c]
  BY DEF LinksInv, Shape, Inode
<1>5. ASSUME NEW c \in Cells, res.cell[c].entry # NoName
      PROVE  res.cell[c].entry \notin CameBack(Inode[res.cell[c].entry])
  <2> DEFINE h == res.cell[c].entry
  <2>1. res.alive
    BY <1>5 DEF LinksInv, TableInv, Unused
  <2>2. h \in HeldOf(res, Inode[h], stat)
    BY <1>4, <1>5 DEF HeldOf, CellsOf, Inode
  <2>3. Inode[h] \in DOMAIN out
    BY <1>4, <1>5 DEF LinksInv
  <2> QED
    BY <2>1, <2>2, <2>3, HeldApart
<1>6. ASSUME NEW c \in Cells, res.cell[c].entry # NoName, NEW e \in Cells \ {c}
      PROVE  res.cell[e].entry # res.cell[c].entry
  <2>1. SUFFICES ASSUME res.cell[e].entry = res.cell[c].entry PROVE FALSE
    OBVIOUS
  <2>2. c \in InTable(res) /\ e \in InTable(res) /\ Inode[c] = Inode[e]
    BY <2>1, <1>4, <1>6
  <2> QED
    BY <2>2, <1>1, <1>6 DEF Sound
<1>7. ASSUME NEW c \in Cells, res.cell[c].canonical # NoName, NEW e \in Cells \ {c}
      PROVE  res.cell[e].canonical # res.cell[c].canonical
  BY <1>2, <1>7
<1> QED
  BY <1>3, <1>5, <1>6, <1>7 DEF FreedOnce

-----------------------------------------------------------------------------
(* The invariant, and what it is for.                                      *)

LEMMA LinksInvStep ==
  ASSUME LinksInv, [Next]_vars
  PROVE  LinksInv'
<1>1. ASSUME NEW n \in Names, PassesThrough(n) PROVE LinksInv'
  BY <1>1, PassesThroughKeeps
<1>2. ASSUME NEW n \in Names, RefersBack(n) PROVE LinksInv'
  BY <1>2, RefersBackKeeps
<1>3. ASSUME NEW n \in Names, TakesPlace(n) PROVE LinksInv'
  BY <1>3, TakesPlaceKeeps
<1>4. ASSUME NEW n \in Names, Remembered(n) PROVE LinksInv'
  BY <1>4, RememberedKeeps
<1>5. ASSUME NEW n \in Names, NotRemembered(n) PROVE LinksInv'
  BY <1>5, NotRememberedKeeps
<1>6. CASE Drain
  BY <1>6, DrainKeeps
<1>7. CASE PartialLinks
  BY <1>7, PartialLinksKeeps
<1>8. CASE Free
  BY <1>8, FreeKeeps
<1>9. CASE UNCHANGED vars
  <2>1. /\ strategy' = strategy /\ stat' = stat /\ res' = res /\ given' = given
        /\ out' = out /\ inexact' = inexact
    BY <1>9 DEF vars
  <2>2. TableInv'
    BY <2>1 DEF LinksInv, TableInv, Inode
  <2>3. DOMAIN out' = {stat'.inode[n] : n \in Names} /\ Shape(res', stat')
        /\ \A j \in DOMAIN out' : FileInv(res', out', given', inexact', strategy', stat', j)
    BY <2>1 DEF LinksInv, Inode
  <2> QED
    BY <2>2, <2>3 DEF LinksInv, Inode
<1> QED
  BY <1>1, <1>2, <1>3, <1>4, <1>5, <1>6, <1>7, <1>8, <1>9 DEF Next

(* Every reachable state has sound chains, and for every file the account  *)
(* of what was given, what came back and what is held back is right: the   *)
(* inductive invariant, kept by every call of the resolver.                *)
THEOREM AccountKept == Spec => []LinksInv
<1>1. Init => LinksInv
  BY LinksInvInit
<1>2. LinksInv /\ [Next]_vars => LinksInv'
  BY LinksInvStep
<1> QED
  BY <1>1, <1>2, PTL DEF Spec

(* For every number of entries, of links and of buckets: the chains of the *)
(* table stay doubly linked, each remembered file is in the bucket of its  *)
(* hash once, the count of entries is right, and a freed resolver keeps no *)
(* cell (find_entry, next_entry, insert_entry, grow_hash,                  *)
(* archive_entry_linkresolver_free).                                       *)
THEOREM TableStaysSound == Spec => []TableSound
<1>1. LinksInv => TableSound
  BY TableSoundHolds DEF LinksInv
<1> QED
  BY <1>1, AccountKept, PTL

(* For every number of entries and of links, in whatever order they come:  *)
(* each entry comes back once or is held back, links name entries of their *)
(* file, and the data of a file that was tracked is there once, first with *)
(* tar and last with cpio (archive_entry_linkify,                          *)
(* archive_entry_partial_links).                                           *)
THEOREM LinksAreResolved == Spec => []LinksResolved
<1>1. LinksInv => LinksResolved
  BY LinksResolvedHolds
<1> QED
  BY <1>1, AccountKept, PTL

(* For every number of entries, of links and of buckets and every order of *)
(* calls: a clone is freed by one cell or by the client that was given it, *)
(* and an entry a cell frees is in no other cell and not with the client   *)
(* (find_entry, next_entry, archive_entry_partial_links,                   *)
(* archive_entry_linkresolver_free).                                       *)
THEOREM EntriesFreedOnce == Spec => []FreedOnce
<1>1. Init => OwnedInv
  <2>1. Init => \A c \in Cells : res.cell[c] = Unused
    BY TableInit
  <2> QED
    BY <2>1 DEF Init, OwnedInv
<1>2. LinksInv /\ LinksInv' /\ OwnedInv /\ [Next]_vars => OwnedInv'
  BY OwnedStep
<1>3. LinksInv /\ OwnedInv => FreedOnce
  BY FreedOnceHolds
<1> QED
  BY <1>1, <1>2, <1>3, AccountKept, PTL DEF Spec

=============================================================================
