--------------------------- MODULE WriteDiskProofs ---------------------------
(***************************************************************************)
(* WriteDisk, for every set of paths, archive and disk that is not full:   *)
(* what NO_OVERWRITE and SAFE_WRITES promise of the files that were there. *)
(*                                                                         *)
(* Both rest on one lemma about restore_entry, RestoreKeeps.  For a set S  *)
(* of places at which something stands and that the entry spares, whatever *)
(* way the entry takes through the code, what stands at S is there after   *)
(* it, but for the contents of one inode: the file that was opened, which  *)
(* nothing at S leads to, unless the entry is a hard link with data.       *)
(* Around it: an operation of the file system changes one name or one node *)
(* (Alike, PutAt, Same); a try of an entry either fails and leaves the     *)
(* struct, or is an Outcome; parents and fix-ups are lists of such changes *)
(* (by induction on their number, with SetInduction).                      *)
(*                                                                         *)
(* WriteInv is what the struct must hold for the end of an entry: data     *)
(* within its size, and in a temporary file all that was given.            *)
(* KeptInv, for NO_OVERWRITE, takes S to be every place at which something *)
(* stands now, and adds that the open file is not an old one, or has been  *)
(* given a new name.  SAFE_WRITES takes S to be one path.                  *)
(***************************************************************************)
EXTENDS WriteDisk, FiniteSetTheorems, WellFoundedInduction, TLAPS

LEMMA LessWellFounded == IsWellFoundedOn({p \in Nat \X Nat : p[1] < p[2]}, Nat)
  BY NatLessThanWellFounded DEF OpToRel

(* A set of numbers that holds 0, and with a number the next, holds all.   *)
LEMMA SetInduction ==
  ASSUME NEW S, 0 \in S, \A n \in Nat : n \in S => n + 1 \in S
  PROVE  Nat \subseteq S
<1> DEFINE T == Nat \ S
           R == {p \in Nat \X Nat : p[1] < p[2]}
<1>1. SUFFICES ASSUME T # {} PROVE FALSE
  OBVIOUS
<1>2. IsWellFoundedOn(R, Nat)
  BY LessWellFounded
<1>3. T \subseteq Nat
  OBVIOUS
<1> HIDE DEF T, R
<1>4. \E x \in T : \A y \in T : ~(<<y, x>> \in R)
  BY <1>1, <1>2, <1>3, WFMin
<1> USE DEF T, R
<1>5. PICK x \in T : \A y \in T : ~(y < x)
  BY <1>4
<1>6. x # 0 /\ x \in Nat
  OBVIOUS
<1>7. x - 1 \in Nat
  BY <1>6
<1>8. x - 1 \notin T
  BY <1>5, <1>6, <1>7
<1>9. x - 1 \in S
  BY <1>7, <1>8
<1>10. (x - 1) + 1 \in S
  BY <1>7, <1>9
<1> QED
  BY <1>6, <1>10

-----------------------------------------------------------------------------
(* The file system.                                                        *)

IsNode(n) ==
  n = [kind |-> n.kind, mode |-> n.mode, mtime |-> n.mtime, data |-> n.data, want |-> n.want]

IsDisk(d) ==
  /\ d = [at |-> d.at, node |-> d.node]
  /\ d.at \in [Places -> Inodes \cup {0}]
  /\ d.node = [j \in Inodes |-> d.node[j]]
  /\ \A j \in Inodes : IsNode(d.node[j])

(* The same names, and the same contents but for the inode i.              *)
Alike(x, d, i) ==
  /\ IsDisk(x) /\ x.at = d.at
  /\ \A j \in Inodes : /\ x.node[j].kind = d.node[j].kind
                       /\ j # i => x.node[j].data = d.node[j].data

LEMMA NoneInodes == 0 \notin Inodes
  BY InodesAssumption

(* What happens to one node.                                               *)
NodeSet(x, d, i, n) ==
  /\ IsDisk(x) /\ x.at = d.at
  /\ \A j \in Inodes : x.node[j] = IF j = i THEN n ELSE d.node[j]
LEMMA NodeChanged ==
  ASSUME NEW d, IsDisk(d), NEW i, NEW n, IsNode(n)
  PROVE  NodeSet([d EXCEPT !.node[i] = n], d, i, n)
<1> DEFINE x == [d EXCEPT !.node[i] = n]
           nn == [d.node EXCEPT ![i] = n]
<1>1. x = [d EXCEPT !.node = nn]
  BY DEF IsDisk
<1>2. nn = [j \in Inodes |-> nn[j]] /\ \A j \in Inodes : nn[j] = IF j = i THEN n ELSE d.node[j]
  BY DEF IsDisk
<1>3. \A j \in Inodes : IsNode(nn[j])
  <2>1. \A j \in Inodes : nn[j] = n \/ nn[j] = d.node[j]
    BY <1>2
  <2> QED
    BY <2>1 DEF IsDisk
<1> HIDE DEF nn, x
<1>4. x = [at |-> d.at, node |-> nn]
  BY <1>1 DEF IsDisk
<1>5. x.at = d.at /\ x.node = nn
  BY <1>4
<1>6. IsDisk(x)
  BY <1>2, <1>3, <1>4, <1>5 DEF IsDisk
<1> QED
  BY <1>2, <1>5, <1>6 DEF x, NodeSet

LEMMA TimeChanged ==
  ASSUME NEW n, IsNode(n), NEW t
  PROVE  LET m == [n EXCEPT !.mtime = t] IN IsNode(m) /\ m.kind = n.kind /\ m.data = n.data
<1> QED
  BY DEF IsNode

LEMMA ModeChanged ==
  ASSUME NEW n, IsNode(n), NEW t
  PROVE  LET m == [n EXCEPT !.mode = t] IN IsNode(m) /\ m.kind = n.kind /\ m.data = n.data
<1> QED
  BY DEF IsNode

LEMMA WantChanged ==
  ASSUME NEW n, IsNode(n), NEW t
  PROVE  LET m == [n EXCEPT !.want = t] IN IsNode(m) /\ m.kind = n.kind /\ m.data = n.data
<1> QED
  BY DEF IsNode

LEMMA DataChanged ==
  ASSUME NEW n, IsNode(n), NEW t
  PROVE  LET m == [n EXCEPT !.data = t] IN IsNode(m) /\ m.kind = n.kind /\ m.data = t
<1> QED
  BY DEF IsNode

LEMMA AlikeTransitive ==
  ASSUME NEW d, NEW x, NEW y, NEW i, Alike(x, d, i), Alike(y, x, i)
  PROVE  Alike(y, d, i)
<1> QED
  BY DEF Alike

LEMMA NowhereChanged ==
  ASSUME NEW d, IsDisk(d), NEW i, i \notin Inodes, NEW n
  PROVE  [d EXCEPT !.node[i] = n] = d
<1> DEFINE nn == [d.node EXCEPT ![i] = n]
<1>1. nn = d.node
  BY DEF IsDisk
<1>2. [d EXCEPT !.node[i] = n] = [d EXCEPT !.node = nn]
  BY DEF IsDisk
<1> HIDE DEF nn
<1> QED
  BY <1>1, <1>2 DEF IsDisk

LEMMA AlikeSelf ==
  ASSUME NEW d, IsDisk(d), NEW i
  PROVE  Alike(d, d, i)
<1> QED
  BY DEF Alike

LEMMA NodeAlike ==
  ASSUME NEW d, IsDisk(d), NEW i, NEW j, NEW n,
         i \in Inodes => IsNode(n) /\ n.kind = d.node[i].kind /\ (i # j => n.data = d.node[i].data)
  PROVE  Alike([d EXCEPT !.node[i] = n], d, j)
<1> DEFINE x == [d EXCEPT !.node[i] = n]
<1>1. CASE i \in Inodes
  <2>1. NodeSet(x, d, i, n)
    BY <1>1, NodeChanged
  <2> HIDE DEF x
  <2>2. Alike(x, d, j)
    BY <1>1, <2>1 DEF NodeSet, Alike
  <2> QED
    BY <2>2 DEF x
<1>2. CASE i \notin Inodes
  BY <1>2, NowhereChanged, AlikeSelf
<1> QED
  BY <1>1, <1>2



LEMMA TimeAlike ==
  ASSUME NEW d, IsDisk(d), NEW i, NEW t
  PROVE  Alike([d EXCEPT !.node[i].mtime = t], d, 0)
<1> DEFINE n == [d.node[i] EXCEPT !.mtime = t]
<1>1. i \in Inodes => IsNode(n) /\ n.kind = d.node[i].kind /\ n.data = d.node[i].data
  BY TimeChanged DEF IsDisk
<1> QED
  BY <1>1, NodeAlike

LEMMA TouchAlike ==
  ASSUME NEW d, IsDisk(d), NEW i
  PROVE  Alike(Touch(d, i), d, 0)
<1> QED
  BY TimeAlike DEF Touch

LEMMA ModeAlike ==
  ASSUME NEW d, IsDisk(d), NEW i, NEW t
  PROVE  Alike([d EXCEPT !.node[i].mode = t], d, 0)
<1> DEFINE n == [d.node[i] EXCEPT !.mode = t]
<1>1. i \in Inodes => IsNode(n) /\ n.kind = d.node[i].kind /\ n.data = d.node[i].data
  BY ModeChanged DEF IsDisk
<1> QED
  BY <1>1, NodeAlike

LEMMA WantAlike ==
  ASSUME NEW d, IsDisk(d), NEW i, NEW t
  PROVE  Alike([d EXCEPT !.node[i].want = t], d, 0)
<1> DEFINE n == [d.node[i] EXCEPT !.want = t]
<1>1. i \in Inodes => IsNode(n) /\ n.kind = d.node[i].kind /\ n.data = d.node[i].data
  BY WantChanged DEF IsDisk
<1> QED
  BY <1>1, NodeAlike

(* Data are written to one inode, and have the time of it.                 *)
Rewritten(x, d, i, t) == Alike(x, d, i) /\ (i \in Inodes => x.node[i].data = t)

LEMMA DataAlike ==
  ASSUME NEW d, IsDisk(d), NEW i, NEW t
  PROVE  Rewritten(Touch([d EXCEPT !.node[i].data = t], i), d, i, t)
<1> DEFINE n == [d.node[i] EXCEPT !.data = t]
           x == [d EXCEPT !.node[i] = n]
<1>1. i \in Inodes => IsNode(n) /\ n.kind = d.node[i].kind /\ n.data = t
  BY DataChanged DEF IsDisk
<1>2. Alike(x, d, i)
  BY <1>1, NodeAlike
<1>3. i \in Inodes => NodeSet(x, d, i, n)
  BY <1>1, NodeChanged
<1>4. x = [d EXCEPT !.node[i].data = t]
  OBVIOUS
<1> HIDE DEF x, n
<1>5. Alike(Touch(x, i), x, 0)
  BY <1>2, TouchAlike DEF Alike
<1>6. i \in Inodes => i # 0
  BY NoneInodes
<1>7. i \in Inodes => Touch(x, i).node[i].data = t
  BY <1>1, <1>3, <1>5, <1>6 DEF Alike, NodeSet
<1>8. Alike(Touch(x, i), d, i)
  BY <1>2, <1>5, NoneInodes DEF Alike
<1> QED
  BY <1>4, <1>7, <1>8 DEF Rewritten

(* A name is given, or taken away: the other names stay, and what has one. *)
PutAt(x, d, p, i) ==
  /\ IsDisk(x) /\ x.at = [d.at EXCEPT ![p] = i]
  /\ \A j \in Inodes : (\E q \in Places : x.at[q] = j) =>
       x.node[j].kind = d.node[j].kind /\ x.node[j].data = d.node[j].data

LEMMA PutIs ==
  ASSUME NEW d, IsDisk(d), NEW p, NEW i \in Inodes \cup {0}
  PROVE  PutAt(Put(d, p, i), d, p, i)
<1> DEFINE at == [d.at EXCEPT ![p] = i]
           kept == [j \in Inodes |-> IF \E q \in Places : at[q] = j THEN d.node[j] ELSE NoNode]
           y == [at |-> at, node |-> kept]
<1>1. at \in [Places -> Inodes \cup {0}]
  BY DEF IsDisk
<1>2. IsNode(NoNode)
  BY DEF IsNode, NoNode, Node
<1>3. \A j \in Inodes : IsNode(kept[j])
  BY <1>2 DEF IsDisk
<1>4. Put(d, p, i) = Touch(y, at[Front(p)])
  BY DEF Put
<1>5. \A j \in Inodes : (\E q \in Places : at[q] = j) => kept[j] = d.node[j]
  OBVIOUS
<1>6. kept = [j \in Inodes |-> kept[j]]
  OBVIOUS
<1> HIDE DEF at, kept
<1>7. IsDisk(y)
  BY <1>1, <1>3, <1>6 DEF IsDisk
<1>8. y.at = at /\ y.node = kept
  OBVIOUS
<1> HIDE DEF y
<1>9. Alike(Touch(y, at[Front(p)]), y, 0)
  BY <1>7, TouchAlike
<1> DEFINE x == Touch(y, at[Front(p)])
<1> HIDE DEF x
<1>10. IsDisk(x) /\ x.at = at
       /\ \A j \in Inodes : x.node[j].kind = kept[j].kind /\ x.node[j].data = kept[j].data
  BY <1>8, <1>9, NoneInodes DEF Alike, x
<1>11. PutAt(x, d, p, i)
  BY <1>5, <1>10 DEF PutAt, at
<1> QED
  BY <1>4, <1>11 DEF x

(* There is room for one more, whatever else is held.                      *)
LEMMA FreeIs ==
  ASSUME NEW d, IsDisk(d), NEW i
  PROVE  Free(d, {i}) \in Inodes /\ Free(d, {i}) # i
         /\ \A p \in Places : d.at[p] # Free(d, {i})
<1> DEFINE T == {d.at[p] : p \in Places}
           f == [p \in Places |-> d.at[p]]
           n == Cardinality(Places)
<1>1. IsFiniteSet(Places)
  BY PathsAssumption, FS_AddElement DEF Places
<1>2. f \in Surjection(Places, T)
  BY DEF Surjection
<1> HIDE DEF f, T
<1>3. IsFiniteSet(T) /\ Cardinality(T) <= n
  BY <1>1, <1>2, FS_Surjection
<1>4. IsFiniteSet(T \cup {i}) /\ Cardinality(T \cup {i}) <= Cardinality(T) + 1
  <2>1. IsFiniteSet(T \cup {i}) /\ (Cardinality(T \cup {i}) = Cardinality(T) \/ Cardinality(T \cup {i}) = Cardinality(T) + 1)
    BY <1>3, FS_AddElement
  <2>2. Cardinality(T) \in Nat
    BY <1>3, FS_CardinalityType
  <2> QED
    BY <2>1, <2>2
<1>5. ~(Inodes \subseteq T \cup {i})
  <2>1. n \in Nat /\ Cardinality(T) \in Nat /\ Cardinality(T \cup {i}) \in Nat
    BY <1>1, <1>3, <1>4, FS_CardinalityType
  <2>2. Cardinality(Inodes) > n + 1 /\ Cardinality(Inodes) \in Nat
    BY InodesAssumption, FS_CardinalityType
  <2>3. ASSUME Inodes \subseteq T \cup {i} PROVE FALSE
    <3>1. Cardinality(Inodes) <= Cardinality(T \cup {i})
      BY <1>4, <2>3, FS_Subset
    <3> HIDE DEF n
    <3> QED
      BY <3>1, <1>3, <1>4, <2>1, <2>2
  <2> QED
    BY <2>3
<1>6. \E j \in Inodes : j \notin Used(d, {i})
  BY <1>5 DEF Used, T
<1>7. Free(d, {i}) \in Inodes /\ Free(d, {i}) \notin Used(d, {i})
  BY <1>6 DEF Free
<1> QED
  BY <1>7 DEF Used

-----------------------------------------------------------------------------
(* What stands at some places stays, but for the contents of one inode.    *)

Standing(d, S) == IsDisk(d) /\ S \subseteq Places /\ \A p \in S : d.at[p] # 0

Same(x, d, S, i) ==
  /\ IsDisk(x)
  /\ \A p \in S : /\ x.at[p] = d.at[p]
                  /\ x.node[d.at[p]].kind = d.node[d.at[p]].kind
                  /\ d.at[p] # i => x.node[d.at[p]].data = d.node[d.at[p]].data

LEMMA StandingAt ==
  ASSUME NEW d, NEW S, Standing(d, S)
  PROVE  \A p \in S : p \in Places /\ d.at[p] \in Inodes /\ d.at[p] # 0
<1> QED
  BY DEF Standing, IsDisk

LEMMA SameSelf ==
  ASSUME NEW d, NEW S, Standing(d, S), NEW i
  PROVE  Same(d, d, S, i)
<1> QED
  BY DEF Standing, Same

LEMMA SameAlike ==
  ASSUME NEW d, NEW S, Standing(d, S), NEW x, NEW i, Same(x, d, S, i), NEW y, Alike(y, x, i)
  PROVE  Same(y, d, S, i)
<1> QED
  BY StandingAt DEF Same, Alike

LEMMA SameLess ==
  ASSUME NEW d, NEW S, Standing(d, S), NEW x, NEW i, Same(x, d, S, 0)
  PROVE  Same(x, d, S, i)
<1> QED
  BY StandingAt DEF Same

LEMMA SamePut ==
  ASSUME NEW d, NEW S, Standing(d, S), NEW x, NEW i, Same(x, d, S, i),
         NEW p, p \notin S, NEW j \in Inodes \cup {0}
  PROVE  Same(Put(x, p, j), d, S, i)
<1> DEFINE y == Put(x, p, j)
<1>1. PutAt(y, x, p, j)
  BY PutIs DEF Same
<1> HIDE DEF y
<1>2. ASSUME NEW q \in S
      PROVE  /\ y.at[q] = d.at[q] /\ y.node[d.at[q]].kind = d.node[d.at[q]].kind
             /\ d.at[q] # i => y.node[d.at[q]].data = d.node[d.at[q]].data
  <2>1. q \in Places /\ d.at[q] \in Inodes
    BY StandingAt
  <2>2. x.at[q] = d.at[q] /\ x.at \in [Places -> Inodes \cup {0}]
    BY DEF Same, IsDisk
  <2>3. y.at[q] = d.at[q]
    BY <2>1, <2>2, <1>1 DEF PutAt
  <2> QED
    BY <2>1, <2>3, <1>1 DEF PutAt, Same
<1>3. IsDisk(y)
  BY <1>1 DEF PutAt
<1> QED
  BY <1>2, <1>3 DEF Same, y

LEMMA SameUnlink ==
  ASSUME NEW d, NEW S, Standing(d, S), NEW x, NEW i, Same(x, d, S, i), NEW p, p \notin S
  PROVE  Same(Unlink(x, p), d, S, i)
<1> QED
  BY SamePut DEF Unlink

(* An object that is made has a number that nothing has.                   *)
Made(r, x, d, p, S) ==
  /\ Same(r.disk, d, S, 0)
  /\ r.err # "" => r.disk = x /\ r.ino = 0
  /\ r.err = "" => /\ r.ino \in Inodes /\ \A q \in S : d.at[q] # r.ino

LEMMA MakeIs ==
  ASSUME NEW d, NEW S, Standing(d, S), NEW x, Same(x, d, S, 0), NEW p,
         NEW kind, NEW mode, NEW h
  PROVE  Made(Make(x, p, kind, mode, {h}), x, d, p, S)
<1> DEFINE r == Make(x, p, kind, mode, {h})
           i == Free(x, {h})
           n == Node(kind, mode, Now, <<>>)
           y == [x EXCEPT !.node[i] = n]
<1>1. CASE Obstacle(x, p) # ""
  BY <1>1 DEF Make, Made
<1>2. CASE Obstacle(x, p) = "" /\ Exists(x, p)
  BY <1>2 DEF Make, Made
<1>3. CASE Obstacle(x, p) = "" /\ ~Exists(x, p)
  <2>1. r.err = "" /\ r.ino = i /\ r.disk = Put(y, p, i)
    BY <1>3 DEF Make
  <2>2. i \in Inodes /\ \A q \in Places : x.at[q] # i
    BY FreeIs DEF Same
  <2>3. IsNode(n)
    BY DEF IsNode, Node
  <2> HIDE DEF i, n
  <2>4. NodeSet(y, x, i, n)
    BY <2>3, NodeChanged DEF Same
  <2> HIDE DEF y
  <2>5. \A q \in S : q \in Places /\ d.at[q] \in Inodes /\ d.at[q] # i
    BY <2>2, StandingAt DEF Same
  <2>6. Same(y, d, S, 0)
    BY <2>4, <2>5 DEF Same, NodeSet
  <2>7. p \notin S
    BY <1>3, StandingAt DEF Exists, Same
  <2>8. Same(Put(y, p, i), d, S, 0)
    BY <2>2, <2>6, <2>7, SamePut
  <2> HIDE DEF r
  <2>9. Made(r, x, d, p, S)
    BY <2>1, <2>2, <2>5, <2>8 DEF Made
  <2> QED
    BY <2>9 DEF r
<1> QED
  BY <1>1, <1>2, <1>3

-----------------------------------------------------------------------------
(* The struct, and what one step of an extraction makes of it.             *)

IsWriter(w) ==
  w = [flags |-> w.flags, umask |-> w.umask, entry |-> w.entry, mode |-> w.mode,
       todo |-> w.todo, deferred |-> w.deferred, fd |-> w.fd, tmp |-> w.tmp,
       offset |-> w.offset, fd_offset |-> w.fd_offset, filesize |-> w.filesize,
       given |-> w.given, made |-> w.made, hit |-> w.hit, broke |-> w.broke]

Kin(v, w) ==
  /\ IsWriter(v) /\ v.flags = w.flags /\ v.umask = w.umask /\ v.entry = w.entry
  /\ v.offset = w.offset /\ v.fd_offset = w.fd_offset /\ v.filesize = w.filesize
  /\ v.given = w.given

(* A header has been taken in, and nothing done yet.                       *)
Begun(w) == /\ IsWriter(w) /\ w.fd = 0 /\ w.tmp = FALSE
            /\ w.entry.path \in Paths /\ w.entry.link \in Places

(* Nothing at the places of S is cleared away for the entry.               *)
Spared(w, d, S) ==
  /\ "UNLINK" \notin w.flags \/ w.entry.path \notin S
  /\ \/ "NO_OVERWRITE" \in w.flags /\ "SAFE" \notin w.flags
     \/ /\ \A n \in 1..(Len(w.entry.path) - 1) : SubSeq(w.entry.path, 1, n) \notin S
        /\ w.entry.path \in S =>
             /\ "SAFE" \in w.flags /\ w.entry.kind = "file" /\ w.entry.link = <<>>
             /\ d.node[d.at[w.entry.path]].kind # "dir"

(* The entry is a hard link with data, and its new name is open.           *)
Aliased(x, v, w, S) ==
  /\ w.entry.link # <<>> /\ ~(w.filesize <= 0)
  /\ w.entry.path \notin S /\ x.at[w.entry.path] = v.fd

Outcome(x, v, d, w, S) ==
  /\ Same(x, d, S, v.fd) /\ Kin(v, w) /\ v.fd \in Inodes \cup {0}
  /\ v.fd = 0 \/ (\A q \in S : d.at[q] # v.fd) \/ Aliased(x, v, w, S)
  /\ v.tmp \in BOOLEAN
  /\ v.tmp => /\ v.fd # 0 /\ x.node[v.fd].data = <<>> /\ x.node[v.fd].kind = "file"
              /\ "NO_OVERWRITE" \notin w.flags

IsTry(s) == s = [err |-> s.err, disk |-> s.disk, w |-> s.w]

Trying(s, d, w, S) == IsTry(s) /\ Same(s.disk, d, S, 0) /\ s.w = w

Tried(s, d, w, S) ==
  /\ IsTry(s)
  /\ s.err = "" => Outcome(s.disk, s.w, d, w, S)
  /\ s.err # "" => Trying(s, d, w, S)

LEMMA TryingIs ==
  ASSUME NEW d, NEW S, Standing(d, S), NEW w, Begun(w), NEW x, Same(x, d, S, 0)
  PROVE  Outcome(x, w, d, w, S)
<1> QED
  BY DEF Begun, Outcome, Kin

Forgotten(v, w) == Kin(v, w) /\ v.fd = w.fd /\ v.tmp = w.tmp

LEMMA KinTodo ==
  ASSUME NEW w, IsWriter(w), NEW t, NEW u, NEW v, v = [w EXCEPT !.todo = t, !.deferred = u]
  PROVE  Forgotten(v, w)
<1> QED
  BY DEF IsWriter, Kin, Forgotten

LEMMA TriedFails ==
  ASSUME NEW d, NEW S, NEW w, NEW x, Same(x, d, S, 0), NEW err, err # "",
         NEW t, t = [err |-> err, disk |-> x, w |-> w]
  PROVE  Tried(t, d, w, S)
<1>1. t.err = err /\ t.disk = x /\ t.w = w /\ IsTry(t)
  BY DEF IsTry
<1> QED
  BY <1>1 DEF Tried, Trying

LEMMA TriedDone ==
  ASSUME NEW d, NEW S, NEW w, NEW x, NEW v, Outcome(x, v, d, w, S), NEW err, err = "",
         NEW t, t = [err |-> err, disk |-> x, w |-> v]
  PROVE  Tried(t, d, w, S)
<1>1. t.err = err /\ t.disk = x /\ t.w = v /\ IsTry(t)
  BY DEF IsTry
<1> QED
  BY <1>1 DEF Tried

LEMMA LinkKeeps ==
  ASSUME NEW d, NEW S, Standing(d, S), NEW w, Begun(w), Spared(w, d, S), NEW s,
         Trying(s, d, w, S), w.entry.link # <<>>
  PROVE  Tried(Link(s), d, w, S)
<1> DEFINE e == s.w.entry
           y == IF "SAFE" \in s.w.flags /\ Removable(s.disk, e.path) /\ ~IsDir(s.disk, e.path)
                THEN Unlink(s.disk, e.path) ELSE s.disk
           err == LinkError(y, e)
           lost == Lookup(s.disk, e.link) \notin {"", "ENOENT"}
           i == y.at[e.link]
           linked == Put(y, e.path, i)
           z == Touch([linked EXCEPT !.node[i].data = <<>>], i)
<1>1. s.w = w /\ IsTry(s) /\ Same(s.disk, d, S, 0) /\ e = w.entry
  BY DEF Trying
<1>2. Same(y, d, S, 0)
  <2>1. "SAFE" \in w.flags => e.path \notin S
    BY <1>1 DEF Spared
  <2> QED
    BY <2>1, <1>1, SameUnlink
<1>3. Link(s) = IF lost THEN [s EXCEPT !.err = "EPERM"]
                ELSE IF err # "" THEN [s EXCEPT !.err = err, !.disk = y]
                ELSE IF s.w.filesize <= 0
                THEN [err |-> "", disk |-> linked, w |-> [s.w EXCEPT !.todo = {}, !.deferred = {}]]
                ELSE IF "owner" \notin linked.node[i].mode
                THEN [s EXCEPT !.err = "EACCES", !.disk = linked]
                ELSE [err |-> "", disk |-> z, w |-> [s.w EXCEPT !.fd = i]]
  BY DEF Link
<1>4. err = "" => Exists(y, e.link) /\ ~Exists(y, e.path)
  BY DEF LinkError, Lookup
<1> HIDE DEF err, y, e, lost
<1>7. CASE lost
  <2>1. Link(s) = [err |-> "EPERM", disk |-> s.disk, w |-> w]
    BY <1>1, <1>3, <1>7 DEF IsTry
  <2> QED
    BY <2>1, <1>1, TriedFails
<1>5. CASE ~lost /\ err # ""
  <2>1. Link(s) = [err |-> err, disk |-> y, w |-> w]
    BY <1>1, <1>3, <1>5 DEF IsTry
  <2> QED
    BY <2>1, <1>2, <1>5, TriedFails
<1>6. CASE ~lost /\ err = ""
  <2>1. i \in Inodes
    BY <1>1, <1>2, <1>4, <1>6 DEF Exists, Begun, Same, IsDisk
  <2>2. e.path \notin S
    <3>1. y.at[e.path] = 0
      BY <1>4, <1>6 DEF Exists
    <3>2. \A q \in S : y.at[q] # 0
      BY <1>2, StandingAt DEF Same
    <3> QED
      BY <3>1, <3>2
  <2>3. Same(linked, d, S, 0)
    BY <2>1, <2>2, <1>2, SamePut
  <2>4. linked.at[e.path] = i
    <3>1. PutAt(linked, y, e.path, i)
      BY <2>1, <1>2, PutIs DEF Same
    <3>2. e.path \in Places
      BY <1>1 DEF Begun, Places
    <3> HIDE DEF linked
    <3> QED
      BY <3>1, <3>2, <1>2 DEF PutAt, Same, IsDisk
  <2> HIDE DEF linked
  <2>5. CASE w.filesize <= 0
    <3> DEFINE v == [s.w EXCEPT !.todo = {}, !.deferred = {}]
    <3>1. Link(s) = [err |-> "", disk |-> linked, w |-> v]
      BY <1>1, <1>3, <1>6, <2>5
    <3>2. Kin(v, w) /\ v.fd = 0 /\ v.tmp = FALSE
      <4>1. IsWriter(w) /\ w.fd = 0 /\ w.tmp = FALSE /\ s.w = w
        BY <1>1 DEF Begun
      <4> DEFINE none == {}
      <4>2. v = [w EXCEPT !.todo = none, !.deferred = none]
        BY <1>1
      <4> HIDE DEF v, none
      <4>4. Forgotten(v, w)
        BY <4>1, <4>2, KinTodo
      <4> QED
        BY <4>1, <4>4, Zenon DEF Forgotten
    <3> HIDE DEF v
    <3>3. Outcome(linked, v, d, w, S)
      BY <3>2, <2>3 DEF Outcome
    <3> QED
      BY <3>1, <3>3, TriedDone
  <2>7. CASE ~(w.filesize <= 0) /\ "owner" \notin linked.node[i].mode
    <3>1. Link(s) = [err |-> "EACCES", disk |-> linked, w |-> w]
      BY <1>1, <1>3, <1>6, <2>7 DEF IsTry
    <3> QED
      BY <3>1, <2>3, TriedFails
  <2>6. CASE ~(w.filesize <= 0) /\ "owner" \in linked.node[i].mode
    <3> DEFINE v == [w EXCEPT !.fd = i]
    <3>1. Link(s) = [err |-> "", disk |-> z, w |-> v]
      BY <1>1, <1>3, <1>6, <2>6
    <3>2. Kin(v, w) /\ v.fd = i /\ v.tmp = FALSE
      BY DEF Begun, IsWriter, Kin
    <3>3. Same(linked, d, S, i)
      BY <2>3, SameLess
    <3>4. Alike(z, linked, i)
      BY <2>3, DataAlike DEF Same, Rewritten
    <3> HIDE DEF v, z, i
    <3>5. Same(z, d, S, i) /\ z.at = linked.at
      BY <3>3, <3>4, SameAlike DEF Alike
    <3>6. Aliased(z, v, w, S)
      BY <3>2, <3>5, <2>2, <2>4, <2>6, <1>1 DEF Aliased
    <3>7. Outcome(z, v, d, w, S)
      BY <3>2, <3>5, <3>6, <2>1 DEF Outcome
    <3> QED
      BY <3>1, <3>7, TriedDone
  <2> QED
    BY <2>5, <2>6, <2>7
<1> QED
  BY <1>5, <1>6, <1>7

LEMMA NewFileKeeps ==
  ASSUME NEW d, NEW S, Standing(d, S), NEW w, Begun(w), NEW s, Trying(s, d, w, S)
  PROVE  Tried(NewFile(s), d, w, S)
<1> DEFINE mode == s.w.mode \ s.w.umask
           r == Make(s.disk, s.w.entry.path, "file", mode, Held(s.w))
           v == IF r.err # "" THEN s.w
                ELSE [s.w EXCEPT !.fd = r.ino,
                        !.todo = IF mode = s.w.mode THEN @ \ {MODE} ELSE @]
<1>1. NewFile(s) = [err |-> r.err, disk |-> r.disk, w |-> v]
  BY DEF NewFile
<1>2. s.w = w /\ Made(r, s.disk, d, s.w.entry.path, S) /\ Same(s.disk, d, S, 0)
  BY MakeIs DEF Trying, Held
<1> HIDE DEF r
<1>3. CASE r.err # ""
  <2>1. NewFile(s) = [err |-> r.err, disk |-> s.disk, w |-> w]
    BY <1>1, <1>2, <1>3 DEF Made
  <2> QED
    BY <2>1, <1>2, <1>3, TriedFails
<1>4. CASE r.err = ""
  <2>1. Kin(v, w) /\ v.fd = r.ino /\ v.tmp = FALSE
    BY <1>2, <1>4 DEF Begun, IsWriter, Kin
  <2>2. /\ r.ino \in Inodes /\ \A q \in S : d.at[q] # r.ino
        /\ Same(r.disk, d, S, 0)
    BY <1>2, <1>4 DEF Made
  <2>3. Same(r.disk, d, S, r.ino)
    BY <2>2, SameLess
  <2> HIDE DEF v
  <2>4. Outcome(r.disk, v, d, w, S)
    BY <2>1, <2>2, <2>3 DEF Outcome
  <2> QED
    BY <2>4, <1>1, <1>4, TriedDone
<1> QED
  BY <1>3, <1>4

LEMMA NewDirKeeps ==
  ASSUME NEW d, NEW S, Standing(d, S), NEW w, Begun(w), NEW s, Trying(s, d, w, S)
  PROVE  Tried(NewDir(s), d, w, S)
<1> DEFINE mode == MinDir(s.w.mode \ s.w.umask)
           r == Make(s.disk, s.w.entry.path, "dir", mode, Held(s.w))
           later == (s.w.todo \cap {TIMES}) \cup
               (IF mode # s.w.mode \/ "PERM" \in s.w.flags THEN s.w.todo \cap {MODE} ELSE {})
           v == IF r.err # "" THEN s.w
                ELSE [s.w EXCEPT !.made = r.ino, !.deferred = @ \cup later,
                        !.todo = @ \ {TIMES, MODE}]
<1>1. NewDir(s) = [err |-> r.err, disk |-> r.disk, w |-> v]
  BY DEF NewDir
<1>2. s.w = w /\ Made(r, s.disk, d, s.w.entry.path, S) /\ Same(s.disk, d, S, 0)
  BY MakeIs DEF Trying, Held
<1> HIDE DEF r, later
<1>3. CASE r.err # ""
  <2>1. NewDir(s) = [err |-> r.err, disk |-> s.disk, w |-> w]
    BY <1>1, <1>2, <1>3 DEF Made
  <2> QED
    BY <2>1, <1>2, <1>3, TriedFails
<1>4. CASE r.err = ""
  <2>1. Kin(v, w) /\ v.fd = 0 /\ v.tmp = FALSE
    BY <1>2, <1>4 DEF Begun, IsWriter, Kin
  <2>2. Same(r.disk, d, S, 0)
    BY <1>2, <1>4 DEF Made
  <2> HIDE DEF v
  <2>4. Outcome(r.disk, v, d, w, S)
    BY <2>1, <2>2 DEF Outcome
  <2> QED
    BY <2>4, <1>1, <1>4, TriedDone
<1> QED
  BY <1>3, <1>4

LEMMA CreateKeeps ==
  ASSUME NEW d, NEW S, Standing(d, S), NEW w, Begun(w), Spared(w, d, S), NEW s,
         Trying(s, d, w, S)
  PROVE  Tried(CreateObject(s), d, w, S)
<1>1. s.w = w
  BY DEF Trying
<1> QED
  BY <1>1, LinkKeeps, NewFileKeeps, NewDirKeeps DEF CreateObject

-----------------------------------------------------------------------------
(* The directories on the path.                                            *)

IsList(l) == \E T : l \in Seq(T)

LEMMA ListMore ==
  ASSUME NEW l, IsList(l), NEW f
  PROVE  IsList(<<f>> \o l)
<1>1. PICK T : l \in Seq(T)
  BY DEF IsList
<1>2. l \in Seq(T \cup {f}) /\ <<f>> \in Seq(T \cup {f})
  BY <1>1
<1>3. <<f>> \o l \in Seq(T \cup {f})
  BY <1>2
<1> QED
  BY <1>3 DEF IsList

Building(s, d, w, S) ==
  /\ s = [err |-> s.err, disk |-> s.disk, w |-> s.w, fix |-> s.fix]
  /\ Same(s.disk, d, S, 0) /\ s.w = w /\ IsList(s.fix)

LEMMA CreateDirKeeps ==
  ASSUME NEW d, NEW S, Standing(d, S), NEW w, NEW s, Building(s, d, w, S), NEW p,
         "NO_OVERWRITE" \in w.flags \/ p \notin S
  PROVE  Building(CreateDir(s, p), d, w, S)
<1> DEFINE final == {"owner", "other"} \ s.w.umask
           clear == IF Exists(s.disk, p) THEN Unlink(s.disk, p) ELSE s.disk
           r == Make(clear, p, "dir", MinDir(final), Held(s.w))
           want == Want("implied", "dir", final, 0, <<>>)
           y == [r.disk EXCEPT !.node[r.ino].want = want]
           f == [path |-> p, kind |-> "none", fix |-> {MODE}, mode |-> final, mtime |-> 0]
           fix == IF MinDir(final) = final THEN s.fix ELSE <<f>> \o s.fix
<1>1. CASE s.err # "" \/ IsDir(s.disk, p)
  BY <1>1 DEF CreateDir
<1>2. CASE ~(s.err # "" \/ IsDir(s.disk, p))
           /\ (Obstacle(s.disk, p) # "" \/ (Exists(s.disk, p) /\ ~MayClear(s.w)))
  <2>1. CreateDir(s, p) = [s EXCEPT !.err = "failed"]
    BY <1>2 DEF CreateDir
  <2> QED
    BY <2>1 DEF Building
<1>3. CASE ~(s.err # "" \/ IsDir(s.disk, p))
           /\ ~(Obstacle(s.disk, p) # "" \/ (Exists(s.disk, p) /\ ~MayClear(s.w)))
  <2>1. CreateDir(s, p) = [s EXCEPT !.disk = y, !.fix = fix]
    BY <1>3 DEF CreateDir
  <2>2. Same(s.disk, d, S, 0) /\ s.w = w
    BY DEF Building
  <2>3. Same(clear, d, S, 0)
    <3>1. CASE Exists(s.disk, p)
      <4>1. p \notin S
        BY <1>3, <2>2, <3>1 DEF MayClear
      <4> QED
        BY <4>1, <2>2, <3>1, SameUnlink
    <3>2. CASE ~Exists(s.disk, p)
      BY <2>2, <3>2
    <3> QED
      BY <3>1, <3>2
  <2> HIDE DEF clear
  <2>4. Made(r, clear, d, p, S)
    BY <2>3, MakeIs DEF Held
  <2> HIDE DEF r, want
  <2>5. Same(r.disk, d, S, 0)
    BY <2>4 DEF Made
  <2>6. Same(y, d, S, 0)
    <3>1. IsDisk(r.disk)
      BY <2>5 DEF Same
    <3>2. Alike(y, r.disk, 0)
      BY <3>1, WantAlike
    <3> HIDE DEF y
    <3> QED
      BY <2>5, <3>2, SameAlike
  <2> HIDE DEF y, f
  <2>7. IsList(fix)
    BY ListMore DEF Building
  <2> HIDE DEF fix
  <2> QED
    BY <2>1, <2>6, <2>7 DEF Building
<1> QED
  BY <1>1, <1>2, <1>3

(* The directories one after the other.                                    *)
Parents(f, s, fix, n) ==
  /\ ParentDirs(s, fix) = [disk |-> f[n].disk, fix |-> f[n].fix]
  /\ f[0] = [err |-> "", disk |-> s.disk, w |-> s.w, fix |-> fix]
  /\ \A k \in 1..n : f[k] = CreateDir(f[k - 1], SubSeq(s.w.entry.path, 1, k))

LEMMA ParentsFunction ==
  ASSUME NEW s, NEW fix, NEW n \in Nat, n = Len(s.w.entry.path) - 1
  PROVE  \E f : Parents(f, s, fix, n)
<1> DEFINE p == s.w.entry.path
           r == [err |-> "", disk |-> s.disk, w |-> s.w, fix |-> fix]
           F(f, k) == IF k = 0 THEN r ELSE CreateDir(f[k - 1], SubSeq(p, 1, k))
           S == {m \in Nat : \E f : f = [k \in 0..m |-> F(f, k)]}
<1> HIDE DEF r, p
<1>1. 0 \in S
  <2> DEFINE f == [k \in 0..0 |-> r]
  <2>1. f = [k \in 0..0 |-> F(f, k)]
    OBVIOUS
  <2> QED
    BY <2>1
<1>2. ASSUME NEW m \in Nat, m \in S PROVE m + 1 \in S
  <2>1. PICK f : f = [k \in 0..m |-> F(f, k)]
    BY <1>2
  <2> DEFINE g == [k \in 0..(m + 1) |-> IF k = m + 1 THEN F(f, m + 1) ELSE f[k]]
  <2>2. ASSUME NEW k \in 0..(m + 1) PROVE g[k] = F(g, k)
    <3>1. k # 0 => k - 1 \in 0..m
      OBVIOUS
    <3>2. k # 0 => g[k - 1] = f[k - 1]
      BY <3>1
    <3>3. F(g, k) = F(f, k)
      BY <3>2
    <3>4. CASE k = m + 1
      BY <3>3, <3>4
    <3>5. CASE k # m + 1
      <4>1. k \in 0..m
        BY <3>5
      <4>2. f[k] = F(f, k)
        BY <4>1, <2>1
      <4> HIDE DEF F
      <4>3. g[k] = f[k]
        BY <3>5
      <4> QED
        BY <3>3, <4>2, <4>3
    <3> QED
      BY <3>4, <3>5
  <2> HIDE DEF F
  <2>3. g = [k \in 0..(m + 1) |-> g[k]]
    OBVIOUS
  <2>4. g = [k \in 0..(m + 1) |-> F(g, k)]
    <3> HIDE DEF g
    <3> QED
      BY <2>2, <2>3
  <2> HIDE DEF g
  <2> QED
    BY <2>4
<1> HIDE DEF F, S
<1>3. Nat \subseteq S
  BY <1>1, <1>2, SetInduction
<1>4. n \in S
  BY <1>3
<1> DEFINE f == CHOOSE f : f = [k \in 0..n |-> F(f, k)]
<1>5. f = [k \in 0..n |-> F(f, k)]
  BY <1>4, Zenon DEF S
<1>6. ParentDirs(s, fix) = [disk |-> f[n].disk, fix |-> f[n].fix]
  BY Zenon DEF ParentDirs, F, p, r
<1> HIDE DEF f
<1>7. f[0] = r
  BY <1>5 DEF F
<1>8. ASSUME NEW k \in 1..n
      PROVE  f[k] = CreateDir(f[k - 1], SubSeq(p, 1, k))
  <2>1. k \in 0..n /\ k # 0
    OBVIOUS
  <2>2. f[k] = F(f, k)
    BY <2>1, <1>5, Zenon
  <2> QED
    BY <2>1, <2>2, Zenon DEF F
<1> QED
  BY <1>6, <1>7, <1>8 DEF Parents, p, r

Gone(r, d, S) == Same(r.disk, d, S, 0) /\ IsList(r.fix)

LEMMA ParentsKeep ==
  ASSUME NEW d, NEW S, Standing(d, S), NEW w, Begun(w), Spared(w, d, S), NEW s,
         Trying(s, d, w, S), NEW fix, IsList(fix)
  PROVE  Gone(ParentDirs(s, fix), d, S)
<1> DEFINE p == s.w.entry.path
           n == Len(p) - 1
<1>1. s.w = w /\ p \in Paths /\ Same(s.disk, d, S, 0)
  BY DEF Trying, Begun
<1>2. n \in Nat
  <2>1. p \in Seq(Nat) /\ p # <<>>
    BY <1>1, PathsAssumption
  <2> HIDE DEF p
  <2> QED
    BY <2>1
<1> HIDE DEF n
<1>3. PICK f : Parents(f, s, fix, n)
  BY <1>2, ParentsFunction DEF n
<1>4. /\ ParentDirs(s, fix) = [disk |-> f[n].disk, fix |-> f[n].fix]
      /\ f[0] = [err |-> "", disk |-> s.disk, w |-> s.w, fix |-> fix]
      /\ \A k \in 1..n : f[k] = CreateDir(f[k - 1], SubSeq(p, 1, k))
  BY <1>3 DEF Parents
<1>5. ASSUME NEW k \in 1..n PROVE "NO_OVERWRITE" \in w.flags \/ SubSeq(p, 1, k) \notin S
  BY <1>1, <1>5 DEF Spared, n
<1> HIDE DEF p
<1> DEFINE T == {k \in Nat : k <= n => Building(f[k], d, w, S)}
<1>6. 0 \in T
  <2> DEFINE r == [err |-> "", disk |-> s.disk, w |-> s.w, fix |-> fix]
  <2>1. r.err = "" /\ r.disk = s.disk /\ r.w = w /\ r.fix = fix
    BY <1>1
  <2>2. r = [err |-> r.err, disk |-> r.disk, w |-> r.w, fix |-> r.fix]
    OBVIOUS
  <2>3. f[0] = r
    BY <1>4
  <2> HIDE DEF r
  <2>4. Building(r, d, w, S)
    BY <2>1, <2>2, <1>1 DEF Building
  <2> QED
    BY <2>3, <2>4
<1>7. ASSUME NEW k \in Nat, k \in T PROVE k + 1 \in T
  <2>1. SUFFICES ASSUME k + 1 <= n PROVE Building(f[k + 1], d, w, S)
    OBVIOUS
  <2>2. k <= n /\ k + 1 \in 1..n /\ (k + 1) - 1 = k
    BY <2>1, <1>2
  <2>3. Building(f[k], d, w, S)
    BY <2>2, <1>7
  <2>4. f[k + 1] = CreateDir(f[k], SubSeq(p, 1, k + 1))
    BY <2>2, <1>4
  <2>5. "NO_OVERWRITE" \in w.flags \/ SubSeq(p, 1, k + 1) \notin S
    BY <2>2, <1>5
  <2> QED
    BY <2>3, <2>4, <2>5, CreateDirKeeps
<1> HIDE DEF T
<1>8. n \in T
  BY <1>2, <1>6, <1>7, SetInduction
<1>9. Building(f[n], d, w, S)
  BY <1>2, <1>8 DEF T
<1>10. ParentDirs(s, fix).disk = f[n].disk /\ ParentDirs(s, fix).fix = f[n].fix
  <2> DEFINE x == f[n].disk
             y == f[n].fix
  <2>1. ParentDirs(s, fix) = [disk |-> x, fix |-> y]
    BY <1>4
  <2> HIDE DEF x, y
  <2>2. ParentDirs(s, fix).disk = x /\ ParentDirs(s, fix).fix = y
    BY <2>1
  <2> QED
    BY <2>2 DEF x, y
<1> QED
  BY <1>9, <1>10 DEF Building, Gone

-----------------------------------------------------------------------------
(* restore_entry.                                                          *)

Entered(r, d, w, S) == Outcome(r.disk, r.w, d, w, S) /\ IsList(r.fix)

LEMMA TriedIs ==
  ASSUME NEW d, NEW S, Standing(d, S), NEW w, Begun(w), NEW s, Tried(s, d, w, S)
  PROVE  Outcome(s.disk, s.w, d, w, S)
<1>1. CASE s.err = ""
  BY <1>1 DEF Tried
<1>2. CASE s.err # ""
  BY <1>2, TryingIs DEF Tried, Trying
<1> QED
  BY <1>1, <1>2

(* The struct is changed in what nobody asks for.                          *)
LEMMA KinHit ==
  ASSUME NEW w, IsWriter(w), NEW t, NEW u, NEW v, v = [w EXCEPT !.todo = t, !.hit = u]
  PROVE  Forgotten(v, w)
<1> QED
  BY DEF IsWriter, Kin, Forgotten

LEMMA KinHitOnly ==
  ASSUME NEW w, IsWriter(w), NEW t, NEW u, NEW v, v = [w EXCEPT !.hit = t, !.deferred = u]
  PROVE  Forgotten(v, w)
<1> QED
  BY DEF IsWriter, Kin, Forgotten

LEMMA KinTodoOnly ==
  ASSUME NEW w, IsWriter(w), NEW t, NEW v, v = [w EXCEPT !.todo = t]
  PROVE  Forgotten(v, w)
<1> QED
  BY DEF IsWriter, Kin, Forgotten

Opened(v, w, i, b) == Kin(v, w) /\ v.fd = i /\ v.tmp = b

LEMMA KinTemp ==
  ASSUME NEW w, IsWriter(w), NEW i, NEW b, NEW v, v = [w EXCEPT !.fd = i, !.tmp = b]
  PROVE  Opened(v, w, i, b)
<1> QED
  BY DEF IsWriter, Kin, Opened

LEMMA ForgottenTwice ==
  ASSUME NEW w, NEW v, NEW u, Forgotten(v, w), Forgotten(u, v)
  PROVE  Forgotten(u, w)
<1> QED
  BY DEF Kin, Forgotten

LEMMA ForgottenIs ==
  ASSUME NEW d, NEW S, Standing(d, S), NEW w, Begun(w), NEW x, Same(x, d, S, 0),
         NEW v, Forgotten(v, w)
  PROVE  Outcome(x, v, d, w, S)
<1>1. v.fd = w.fd /\ v.tmp = w.tmp /\ Kin(v, w) /\ w.fd = 0 /\ w.tmp = FALSE
  BY DEF Forgotten, Begun
<1>2. v.fd = 0 /\ v.tmp = FALSE
  BY <1>1, Zenon
<1> QED
  BY <1>1, <1>2 DEF Outcome

LEMMA KeptIs ==
  ASSUME NEW d, NEW S, Standing(d, S), NEW w, Begun(w), NEW s, Trying(s, d, w, S),
         NEW fix, IsList(fix)
  PROVE  /\ Entered(Kept(s, fix), d, w, S)
         /\ Entered([Kept(s, fix) EXCEPT !.w.todo = s.w.todo], d, w, S)
<1> DEFINE t == IF s.w.entry.kind = "dir" THEN {} ELSE s.w.todo
           u == s.disk.at[s.w.entry.path]
           v == [s.w EXCEPT !.todo = t, !.hit = u]
           y == [v EXCEPT !.todo = s.w.todo]
           r == [disk |-> s.disk, w |-> v, fix |-> fix, answer |-> "ok"]
<1>1. s.w = w /\ Same(s.disk, d, S, 0) /\ IsTry(s) /\ IsWriter(w)
  BY DEF Trying, Begun
<1>2. Kept(s, fix) = r
  BY <1>1 DEF Kept, Result, IsTry
<1> HIDE DEF t, u
<1>3. Forgotten(v, w)
  <2>1. v = [w EXCEPT !.todo = t, !.hit = u]
    BY <1>1
  <2> HIDE DEF v
  <2> QED
    BY <1>1, <2>1, KinHit
<1> HIDE DEF v
<1>4. Forgotten(y, w)
  <2>1. IsWriter(v)
    BY <1>3 DEF Forgotten, Kin
  <2>2. Forgotten(y, v)
    BY <2>1, KinTodoOnly
  <2> QED
    BY <1>3, <2>2, ForgottenTwice
<1>5. Outcome(s.disk, v, d, w, S)
  BY <1>1, <1>3, ForgottenIs
<1>6. Outcome(s.disk, y, d, w, S)
  BY <1>1, <1>4, ForgottenIs
<1>7. [r EXCEPT !.w.todo = s.w.todo] = [disk |-> s.disk, w |-> y, fix |-> fix, answer |-> "ok"]
  OBVIOUS
<1> DEFINE q == [disk |-> s.disk, w |-> y, fix |-> fix, answer |-> "ok"]
<1> HIDE DEF y
<1>8. r.disk = s.disk /\ r.w = v /\ r.fix = fix /\ q.disk = s.disk /\ q.w = y /\ q.fix = fix
  OBVIOUS
<1> HIDE DEF r, q
<1>9. Entered(r, d, w, S) /\ Entered(q, d, w, S)
  BY <1>5, <1>6, <1>8 DEF Entered
<1> QED
  BY <1>2, <1>7, <1>9 DEF q

LEMMA TempKeeps ==
  ASSUME NEW d, NEW S, Standing(d, S), NEW w, Begun(w), NEW s, Trying(s, d, w, S),
         "NO_OVERWRITE" \notin w.flags
  PROVE  Tried(TempFile(s), d, w, S)
<1> DEFINE i == Free(s.disk, Held(s.w))
           n == Node("file", s.w.mode \ s.w.umask, Now, <<>>)
           y == [s.disk EXCEPT !.node[i] = n]
           z == Touch(y, s.disk.at[Front(s.w.entry.path)])
           v == [s.w EXCEPT !.fd = i, !.tmp = TRUE]
<1>1. TempFile(s) = [err |-> "", disk |-> z, w |-> v]
  BY DEF TempFile
<1>2. s.w = w /\ Same(s.disk, d, S, 0) /\ IsWriter(w)
  BY DEF Trying, Begun
<1>3. i \in Inodes /\ \A q \in Places : s.disk.at[q] # i
  BY <1>2, FreeIs DEF Same, Held
<1>4. IsNode(n) /\ n.data = <<>> /\ n.kind = "file"
  BY DEF IsNode, Node
<1> HIDE DEF i, n
<1>5. NodeSet(y, s.disk, i, n)
  BY <1>2, <1>4, NodeChanged DEF Same
<1> HIDE DEF y
<1>6. \A q \in S : q \in Places /\ d.at[q] \in Inodes /\ d.at[q] # i
  BY <1>2, <1>3, StandingAt DEF Same
<1>7. Same(y, d, S, 0) /\ y.node[i].data = <<>> /\ y.node[i].kind = "file"
  BY <1>2, <1>3, <1>4, <1>5, <1>6 DEF Same, NodeSet
<1>8. Alike(z, y, 0)
  BY <1>7, TouchAlike DEF Same
<1> HIDE DEF z
<1>9. Same(z, d, S, 0) /\ z.node[i].data = <<>> /\ z.node[i].kind = "file"
  <2>1. i # 0
    BY <1>3, NoneInodes
  <2>2. z.node[i].data = <<>> /\ z.node[i].kind = "file"
    BY <2>1, <1>3, <1>7, <1>8 DEF Alike
  <2> QED
    BY <2>2, <1>7, <1>8, SameAlike
<1>10. Same(z, d, S, i)
  BY <1>9, SameLess
<1>11. Kin(v, w) /\ v.fd = i /\ v.tmp = TRUE
  <2> DEFINE b == TRUE
  <2>1. v = [w EXCEPT !.fd = i, !.tmp = b]
    BY <1>2
  <2> HIDE DEF v, b
  <2>2. Opened(v, w, i, b)
    BY <2>1, <1>2, KinTemp
  <2> QED
    BY <2>2, Zenon DEF Opened, b
<1> HIDE DEF v
<1>12. Outcome(z, v, d, w, S)
  BY <1>3, <1>6, <1>9, <1>10, <1>11, NoneInodes DEF Outcome
<1> QED
  BY <1>1, <1>12, TriedDone

LEMMA SameDirKeeps ==
  ASSUME NEW d, NEW S, Standing(d, S), NEW w, Begun(w), NEW s, Trying(s, d, w, S)
  PROVE  Tried(SameDir(s), d, w, S)
<1> DEFINE t == s.disk.at[s.w.entry.path]
           u == IF s.w.mode # At(s.disk, s.w.entry.path).mode /\ FORCE \in s.w.todo
                THEN s.w.deferred \cup (s.w.todo \cap {MODE}) ELSE s.w.deferred
           v == [s.w EXCEPT !.hit = t, !.deferred = u]
<1>1. SameDir(s) = [err |-> "", disk |-> s.disk, w |-> v]
  BY DEF SameDir
<1>2. s.w = w /\ Same(s.disk, d, S, 0) /\ IsWriter(w)
  BY DEF Trying, Begun
<1> HIDE DEF t, u
<1>3. v = [w EXCEPT !.hit = t, !.deferred = u]
  BY <1>2
<1> HIDE DEF v
<1>4. Forgotten(v, w)
  BY <1>2, <1>3, KinHitOnly
<1>5. Outcome(s.disk, v, d, w, S)
  BY <1>2, <1>4, ForgottenIs
<1> QED
  BY <1>1, <1>5, TriedDone

LEMMA ClearedKeeps ==
  ASSUME NEW d, NEW S, Standing(d, S), NEW w, Begun(w), Spared(w, d, S), NEW s,
         Trying(s, d, w, S), "NO_OVERWRITE" \notin w.flags
  PROVE  Tried(Cleared(s), d, w, S)
<1> DEFINE p == s.w.entry.path
           gone == [s EXCEPT !.disk = Unlink(@, p)]
<1>1. s.w = w /\ Same(s.disk, d, S, 0) /\ IsTry(s)
  BY DEF Trying
<1>2. p \in S => Safely(w) /\ d.node[d.at[p]].kind # "dir"
  BY <1>1 DEF Spared, Safely
<1>3. ASSUME p \notin S PROVE Tried(CreateObject(gone), d, w, S)
  <2>1. gone = [err |-> s.err, disk |-> Unlink(s.disk, p), w |-> w]
    BY <1>1 DEF IsTry
  <2>2. Same(Unlink(s.disk, p), d, S, 0)
    BY <1>1, <1>3, SameUnlink
  <2> HIDE DEF gone
  <2>3. Trying(gone, d, w, S)
    BY <2>1, <2>2 DEF Trying, IsTry
  <2> QED
    BY <2>3, CreateKeeps
<1>4. ASSUME IsDir(s.disk, p) PROVE p \notin S
  BY <1>1, <1>2, <1>4 DEF IsDir, At, Same
<1>5. CASE ~IsDir(s.disk, p) /\ Safely(s.w)
  BY <1>5, TempKeeps DEF Cleared
<1>6. CASE ~IsDir(s.disk, p) /\ ~Safely(s.w)
  <2>1. p \notin S
    BY <1>1, <1>2, <1>6
  <2>2. Cleared(s) = CreateObject(gone)
    BY <1>6 DEF Cleared
  <2> QED
    BY <2>1, <2>2, <1>3
<1>7. CASE IsDir(s.disk, p) /\ s.w.entry.kind = "dir"
  BY <1>7, SameDirKeeps DEF Cleared
<1>8. CASE IsDir(s.disk, p) /\ s.w.entry.kind # "dir" /\ Children(s.disk, p) # {}
  <2>1. Cleared(s) = [s EXCEPT !.err = "failed"]
    BY <1>8 DEF Cleared
  <2>2. Cleared(s) = [err |-> "failed", disk |-> s.disk, w |-> w]
    BY <2>1, <1>1 DEF IsTry
  <2> QED
    BY <2>2, <1>1, TriedFails
<1>9. CASE IsDir(s.disk, p) /\ s.w.entry.kind # "dir" /\ Children(s.disk, p) = {}
  <2>1. Cleared(s) = CreateObject(gone)
    BY <1>9 DEF Cleared
  <2> QED
    BY <2>1, <1>3, <1>4, <1>9
<1> QED
  BY <1>5, <1>6, <1>7, <1>8, <1>9

LEMMA AnsweredIs ==
  ASSUME NEW d, NEW S, Standing(d, S), NEW w, Begun(w), NEW s, Tried(s, d, w, S),
         NEW fix, IsList(fix)
  PROVE  Entered(Answered(s, fix), d, w, S)
<1> DEFINE answer == IF s.err = "" THEN "ok" ELSE "failed"
           x == s.disk
           v == s.w
           r == [disk |-> x, w |-> v, fix |-> fix, answer |-> answer]
<1>1. Outcome(x, v, d, w, S)
  BY TriedIs
<1>2. Answered(s, fix) = r
  BY DEF Answered, Result
<1> HIDE DEF x, v, answer
<1>3. r.disk = x /\ r.w = v /\ r.fix = fix
  OBVIOUS
<1> HIDE DEF r
<1>4. Entered(r, d, w, S)
  BY <1>1, <1>3 DEF Entered
<1> QED
  BY <1>2, <1>4

LEMMA SettleKeeps ==
  ASSUME NEW d, NEW S, Standing(d, S), NEW w, Begun(w), Spared(w, d, S), NEW s,
         Tried(s, d, w, S), NEW fix, IsList(fix)
  PROVE  Entered(Settle(s, fix), d, w, S)
<1>1. CASE s.err # "EEXIST"
  BY <1>1, AnsweredIs DEF Settle
<1>2. CASE s.err = "EEXIST"
  <2>1. Trying(s, d, w, S) /\ s.w = w
    BY <1>2 DEF Tried, Trying
  <2>2. CASE "NO_OVERWRITE" \in s.w.flags
    BY <1>2, <2>1, <2>2, KeptIs DEF Settle
  <2>3. CASE "NO_OVERWRITE" \notin s.w.flags /\ "NEWER" \in s.w.flags
             /\ ~IsDir(s.disk, s.w.entry.path) /\ ~Older(s.disk, s.w)
    <3>1. Settle(s, fix) = [Kept(s, fix) EXCEPT !.w.todo = s.w.todo]
      BY <1>2, <2>3 DEF Settle
    <3> QED
      BY <3>1, <2>1, KeptIs
  <2>4. CASE "NO_OVERWRITE" \notin s.w.flags /\ ~("NEWER" \in s.w.flags
             /\ ~IsDir(s.disk, s.w.entry.path) /\ ~Older(s.disk, s.w))
    <3>1. Settle(s, fix) = Answered(Cleared(s), fix)
      BY <1>2, <2>4 DEF Settle
    <3>2. Tried(Cleared(s), d, w, S)
      BY <2>1, <2>4, ClearedKeeps
    <3> QED
      BY <3>1, <3>2, AnsweredIs
  <2> QED
    BY <2>2, <2>3, <2>4
<1> QED
  BY <1>1, <1>2

LEMMA RestoreKeeps ==
  ASSUME NEW d, NEW S, Standing(d, S), NEW w, Begun(w), Spared(w, d, S), IsList(fixup_list)
  PROVE  Entered(RestoreEntry(d, w), d, w, S)
<1> DEFINE s == [err |-> "", disk |-> Unlinked(d, w), w |-> w]
           first == CreateObject(s)
           parents == ParentDirs(first, fixup_list)
           blocked == [disk |-> d, w |-> w, fix |-> fixup_list, answer |-> "failed"]
<1>1. RestoreEntry(d, w) = IF Blocked(d, w) THEN blocked ELSE TryOnce(first)
  BY DEF RestoreEntry
<1>2. CASE Blocked(d, w)
  <2>1. blocked.disk = d /\ blocked.w = w /\ blocked.fix = fixup_list
    OBVIOUS
  <2>2. RestoreEntry(d, w) = blocked
    BY <1>1, <1>2
  <2> HIDE DEF blocked
  <2>3. Outcome(d, w, d, w, S)
    BY SameSelf, TryingIs
  <2>4. Entered(blocked, d, w, S)
    BY <2>1, <2>3 DEF Entered
  <2> QED
    BY <2>2, <2>4
<1> SUFFICES ASSUME ~Blocked(d, w) PROVE Entered(TryOnce(first), d, w, S)
  BY <1>1, <1>2
<1>3. Trying(s, d, w, S)
  <2>1. Same(d, d, S, 0)
    BY SameSelf
  <2>2. Same(Unlinked(d, w), d, S, 0)
    BY <2>1, SameUnlink DEF Spared, Unlinked
  <2> QED
    BY <2>2 DEF Trying, IsTry
<1> HIDE DEF s
<1>4. Tried(first, d, w, S)
  BY <1>3, CreateKeeps
<1> HIDE DEF first
<1>5. CASE first.err \in {"ENOTDIR", "ENOENT"} /\ "NO_AUTODIR" \notin first.w.flags
  <2>1. TryOnce(first) = TryAgain(first, parents)
    BY <1>5 DEF TryOnce
  <2>2. Trying(first, d, w, S)
    BY <1>4, <1>5 DEF Tried
  <2>3. Gone(parents, d, S)
    BY <2>2, ParentsKeep
  <2> DEFINE again == [first EXCEPT !.disk = parents.disk]
  <2> HIDE DEF parents
  <2>4. again = [err |-> first.err, disk |-> parents.disk, w |-> w]
    BY <2>2 DEF Trying, IsTry
  <2>5. TryAgain(first, parents) = Settle(CreateObject(again), parents.fix)
    BY DEF TryAgain
  <2> HIDE DEF again
  <2>6. Trying(again, d, w, S)
    BY <2>3, <2>4 DEF Trying, IsTry, Gone
  <2>7. Tried(CreateObject(again), d, w, S)
    BY <2>6, CreateKeeps
  <2>8. Entered(Settle(CreateObject(again), parents.fix), d, w, S)
    BY <2>3, <2>7, SettleKeeps DEF Gone
  <2> QED
    BY <2>1, <2>5, <2>8
<1>6. CASE ~(first.err \in {"ENOTDIR", "ENOENT"} /\ "NO_AUTODIR" \notin first.w.flags)
  <2>1. TryOnce(first) = Settle(first, fixup_list)
    BY <1>6 DEF TryOnce
  <2> QED
    BY <2>1, <1>4, SettleKeeps
<1> QED
  BY <1>5, <1>6

-----------------------------------------------------------------------------
(* The end of an entry.                                                    *)

LEMMA SettledAlike ==
  ASSUME NEW d, IsDisk(d), NEW w
  PROVE  Alike(Settled(d, w), d, 0)
<1> DEFINE i == IF w.fd # 0 THEN w.fd ELSE w.made
           unsure == {i, w.hit} \cup Barred(d, w)
           new == Promised(w)
           N(j) == IF j = i /\ ~w.broke THEN [d.node[j] EXCEPT !.want = new]
                   ELSE IF j \in unsure THEN [d.node[j] EXCEPT !.want = Unknown]
                   ELSE d.node[j]
           nn == [j \in Inodes |-> N(j)]
<1>1. Settled(d, w) = [d EXCEPT !.node = nn]
  BY DEF Settled
<1> HIDE DEF i, new, unsure
<1>2. \A j \in Inodes : IsNode(N(j)) /\ N(j).kind = d.node[j].kind /\ N(j).data = d.node[j].data
  BY WantChanged DEF IsDisk
<1> HIDE DEF N
<1>3. nn = [j \in Inodes |-> nn[j]] /\ \A j \in Inodes : nn[j] = N(j)
  OBVIOUS
<1> HIDE DEF nn
<1>4. Settled(d, w) = [at |-> d.at, node |-> nn]
  BY <1>1 DEF IsDisk
<1> DEFINE x == [at |-> d.at, node |-> nn]
<1>5. x.at = d.at /\ x.node = nn
  OBVIOUS
<1> HIDE DEF x
<1>6. IsDisk(x)
  <2>1. x = [at |-> x.at, node |-> x.node]
    BY <1>5 DEF x
  <2>2. \A j \in Inodes : IsNode(x.node[j])
    BY <1>2, <1>3, <1>5
  <2> QED
    BY <2>1, <2>2, <1>3, <1>5 DEF IsDisk
<1>7. Alike(x, d, 0)
  BY <1>2, <1>3, <1>5, <1>6 DEF Alike
<1> QED
  BY <1>4, <1>7 DEF x

(* The file at its full size.                                              *)
FullData(d, w) ==
  IF w.filesize < 0 \/ w.fd_offset = w.filesize THEN d.node[w.fd].data
  ELSE Resized(d.node[w.fd].data, w.filesize)

LEMMA FullSizeIs ==
  ASSUME NEW d, IsDisk(d), NEW w
  PROVE  /\ Alike(FullSize(d, w), d, w.fd)
         /\ w.fd \in Inodes => FullSize(d, w).node[w.fd].data = FullData(d, w)
<1> DEFINE t == Resized(d.node[w.fd].data, w.filesize)
           y == Touch([d EXCEPT !.node[w.fd].data = t], w.fd)
<1>1. CASE w.fd = 0 \/ w.filesize < 0 \/ w.fd_offset = w.filesize
  <2>1. FullSize(d, w) = d
    BY <1>1 DEF FullSize
  <2> QED
    BY <2>1, <1>1, NoneInodes, AlikeSelf DEF FullData
<1>2. CASE ~(w.fd = 0 \/ w.filesize < 0 \/ w.fd_offset = w.filesize)
  <2>1. FullSize(d, w) = y
    BY <1>2 DEF FullSize
  <2>2. FullData(d, w) = t
    BY <1>2 DEF FullData
  <2> DEFINE i == w.fd
  <2> HIDE DEF t, i
  <2>4. Rewritten(Touch([d EXCEPT !.node[i].data = t], i), d, i, t)
    BY DataAlike
  <2>3. Alike(y, d, w.fd) /\ (w.fd \in Inodes => y.node[w.fd].data = t)
    BY <2>4 DEF Rewritten, i
  <2> HIDE DEF y
  <2> QED
    BY <2>1, <2>2, <2>3
<1> QED
  BY <1>1, <1>2

(* Everything of the entry but its final name.                             *)
Prefinal(d, w) == Settled(SetTimes(SetMode(FullSize(d, w), w), w), w)

LEMMA PrefinalIs ==
  ASSUME NEW d, IsDisk(d), NEW w
  PROVE  /\ Alike(Prefinal(d, w), d, w.fd)
         /\ w.fd \in Inodes => Prefinal(d, w).node[w.fd].data = FullData(d, w)
<1> DEFINE x == FullSize(d, w)
           y == SetMode(x, w)
           z == SetTimes(y, w)
           u == Settled(z, w)
<1>1. Alike(x, d, w.fd) /\ (w.fd \in Inodes => x.node[w.fd].data = FullData(d, w))
  BY FullSizeIs
<1> HIDE DEF x
<1>2. Alike(y, x, 0)
  <2>1. IsDisk(x)
    BY <1>1 DEF Alike
  <2>2. Alike(x, x, 0)
    BY <2>1, AlikeSelf
  <2>3. Alike([x EXCEPT !.node[Object(x, w)].mode = w.mode], x, 0)
    BY <2>1, ModeAlike
  <2> QED
    BY <2>2, <2>3 DEF SetMode
<1> HIDE DEF y
<1>3. Alike(z, y, 0)
  <2>1. IsDisk(y)
    BY <1>2 DEF Alike
  <2>2. Alike(y, y, 0)
    BY <2>1, AlikeSelf
  <2>3. Alike([y EXCEPT !.node[Object(y, w)].mtime = w.entry.mtime], y, 0)
    BY <2>1, TimeAlike
  <2> QED
    BY <2>2, <2>3 DEF SetTimes
<1> HIDE DEF z
<1>4. Alike(u, z, 0)
  BY <1>3, SettledAlike DEF Alike
<1> HIDE DEF u
<1>5. Alike(u, x, 0)
  BY <1>2, <1>3, <1>4, AlikeTransitive
<1>6. Alike(u, d, w.fd)
  BY <1>1, <1>5, NoneInodes DEF Alike
<1>7. w.fd \in Inodes => u.node[w.fd].data = FullData(d, w)
  BY <1>1, <1>5, NoneInodes DEF Alike
<1>8. Prefinal(d, w) = u
  BY DEF Prefinal, u, z, y, x
<1> QED
  BY <1>6, <1>7, <1>8

-----------------------------------------------------------------------------
(* What holds between the calls.                                           *)

(* The data of the open file are what it was given.                        *)
Sized(w) ==
  /\ w.entry.path \in Paths
  /\ w.given \in Seq(Nat) /\ w.offset \in Nat /\ w.fd_offset \in Nat /\ w.filesize \in Int
  /\ w.fd_offset <= Len(w.given)
  /\ w.filesize >= 0 => Len(w.given) <= w.filesize

Idle(w) == IsWriter(w) /\ w.fd = 0 /\ w.tmp = FALSE

WriteInv ==
  /\ IsDisk(disk) /\ IsDisk(old) /\ IsWriter(a) /\ count \in Nat /\ IsList(fixup_list)
  /\ a.fd \in Inodes \cup {0} /\ a.tmp \in BOOLEAN
  /\ state \in {"header", "data", "closed"}
  /\ state # "data" => Idle(a)
  /\ state = "data" => Sized(a)
  /\ a.tmp => /\ a.fd # 0 /\ disk.node[a.fd].data = a.given /\ disk.node[a.fd].kind = "file"
              /\ "NO_OVERWRITE" \notin a.flags

LEMMA FreshIs ==
  ASSUME NEW f, NEW u
  PROVE  Idle(Fresh(f, u)) /\ Fresh(f, u).flags = f
<1> DEFINE e == NoEntry
<1> HIDE DEF e
<1>1. Fresh(f, u) =
        [flags |-> f, umask |-> u, entry |-> e, mode |-> {}, todo |-> {},
         deferred |-> {}, fd |-> 0, tmp |-> FALSE, offset |-> 0, fd_offset |-> 0,
         filesize |-> -1, given |-> <<>>, made |-> 0, hit |-> 0, broke |-> FALSE]
  BY DEF Fresh, e
<1> DEFINE w == Fresh(f, u)
<1>2. IsWriter(w)
  BY <1>1 DEF IsWriter
<1>3. w.fd = 0 /\ w.flags = f
  BY <1>1
<1>4. w.tmp = FALSE
  BY <1>1
<1> QED
  BY <1>2, <1>3, <1>4 DEF Idle

LEMMA WriterIs ==
  ASSUME WriteInv
  PROVE  /\ a.fd # 0 => a.fd \in Inodes
         /\ a.tmp => state = "data" /\ a.fd \in Inodes /\ a.entry.path \in Places
<1>1. a.tmp => state = "data"
  <2>1. state # "data" => a.tmp = FALSE
    BY DEF WriteInv, Idle
  <2> QED
    BY <2>1, Zenon
<1> QED
  BY <1>1 DEF WriteInv, Sized, Places

(* The data that are promised are the data that are there.                 *)
LEMMA PromisedIs ==
  ASSUME WriteInv, a.tmp
  PROVE  Promised(a).data = FullData(disk, a)
<1>1. a.fd # 0 /\ disk.node[a.fd].data = a.given /\ Sized(a)
  BY WriterIs DEF WriteInv
<1>2. Promised(a).data = IF a.filesize < 0 THEN a.given ELSE Resized(a.given, a.filesize)
  BY <1>1 DEF Promised, Want
<1>3. ASSUME a.filesize >= 0, a.fd_offset = a.filesize PROVE Resized(a.given, a.filesize) = a.given
  <2>1. a.given \in Seq(Nat) /\ Len(a.given) = a.filesize
    BY <1>1, <1>3 DEF Sized
  <2> DEFINE g == a.given
             n == a.filesize
  <2> HIDE DEF g, n
  <2>2. g \in Seq(Nat) /\ Len(g) = n
    BY <2>1 DEF g, n
  <2>3. Resized(g, n) = g
    BY <2>2 DEF Resized
  <2> QED
    BY <2>3 DEF g, n
<1> QED
  BY <1>1, <1>2, <1>3 DEF FullData, Sized

(* The disk when the entry is over: what stands at S stays, and at the     *)
(* place of the entry is the new file with all of its data.                *)
Ended(x, v, S) ==
  /\ IsDisk(x) /\ Idle(v) /\ v.flags = a.flags
  /\ (a.tmp => a.entry.path \notin S) => Same(x, disk, S, a.fd)

Replaced(x) == x.at[a.entry.path] = a.fd /\ x.node[a.fd].kind = "file"
               /\ x.node[a.fd].data = Promised(a).data

LEMMA FinishedIs ==
  ASSUME WriteInv, NEW S, Standing(disk, S)
  PROVE  /\ IsDisk(FinishedDisk)
         /\ (a.tmp => a.entry.path \notin S) => Same(FinishedDisk, disk, S, a.fd)
         /\ a.tmp => Replaced(FinishedDisk)
<1> DEFINE x == Prefinal(disk, a)
           y == Put(x, a.entry.path, a.fd)
<1>1. FinishedDisk = IF a.tmp THEN y ELSE x
  BY DEF FinishedDisk, Renamed, Prefinal
<1>2. Alike(x, disk, a.fd) /\ (a.fd \in Inodes => x.node[a.fd].data = FullData(disk, a))
  BY PrefinalIs DEF WriteInv
<1> HIDE DEF x
<1>3. Same(x, disk, S, a.fd)
  BY <1>2, SameSelf, SameAlike
<1>4. IsDisk(x)
  BY <1>2 DEF Alike
<1>5. CASE a.tmp
  <2>1. a.fd \in Inodes /\ a.entry.path \in Places
    BY <1>5, WriterIs
  <2>2. PutAt(y, x, a.entry.path, a.fd)
    BY <1>4, <2>1, PutIs
  <2>3. a.entry.path \notin S => Same(y, disk, S, a.fd)
    BY <2>1, <1>3, SamePut
  <2> HIDE DEF y
  <2>4. y.at[a.entry.path] = a.fd /\ IsDisk(y)
    BY <2>1, <2>2, <1>4 DEF PutAt, IsDisk
  <2>5. y.node[a.fd].kind = x.node[a.fd].kind /\ y.node[a.fd].data = x.node[a.fd].data
    BY <2>1, <2>2, <2>4 DEF PutAt
  <2>6. x.node[a.fd].kind = "file" /\ x.node[a.fd].data = Promised(a).data
    BY <2>1, <1>2, <1>5, PromisedIs DEF WriteInv, Alike
  <2> QED
    BY <1>1, <1>5, <2>3, <2>4, <2>5, <2>6 DEF Replaced
<1>6. CASE ~a.tmp
  BY <1>1, <1>3, <1>4, <1>6
<1> QED
  BY <1>5, <1>6

LEMMA AfterIs ==
  ASSUME WriteInv, NEW S, Standing(disk, S)
  PROVE  /\ Ended(AfterEntry.disk, AfterEntry.w, S)
         /\ a.tmp => Replaced(AfterEntry.disk)
<1>1. CASE state = "data"
  <2> DEFINE x == FinishedDisk
             v == Fresh(a.flags, a.umask)
  <2>1. AfterEntry = [disk |-> x, w |-> v]
    BY <1>1 DEF AfterEntry
  <2>2. Idle(v) /\ v.flags = a.flags
    BY FreshIs
  <2>3. Ended(x, v, S) /\ (a.tmp => Replaced(x))
    BY <2>2, FinishedIs DEF Ended
  <2> HIDE DEF x, v
  <2>4. AfterEntry.disk = x /\ AfterEntry.w = v
    BY <2>1
  <2> QED
    BY <2>3, <2>4
<1>2. CASE state # "data"
  <2>1. AfterEntry.disk = disk /\ AfterEntry.w = a
    BY <1>2 DEF AfterEntry
  <2>2. Idle(a) /\ IsDisk(disk)
    BY <1>2 DEF WriteInv
  <2>3. ~a.tmp
    BY <1>2, WriterIs
  <2>4. Same(disk, disk, S, a.fd)
    BY SameSelf
  <2> QED
    BY <2>1, <2>2, <2>3, <2>4 DEF Ended
<1> QED
  BY <1>1, <1>2

-----------------------------------------------------------------------------
(* An entry begins.                                                        *)

Ready(v, w, e) ==
  /\ IsWriter(v) /\ v.fd = 0 /\ v.tmp = FALSE /\ v.flags = w.flags /\ v.entry = e
  /\ v.offset = 0 /\ v.fd_offset = 0 /\ v.filesize = e.size /\ v.given = <<>>

LEMMA PreparedIs ==
  ASSUME NEW w, Idle(w), NEW e
  PROVE  Ready(Prepared(w, e), w, e)
<1> DEFINE perm == "PERM" \in w.flags
           mode == IF perm THEN e.mode ELSE e.mode \ w.umask
           todo == {MODE} \cup (IF perm THEN {FORCE} ELSE {})
                   \cup (IF "TIME" \in w.flags THEN {TIMES} ELSE {})
           none == {}
           size == e.size
           no == FALSE
           empty == <<>>
           zero == 0
           v == [w EXCEPT !.entry = e, !.fd = zero, !.offset = zero, !.fd_offset = zero,
                   !.filesize = size, !.mode = mode, !.todo = todo, !.deferred = none,
                   !.tmp = no, !.given = empty, !.made = zero, !.hit = zero, !.broke = no]
<1>1. Prepared(w, e) = v
  BY DEF Prepared
<1>2. IsWriter(w)
  BY DEF Idle
<1> HIDE DEF perm, mode, todo, none, size, no, empty, zero
<1>3. v = [flags |-> w.flags, umask |-> w.umask, entry |-> e, mode |-> mode,
           todo |-> todo, deferred |-> none, fd |-> zero, tmp |-> no,
           offset |-> zero, fd_offset |-> zero, filesize |-> size,
           given |-> empty, made |-> zero, hit |-> zero, broke |-> no]
  <2> DEFINE f == w.flags
             u == w.umask
             o1 == w.entry
             o2 == w.mode
             o3 == w.todo
             o4 == w.deferred
             o5 == w.fd
             o6 == w.tmp
             o7 == w.offset
             o8 == w.fd_offset
             o9 == w.filesize
             o10 == w.given
             o11 == w.made
             o12 == w.hit
             o13 == w.broke
             old_w == [flags |-> f, umask |-> u, entry |-> o1, mode |-> o2, todo |-> o3,
                       deferred |-> o4, fd |-> o5, tmp |-> o6, offset |-> o7,
                       fd_offset |-> o8, filesize |-> o9, given |-> o10, made |-> o11,
                       hit |-> o12, broke |-> o13]
  <2>1. w = old_w
    BY <1>2 DEF IsWriter
  <2> HIDE DEF f, u, o1, o2, o3, o4, o5, o6, o7, o8, o9, o10, o11, o12, o13
  <2>2. v = [old_w EXCEPT !.entry = e, !.fd = zero, !.offset = zero, !.fd_offset = zero,
                   !.filesize = size, !.mode = mode, !.todo = todo, !.deferred = none,
                   !.tmp = no, !.given = empty, !.made = zero, !.hit = zero, !.broke = no]
    BY <2>1
  <2> HIDE DEF v
  <2>3. v = [flags |-> f, umask |-> u, entry |-> e, mode |-> mode,
             todo |-> todo, deferred |-> none, fd |-> zero, tmp |-> no,
             offset |-> zero, fd_offset |-> zero, filesize |-> size,
             given |-> empty, made |-> zero, hit |-> zero, broke |-> no]
    BY <2>2
  <2> QED
    BY <2>3 DEF f, u
<1> HIDE DEF v
<1>4. /\ v.flags = w.flags /\ v.entry = e /\ v.fd = zero /\ v.tmp = no /\ v.offset = zero
      /\ v.fd_offset = zero /\ v.filesize = size /\ v.given = empty
  BY <1>3
<1>5. IsWriter(v)
  BY <1>3 DEF IsWriter
<1>6. v.tmp = FALSE
  BY <1>4, Zenon DEF no
<1>7. Ready(v, w, e)
  BY <1>4, <1>5, <1>6 DEF Ready, zero, size, empty
<1> QED
  BY <1>1, <1>7

(* The size of a file that is not open is nothing.                         *)
LEMMA ClosedSize ==
  ASSUME NEW w, IsWriter(w), NEW n, NEW v, v = [w EXCEPT !.filesize = n]
  PROVE  /\ IsWriter(v) /\ v.flags = w.flags /\ v.fd = w.fd /\ v.tmp = w.tmp
         /\ v.entry = w.entry /\ v.given = w.given /\ v.offset = w.offset
         /\ v.fd_offset = w.fd_offset /\ v.filesize = n
<1> QED
  BY DEF IsWriter

(* After the header of e on the disk d: i is the inode that is written to. *)
Touched(x, d, e, S, i) ==
  /\ Same(x, d, S, i)
  /\ \/ i = 0 \/ \A q \in S : d.at[q] # i
     \/ e.link # <<>> /\ ~(e.size <= 0) /\ e.path \notin S /\ x.at[e.path] = i

Underway(x, u, st, d, v, e, S) ==
  /\ IsWriter(u) /\ u.flags = v.flags /\ u.fd \in Inodes \cup {0} /\ u.tmp \in BOOLEAN
  /\ st \in {"header", "data"}
  /\ st # "data" => Idle(u)
  /\ st = "data" => Sized(u)
  /\ u.tmp => /\ u.fd # 0 /\ x.node[u.fd].data = u.given /\ x.node[u.fd].kind = "file"
              /\ "NO_OVERWRITE" \notin u.flags
  /\ \E i : Touched(x, d, e, S, i) /\ (st = "data" => u.fd = i)

LEMMA EnterIs ==
  ASSUME NEW b, Idle(b.w), NEW S, Standing(b.disk, S), IsList(fixup_list),
         NEW e, e.path \in Paths, e.link \in Places, e.size \in Int,
         Spared([flags |-> b.w.flags, entry |-> e], b.disk, S), Enter(b, e)
  PROVE  Underway(disk', a', state', b.disk, b.w, e, S) /\ IsList(fixup_list')
<1> DEFINE d == b.disk
           v == b.w
           w == Prepared(v, e)
           r == RestoreEntry(d, w)
<1>1. CASE e.link = e.path
  <2>1. disk' = d /\ a' = v /\ state' = "header" /\ fixup_list' = fixup_list
    BY <1>1 DEF Enter
  <2> DEFINE x == disk'
             u == a'
             st == state'
  <2>2. IsWriter(v) /\ v.fd = 0 /\ v.tmp = FALSE
    BY DEF Idle
  <2>3. ~v.tmp
    BY <2>2, Zenon
  <2>4. Touched(x, d, e, S, 0)
    BY <2>1, SameSelf DEF Touched
  <2>5. x = d /\ u = v /\ st = "header"
    BY <2>1
  <2> HIDE DEF x, u, st, d, v
  <2>6. Idle(v)
    BY DEF v
  <2>7. v.tmp \in BOOLEAN
    BY <2>2, Zenon
  <2>8. Underway(x, u, st, d, v, e, S)
    BY <2>2, <2>3, <2>4, <2>5, <2>6, <2>7 DEF Underway
  <2> QED
    BY <2>1, <2>8 DEF x, u, st, d, v
<1>2. CASE e.link # e.path
  <2>1. Ready(w, v, e)
    BY PreparedIs
  <2>2. Started(b, r)
    BY <1>2 DEF Enter
  <2> HIDE DEF w
  <2>3. Begun(w)
    BY <2>1 DEF Ready, Begun
  <2>4. Spared(w, d, S)
    BY <2>1 DEF Ready, Spared
  <2>5. Entered(r, d, w, S)
    BY <2>3, <2>4, RestoreKeeps
  <2> HIDE DEF r
  <2>6. IsList(fixup_list')
    BY <2>2, <2>5, ListMore DEF Started, Deferred, Entered
  <2>7. Outcome(r.disk, r.w, d, w, S)
    BY <2>5 DEF Entered
  <2> DEFINE i == r.w.fd
             n == IF i = 0 THEN 0 ELSE r.w.filesize
             y == [r.w EXCEPT !.filesize = n]
  <2>8. Touched(r.disk, d, e, S, i)
    BY <2>1, <2>7 DEF Outcome, Aliased, Touched, Ready, Kin
  <2>9. disk' = r.disk /\ a' = (IF r.answer = "ok" THEN y ELSE v)
        /\ state' = (IF r.answer = "ok" THEN "data" ELSE "header")
    BY <2>2 DEF Started
  <2> DEFINE x == disk'
             u == a'
             st == state'
  <2>10. CASE r.answer = "ok"
    <3>1. /\ IsWriter(y) /\ y.flags = r.w.flags /\ y.fd = i /\ y.tmp = r.w.tmp
          /\ y.entry = r.w.entry /\ y.given = r.w.given /\ y.offset = r.w.offset
          /\ y.fd_offset = r.w.fd_offset /\ y.filesize = n
      <4>1. IsWriter(r.w)
        BY <2>7 DEF Outcome, Kin
      <4> DEFINE rw == r.w
      <4>2. IsWriter(rw) /\ y = [rw EXCEPT !.filesize = n]
        BY <4>1
      <4> HIDE DEF rw, y, n
      <4>3. /\ IsWriter(y) /\ y.flags = rw.flags /\ y.fd = rw.fd /\ y.tmp = rw.tmp
            /\ y.entry = rw.entry /\ y.given = rw.given /\ y.offset = rw.offset
            /\ y.fd_offset = rw.fd_offset /\ y.filesize = n
        BY <4>2, ClosedSize
      <4> QED
        BY <4>3 DEF rw
    <3>2. u = y /\ x = r.disk /\ st = "data"
      BY <2>9, <2>10
    <3> HIDE DEF y, x, u, st
    <3>3. /\ y.entry = e /\ y.given = <<>> /\ y.offset = 0 /\ y.fd_offset = 0 /\ y.flags = v.flags
          /\ r.w.filesize = e.size
      BY <2>1, <2>7, <3>1 DEF Outcome, Kin, Ready
    <3>4. Sized(y)
      BY <3>1, <3>3 DEF Sized
    <3>5. y.fd \in Inodes \cup {0} /\ y.tmp \in BOOLEAN
      BY <2>7, <3>1 DEF Outcome
    <3>6. y.tmp => /\ y.fd # 0 /\ x.node[y.fd].data = y.given /\ x.node[y.fd].kind = "file"
                   /\ "NO_OVERWRITE" \notin y.flags
      BY <2>1, <2>7, <3>1, <3>2, <3>3 DEF Outcome, Ready
    <3>7. Underway(x, u, st, d, v, e, S)
      BY <2>8, <3>1, <3>2, <3>3, <3>4, <3>5, <3>6 DEF Underway
    <3> QED
      BY <2>6, <3>7 DEF x, u, st
  <2>11. CASE r.answer # "ok"
    <3>1. IsWriter(v) /\ v.fd = 0 /\ v.tmp = FALSE
      BY DEF Idle
    <3>2. ~v.tmp /\ v.tmp \in BOOLEAN
      BY <3>1, Zenon
    <3>3. u = v /\ x = r.disk /\ st = "header"
      BY <2>9, <2>11
    <3>4. Idle(v)
      OBVIOUS
    <3> HIDE DEF x, u, st, v
    <3>5. Underway(x, u, st, d, v, e, S)
      BY <2>8, <3>1, <3>2, <3>3, <3>4 DEF Underway
    <3> QED
      BY <2>6, <3>5 DEF x, u, st, v
  <2> QED
    BY <2>10, <2>11
<1> QED
  BY <1>1, <1>2

-----------------------------------------------------------------------------
(* Data.                                                                   *)

LEMMA OverlayIs ==
  ASSUME NEW g \in Seq(Nat), NEW off \in Nat, NEW m \in Nat, NEW v \in Nat
  PROVE  /\ Overlay(g, off, m, v) \in Seq(Nat)
         /\ Len(Overlay(g, off, m, v)) = IF off + m > Len(g) THEN off + m ELSE Len(g)
<1> DEFINE n == IF off + m > Len(g) THEN off + m ELSE Len(g)
           E(i) == IF i > off /\ i <= off + m THEN v ELSE IF i <= Len(g) THEN g[i] ELSE 0
           t == [i \in 1..n |-> E(i)]
<1>1. n \in Nat /\ \A i \in 1..n : E(i) \in Nat
  OBVIOUS
<1>2. Overlay(g, off, m, v) = t
  BY DEF Overlay
<1> HIDE DEF n, E
<1>3. t \in Seq(Nat) /\ Len(t) = n
  BY <1>1
<1> QED
  BY <1>2, <1>3 DEF n

Given(v, w, o, f, g) ==
  /\ IsWriter(v) /\ v.flags = w.flags /\ v.fd = w.fd /\ v.tmp = w.tmp
  /\ v.entry = w.entry /\ v.given = g /\ v.offset = o
  /\ v.fd_offset = f /\ v.filesize = w.filesize

LEMMA WriterWritten ==
  ASSUME NEW w, IsWriter(w), NEW o, NEW f, NEW g, NEW c,
         NEW v, v = [w EXCEPT !.offset = o, !.fd_offset = f, !.given = g, !.broke = c]
  PROVE  Given(v, w, o, f, g)
<1> QED
  BY DEF IsWriter, Given

(* Data change the open file only, and what it was given.                  *)
Continued(x, u) ==
  /\ Alike(x, disk, a.fd) /\ IsWriter(u) /\ Sized(u)
  /\ u.flags = a.flags /\ u.fd = a.fd /\ u.tmp = a.tmp
  /\ u.tmp => x.node[u.fd].data = u.given

LEMMA WrittenIs ==
  ASSUME WriteInv, state = "data", NEW off \in Nat, NEW m \in Nat, NEW more,
         a.filesize < 0 \/ off + m <= a.filesize, Written(m, off, more)
  PROVE  Continued(disk', a')
<1> DEFINE g == IF m = 0 THEN a.given ELSE Overlay(a.given, off, m, count)
           f == IF m = 0 THEN a.fd_offset ELSE off + m
           c == a.broke \/ more
           o == off + m
           i == a.fd
           t == Overlay(disk.node[i].data, off, m, count)
           y == Touch([disk EXCEPT !.node[i].data = t], i)
           u == a'
           x == disk'
<1>1. x = (IF m = 0 THEN disk ELSE y)
  BY DEF Written
<1>2. u = [a EXCEPT !.offset = o, !.fd_offset = f, !.given = g, !.broke = c]
  BY DEF Written
<1>3. IsWriter(a) /\ Sized(a) /\ IsDisk(disk) /\ count \in Nat
  BY DEF WriteInv
<1>4. g \in Seq(Nat) /\ f \in Nat /\ f <= Len(g) /\ (a.filesize >= 0 => Len(g) <= a.filesize)
  <2>1. CASE m = 0
    BY <1>3, <2>1 DEF Sized
  <2>2. CASE m # 0
    <3>1. /\ g \in Seq(Nat)
          /\ Len(g) = IF off + m > Len(a.given) THEN off + m ELSE Len(a.given)
      BY <1>3, <2>2, OverlayIs DEF Sized
    <3> QED
      BY <1>3, <2>2, <3>1 DEF Sized
  <2> QED
    BY <2>1, <2>2
<1>5. o \in Nat
  OBVIOUS
<1>6. a.tmp => a.fd \in Inodes /\ disk.node[i].data = a.given
  BY WriterIs DEF WriteInv
<1>7. a.tmp => (m # 0 => t = g)
  BY <1>6
<1> HIDE DEF u, g, f, c, o, t
<1>8. /\ IsWriter(u) /\ u.flags = a.flags /\ u.fd = a.fd /\ u.tmp = a.tmp
      /\ u.entry = a.entry /\ u.given = g /\ u.offset = o
      /\ u.fd_offset = f /\ u.filesize = a.filesize
  <2> DEFINE w == a
  <2>1. IsWriter(w) /\ u = [w EXCEPT !.offset = o, !.fd_offset = f, !.given = g, !.broke = c]
    BY <1>2, <1>3
  <2> HIDE DEF w
  <2>2. Given(u, w, o, f, g)
    BY <2>1, WriterWritten
  <2> QED
    BY <2>2 DEF w, Given
<1>9. Sized(u)
  BY <1>3, <1>4, <1>5, <1>8 DEF Sized
<1>10. Rewritten(y, disk, i, t)
  <2> HIDE DEF i
  <2> QED
    BY <1>3, DataAlike
<1>11. Alike(x, disk, i)
  BY <1>1, <1>3, <1>10, AlikeSelf DEF Rewritten
<1>12. u.tmp => x.node[u.fd].data = u.given
  <2>1. CASE m = 0
    BY <2>1, <1>1, <1>6, <1>8 DEF g
  <2>2. CASE m # 0
    BY <2>2, <1>1, <1>6, <1>7, <1>8, <1>10 DEF Rewritten
  <2> QED
    BY <2>1, <2>2
<1> HIDE DEF x
<1>13. Continued(x, u)
  BY <1>8, <1>9, <1>11, <1>12 DEF Continued
<1> QED
  BY <1>13 DEF x, u

LEMMA DataIs ==
  ASSUME WriteInv, NEW n \in 1..MaxBlock, Data(n) \/ DataFails(n)
  PROVE  /\ state = "data" /\ UNCHANGED <<fixup_list, state, count, old>>
         /\ Continued(disk', a') /\ (a.fd = 0 => disk' = disk)
<1>1. state = "data" /\ UNCHANGED <<fixup_list, state, count, old>>
  BY DEF Data, DataFails
<1>2. IsWriter(a) /\ Sized(a) /\ IsDisk(disk)
  BY <1>1 DEF WriteInv
<1>3. CASE UNCHANGED <<disk, a>>
  <2>1. Continued(disk, a)
    BY <1>2, AlikeSelf DEF Continued, WriteInv
  <2> QED
    BY <1>1, <1>3, <2>1
<1>4. ASSUME NEW off \in Offsets(n), NEW m, a.fd # 0,
             m = Clipped(n, off) \/ (m \in 0..(n - 1) /\ m < Clipped(n, off)),
             NEW more, Written(m, off, more)
      PROVE  Continued(disk', a')
  <2>1. n \in Nat /\ off \in Nat /\ (a.filesize < 0 \/ off <= a.filesize)
    BY <1>2, <1>4 DEF Offsets, Sized
  <2>2. m \in Nat /\ (a.filesize < 0 \/ off + m <= a.filesize)
    BY <1>2, <1>4, <2>1 DEF Clipped, Sized
  <2> QED
    BY <1>1, <1>4, <2>1, <2>2, WrittenIs
<1>5. CASE Data(n) /\ ~UNCHANGED <<disk, a>>
  <2>1. a.fd # 0 /\ \E off \in Offsets(n) : Written(Clipped(n, off), off, FALSE)
    BY <1>5 DEF Data
  <2> DEFINE no == FALSE
  <2>2. \E off \in Offsets(n) : Written(Clipped(n, off), off, no)
    BY <2>1, Zenon
  <2> HIDE DEF no
  <2>3. Continued(disk', a')
    BY <2>1, <2>2, <1>4
  <2> QED
    BY <1>1, <2>1, <2>3
<1>6. CASE DataFails(n)
  <2>1. a.fd # 0 /\ \E off \in Offsets(n), m \in 0..(n - 1) : m < Clipped(n, off) /\ Written(m, off, TRUE)
    BY <1>6 DEF DataFails
  <2> DEFINE yes == TRUE
  <2>2. \E off \in Offsets(n), m \in 0..(n - 1) : m < Clipped(n, off) /\ Written(m, off, yes)
    BY <2>1, Zenon
  <2> HIDE DEF yes
  <2>3. Continued(disk', a')
    BY <2>1, <2>2, <1>4
  <2> QED
    BY <1>1, <2>1, <2>3
<1> QED
  BY <1>3, <1>5, <1>6

-----------------------------------------------------------------------------
(* The close.                                                              *)

LEMMA AppliedAlike ==
  ASSUME NEW d, IsDisk(d), NEW f
  PROVE  Alike(Applied(d, f), d, 0)
<1> DEFINE i == d.at[f.path]
           t == f.mtime
           m == f.mode
           x == [d EXCEPT !.node[i].mtime = t]
           y == IF TIMES \in f.fix THEN x ELSE d
           z == [y EXCEPT !.node[i].mode = m]
           dull == Lookup(d, f.path) # "" \/ At(d, f.path).kind # f.kind
<1>1. Applied(d, f) = IF dull THEN d ELSE IF MODE \in f.fix THEN z ELSE y
  BY DEF Applied
<1> HIDE DEF i, t, m, dull
<1>2. Alike(d, d, 0)
  BY AlikeSelf
<1>3. Alike(x, d, 0)
  BY TimeAlike
<1> HIDE DEF x
<1>4. Alike(y, d, 0)
  BY <1>2, <1>3
<1> HIDE DEF y
<1>5. Alike(z, y, 0)
  <2>1. IsDisk(y)
    BY <1>4 DEF Alike
  <2> QED
    BY <2>1, ModeAlike
<1> HIDE DEF z
<1>6. Alike(z, d, 0)
  BY <1>4, <1>5, AlikeTransitive
<1> QED
  BY <1>1, <1>2, <1>4, <1>6

(* The fix-ups one after the other.                                        *)
FixUps(f, d, list, n) ==
  /\ FixedUp(d, list) = f[n] /\ f[0] = d
  /\ \A k \in 1..n : f[k] = Applied(f[k - 1], list[k])

LEMMA FixUpsFunction ==
  ASSUME NEW d, NEW list, NEW n \in Nat, n = Len(list)
  PROVE  \E f : FixUps(f, d, list, n)
<1> DEFINE F(f, k) == IF k = 0 THEN d ELSE Applied(f[k - 1], list[k])
           S == {m \in Nat : \E f : f = [k \in 0..m |-> F(f, k)]}
<1>1. 0 \in S
  <2> DEFINE f == [k \in 0..0 |-> d]
  <2>1. f = [k \in 0..0 |-> F(f, k)]
    OBVIOUS
  <2> QED
    BY <2>1
<1>2. ASSUME NEW m \in Nat, m \in S PROVE m + 1 \in S
  <2>1. PICK f : f = [k \in 0..m |-> F(f, k)]
    BY <1>2
  <2> DEFINE g == [k \in 0..(m + 1) |-> IF k = m + 1 THEN F(f, m + 1) ELSE f[k]]
  <2>2. ASSUME NEW k \in 0..(m + 1) PROVE g[k] = F(g, k)
    <3>1. k # 0 => k - 1 \in 0..m
      OBVIOUS
    <3>2. k # 0 => g[k - 1] = f[k - 1]
      BY <3>1
    <3>3. F(g, k) = F(f, k)
      BY <3>2
    <3>4. CASE k = m + 1
      BY <3>3, <3>4
    <3>5. CASE k # m + 1
      <4>1. k \in 0..m
        BY <3>5
      <4>2. f[k] = F(f, k)
        BY <4>1, <2>1
      <4> HIDE DEF F
      <4>3. g[k] = f[k]
        BY <3>5
      <4> QED
        BY <3>3, <4>2, <4>3
    <3> QED
      BY <3>4, <3>5
  <2> HIDE DEF F
  <2>3. g = [k \in 0..(m + 1) |-> g[k]]
    OBVIOUS
  <2>4. g = [k \in 0..(m + 1) |-> F(g, k)]
    <3> HIDE DEF g
    <3> QED
      BY <2>2, <2>3
  <2> HIDE DEF g
  <2> QED
    BY <2>4
<1> HIDE DEF F, S
<1>3. Nat \subseteq S
  BY <1>1, <1>2, SetInduction
<1>4. n \in S
  BY <1>3
<1> DEFINE f == CHOOSE f : f = [k \in 0..n |-> F(f, k)]
<1>5. f = [k \in 0..n |-> F(f, k)]
  BY <1>4, Zenon DEF S
<1>6. FixedUp(d, list) = f[n]
  BY Zenon DEF FixedUp, F
<1> HIDE DEF f
<1>7. f[0] = d
  BY <1>5 DEF F
<1>8. ASSUME NEW k \in 1..n
      PROVE  f[k] = Applied(f[k - 1], list[k])
  <2>1. k \in 0..n /\ k # 0
    OBVIOUS
  <2>2. f[k] = F(f, k)
    BY <2>1, <1>5, Zenon
  <2> QED
    BY <2>1, <2>2, Zenon DEF F
<1> QED
  BY <1>6, <1>7, <1>8 DEF FixUps

LEMMA SortedLength ==
  ASSUME NEW l, IsList(l)
  PROVE  Len(Sorted(l)) \in Nat
<1>1. PICK T : l \in Seq(T)
  BY DEF IsList
<1>2. PICK n \in Nat : DOMAIN l = 1..n
  BY <1>1
<1> DEFINE earlier(m, k) == \/ Before(l[k].path, l[m].path)
                            \/ l[k].path = l[m].path /\ m > k
           place(k) == 1 + Cardinality({m \in DOMAIN l : earlier(m, k)})
           E(k) == l[CHOOSE j \in DOMAIN l : place(j) = k]
           s == Sorted(l)
<1>3. s = [k \in DOMAIN l |-> E(k)]
  BY DEF Sorted
<1> HIDE DEF s, E
<1>4. s = [k \in 1..n |-> E(k)]
  BY <1>2, <1>3
<1>5. s = [k \in 1..n |-> s[k]]
  BY <1>4
<1> DEFINE U == {s[k] : k \in 1..n}
<1>6. s \in Seq(U)
  BY <1>5
<1> HIDE DEF U
<1> QED
  BY <1>6 DEF s

LEMMA FixedUpAlike ==
  ASSUME NEW d, IsDisk(d), NEW l, IsList(l)
  PROVE  Alike(FixedUp(d, Sorted(l)), d, 0)
<1> DEFINE list == Sorted(l)
           n == Len(list)
<1>1. n \in Nat
  BY SortedLength
<1> HIDE DEF list
<1>2. PICK f : FixUps(f, d, list, n)
  BY <1>1, FixUpsFunction
<1> HIDE DEF n
<1> DEFINE T == {k \in Nat : k <= n => Alike(f[k], d, 0)}
<1>3. 0 \in T
  BY <1>2, AlikeSelf DEF FixUps
<1>4. ASSUME NEW k \in Nat, k \in T PROVE k + 1 \in T
  <2>1. SUFFICES ASSUME k + 1 <= n PROVE Alike(f[k + 1], d, 0)
    OBVIOUS
  <2>2. k <= n /\ k + 1 \in 1..n /\ (k + 1) - 1 = k
    BY <2>1, <1>1
  <2>3. Alike(f[k], d, 0)
    BY <2>2, <1>4
  <2>4. f[k + 1] = Applied(f[k], list[k + 1])
    BY <2>2, <1>2 DEF FixUps
  <2>5. Alike(f[k + 1], f[k], 0)
    BY <2>3, <2>4, AppliedAlike DEF Alike
  <2> QED
    BY <2>3, <2>5, AlikeTransitive
<1> HIDE DEF T
<1>5. n \in T
  BY <1>1, <1>3, <1>4, SetInduction
<1>6. Alike(f[n], d, 0)
  BY <1>1, <1>5 DEF T
<1> QED
  BY <1>2, <1>6 DEF FixUps, list

-----------------------------------------------------------------------------
(* The steps.                                                              *)

LEMMA StandingNone ==
  ASSUME NEW d, IsDisk(d)
  PROVE  Standing(d, {})
<1> QED
  BY DEF Standing

(* The entry of an archive, with the time of its number.                   *)
Timed(e) == [e EXCEPT !.mtime = count + 1]

LEMMA TimedIs ==
  ASSUME NEW e \in Items
  PROVE  /\ Timed(e).path = e.path /\ Timed(e).path \in Paths
         /\ Timed(e).link = e.link /\ Timed(e).link \in Places
         /\ Timed(e).size = e.size /\ Timed(e).size \in Int /\ Timed(e).kind = e.kind
<1>1. e \in [path : Paths, kind : {"file", "dir"}, mode : SUBSET {"owner", "other"},
             size : Int, link : Places, mtime : Int]
  BY ItemsAssumption
<1> QED
  BY <1>1 DEF Timed

LEMMA HeaderIs ==
  ASSUME WriteInv, NEW S, Standing(AfterEntry.disk, S), NEW e \in Items,
         Spared([flags |-> a.flags, entry |-> Timed(e)], AfterEntry.disk, S), Header(e)
  PROVE  /\ Underway(disk', a', state', AfterEntry.disk, AfterEntry.w, Timed(e), S)
         /\ IsList(fixup_list') /\ old' = old /\ count' = count + 1
         /\ AfterEntry.w.flags = a.flags
<1> DEFINE b == AfterEntry
<1>1. IsList(fixup_list) /\ IsDisk(disk)
  BY DEF WriteInv
<1>2. Idle(b.w) /\ b.w.flags = a.flags
  BY <1>1, StandingNone, AfterIs DEF Ended
<1> DEFINE t == Timed(e)
<1>3. Enter(b, t) /\ old' = old /\ count' = count + 1
  BY DEF Header, Timed
<1>4. t.path \in Paths /\ t.link \in Places /\ t.size \in Int
  BY TimedIs
<1>5. Standing(b.disk, S) /\ Spared([flags |-> b.w.flags, entry |-> t], b.disk, S)
  BY <1>2
<1> HIDE DEF b, t
<1>6. Underway(disk', a', state', b.disk, b.w, t, S) /\ IsList(fixup_list')
  BY <1>1, <1>2, <1>3, <1>4, <1>5, EnterIs
<1> QED
  BY <1>2, <1>3, <1>6 DEF b, t

LEMMA InitWrite ==
  ASSUME Init
  PROVE  WriteInv
<1>1. PICK f \in FlagSets, u \in Umasks : a = Fresh(f, u)
  BY DEF Init
<1>2. Idle(a)
  BY <1>1, FreshIs
<1>3. disk \in [at : [Places -> Inodes \cup {0}], node : [Inodes -> Nodes]]
  BY DisksAssumption DEF Init
<1>4. \A j \in Inodes : IsNode(disk.node[j])
  <2>1. \A n \in Nodes : IsNode(n)
    BY DEF Nodes, IsNode
  <2> QED
    BY <1>3, <2>1
<1>5. IsDisk(disk)
  BY <1>3, <1>4 DEF IsDisk
<1>6. IsList(fixup_list) /\ count \in Nat /\ state = "header" /\ old = disk
  <2>1. fixup_list \in Seq({})
    BY DEF Init
  <2> QED
    BY <2>1 DEF Init, IsList
<1>7. a.fd = 0 /\ a.tmp = FALSE /\ IsWriter(a)
  BY <1>2 DEF Idle
<1>8. ~a.tmp /\ a.tmp \in BOOLEAN
  BY <1>7, Zenon
<1> QED
  BY <1>2, <1>5, <1>6, <1>7, <1>8 DEF WriteInv

LEMMA IdleIs ==
  ASSUME NEW w, Idle(w)
  PROVE  ~w.tmp /\ w.tmp \in BOOLEAN /\ w.fd = 0 /\ IsWriter(w)
<1>1. w.tmp = FALSE
  BY DEF Idle
<1>2. ~w.tmp /\ w.tmp \in BOOLEAN
  BY <1>1, Zenon
<1> QED
  BY <1>2 DEF Idle

LEMMA HeaderWrite ==
  ASSUME WriteInv, NEW e \in Items, Header(e)
  PROVE  WriteInv'
<1> DEFINE none == {}
<1>1. Standing(AfterEntry.disk, none)
  <2>1. IsDisk(disk)
    BY DEF WriteInv
  <2>2. IsDisk(AfterEntry.disk)
    BY <2>1, StandingNone, AfterIs DEF Ended
  <2> QED
    BY <2>2, StandingNone
<1>2. Spared([flags |-> a.flags, entry |-> Timed(e)], AfterEntry.disk, none)
  BY DEF Spared
<1> HIDE DEF none
<1>3. /\ Underway(disk', a', state', AfterEntry.disk, AfterEntry.w, Timed(e), none)
      /\ IsList(fixup_list') /\ old' = old /\ count' = count + 1
  BY <1>1, <1>2, HeaderIs
<1>4. IsDisk(disk')
  BY <1>3 DEF Underway, Touched, Same
<1>5. IsDisk(old') /\ count' \in Nat
  BY <1>3 DEF WriteInv
<1> QED
  BY <1>3, <1>4, <1>5 DEF Underway, WriteInv

LEMMA DataWrite ==
  ASSUME WriteInv, NEW n \in 1..MaxBlock, Data(n) \/ DataFails(n)
  PROVE  WriteInv'
<1>1. /\ state = "data" /\ UNCHANGED <<fixup_list, state, count, old>>
      /\ Continued(disk', a')
  BY DataIs
<1>2. IsDisk(disk') /\ IsDisk(old') /\ count' \in Nat /\ IsList(fixup_list') /\ state' = "data"
  BY <1>1 DEF Continued, Alike, WriteInv
<1>3. IsWriter(a') /\ Sized(a') /\ a'.fd \in Inodes \cup {0} /\ a'.tmp \in BOOLEAN
  BY <1>1 DEF Continued, WriteInv
<1>4. a'.tmp => /\ a'.fd # 0 /\ disk'.node[a'.fd].data = a'.given /\ "NO_OVERWRITE" \notin a'.flags
                /\ disk'.node[a'.fd].kind = "file"
  <2> SUFFICES ASSUME a'.tmp
               PROVE /\ a'.fd # 0 /\ disk'.node[a'.fd].data = a'.given /\ "NO_OVERWRITE" \notin a'.flags
                     /\ disk'.node[a'.fd].kind = "file"
    OBVIOUS
  <2>1. a.tmp /\ a'.fd = a.fd /\ a'.flags = a.flags /\ disk'.node[a'.fd].data = a'.given
    BY <1>1 DEF Continued
  <2>2. a.fd \in Inodes
    BY <2>1, WriterIs
  <2> QED
    BY <1>1, <2>1, <2>2 DEF Continued, Alike, WriteInv
<1> QED
  BY <1>2, <1>3, <1>4 DEF WriteInv

LEMMA FinishWrite ==
  ASSUME WriteInv, FinishEntry
  PROVE  WriteInv'
<1>1. IsDisk(disk)
  BY DEF WriteInv
<1>2. IsDisk(AfterEntry.disk) /\ Idle(AfterEntry.w)
  BY <1>1, StandingNone, AfterIs DEF Ended
<1>3. disk' = AfterEntry.disk /\ a' = AfterEntry.w /\ state' = "header"
      /\ UNCHANGED <<fixup_list, count, old>>
  BY DEF FinishEntry
<1>4. Idle(a') /\ IsDisk(disk')
  BY <1>2, <1>3
<1>5. ~a'.tmp /\ a'.tmp \in BOOLEAN /\ a'.fd = 0 /\ IsWriter(a')
  BY <1>4, IdleIs
<1> QED
  BY <1>3, <1>4, <1>5 DEF WriteInv

LEMMA CloseWrite ==
  ASSUME WriteInv, Close
  PROVE  WriteInv'
<1>1. IsDisk(disk) /\ IsList(fixup_list)
  BY DEF WriteInv
<1>2. IsDisk(AfterEntry.disk) /\ Idle(AfterEntry.w)
  BY <1>1, StandingNone, AfterIs DEF Ended
<1>3. disk' = FixedUp(AfterEntry.disk, Sorted(fixup_list)) /\ a' = AfterEntry.w
      /\ state' = "closed" /\ fixup_list' = <<>> /\ UNCHANGED <<count, old>>
  BY DEF Close
<1>4. Idle(a') /\ IsDisk(disk')
  BY <1>1, <1>2, <1>3, FixedUpAlike DEF Alike
<1>5. ~a'.tmp /\ a'.tmp \in BOOLEAN /\ a'.fd = 0 /\ IsWriter(a')
  BY <1>4, IdleIs
<1>6. IsList(fixup_list')
  <2>1. fixup_list' \in Seq({})
    BY <1>3
  <2> QED
    BY <2>1 DEF IsList
<1> QED
  BY <1>3, <1>4, <1>5, <1>6 DEF WriteInv

LEMMA StepWrite ==
  ASSUME WriteInv, [Next]_vars
  PROVE  WriteInv'
<1>1. CASE \E e \in Items : Header(e)
  BY <1>1, HeaderWrite
<1>2. CASE \E n \in 1..MaxBlock : Data(n)
  BY <1>2, DataWrite
<1>3. CASE \E n \in 1..MaxBlock : DataFails(n)
  BY <1>3, DataWrite
<1>4. CASE FinishEntry
  BY <1>4, FinishWrite
<1>5. CASE Close
  BY <1>5, CloseWrite
<1>6. CASE UNCHANGED vars
  BY <1>6 DEF vars, WriteInv
<1> QED
  BY <1>1, <1>2, <1>3, <1>4, <1>5, <1>6 DEF Next

(* Between the calls the struct holds what the calls rely on: the inode of *)
(* an open file, data within the size of the entry, and a temporary file   *)
(* that holds what was given for it.                                       *)
THEOREM WriterKept == Spec => []WriteInv
<1>1. Init => WriteInv
  BY InitWrite
<1>2. WriteInv /\ [Next]_vars => WriteInv'
  BY StepWrite
<1> QED
  BY <1>1, <1>2, PTL DEF Spec

-----------------------------------------------------------------------------
(* NO_OVERWRITE.                                                           *)

Guarded == "NO_OVERWRITE" \in a.flags /\ a.flags \cap {"UNLINK", "SAFE"} = {}

(* The archive has given the object a new name.                            *)
Linked(d, i) == \E q \in Paths : d.at[q] = i /\ old.at[q] = 0

KeptOn(d) ==
  \A p \in Paths : old.at[p] # 0 =>
    /\ d.at[p] = old.at[p] /\ d.node[old.at[p]].kind = old.node[old.at[p]].kind
    /\ d.node[old.at[p]].data = old.node[old.at[p]].data \/ Linked(d, old.at[p])

(* What is written to was not there, or has a new name.                    *)
Mine(d, i) ==
  i = 0 \/ (\A p \in Paths : old.at[p] # 0 => old.at[p] # i) \/ Linked(d, i)

KeptInv == Guarded => KeptOn(disk) /\ Mine(disk, a.fd)

(* The paths on a disk.                                                    *)
Present(d) == {p \in Paths : d.at[p] # 0}

LEMMA PresentStands ==
  ASSUME NEW d, IsDisk(d)
  PROVE  Standing(d, Present(d))
<1> QED
  BY DEF Standing, Present, Places

LEMMA KeptPresent ==
  ASSUME NEW d, KeptOn(d)
  PROVE  \A p \in Paths : old.at[p] # 0 => p \in Present(d) /\ d.at[p] = old.at[p]
<1> QED
  BY DEF KeptOn, Present

LEMMA LinkedStays ==
  ASSUME IsDisk(old), NEW d, NEW x, NEW i, Same(x, d, Present(d), i), NEW j, j # 0
  PROVE  Linked(d, j) => Linked(x, j)
<1> SUFFICES ASSUME Linked(d, j) PROVE Linked(x, j)
  OBVIOUS
<1>1. PICK q \in Paths : d.at[q] = j /\ old.at[q] = 0
  BY DEF Linked
<1>2. x.at[q] = d.at[q]
  BY <1>1 DEF Present, Same
<1> QED
  BY <1>1, <1>2 DEF Linked

LEMMA MineStays ==
  ASSUME IsDisk(old), NEW d, NEW x, NEW i, Same(x, d, Present(d), i), NEW j, Mine(d, j)
  PROVE  Mine(x, j)
<1> QED
  BY LinkedStays DEF Mine

LEMMA KeptStays ==
  ASSUME IsDisk(old), NEW d, IsDisk(d), KeptOn(d), NEW x, NEW i,
         Same(x, d, Present(d), i), Mine(x, i)
  PROVE  KeptOn(x)
<1> SUFFICES ASSUME NEW p \in Paths, old.at[p] # 0
             PROVE  /\ x.at[p] = old.at[p] /\ x.node[old.at[p]].kind = old.node[old.at[p]].kind
                    /\ \/ x.node[old.at[p]].data = old.node[old.at[p]].data
                       \/ Linked(x, old.at[p])
  BY DEF KeptOn
<1> DEFINE j == old.at[p]
<1>1. p \in Present(d) /\ d.at[p] = j /\ d.node[j].kind = old.node[j].kind
      /\ (d.node[j].data = old.node[j].data \/ Linked(d, j))
  BY KeptPresent DEF KeptOn
<1>2. x.at[p] = j /\ x.node[j].kind = d.node[j].kind /\ (j # i => x.node[j].data = d.node[j].data)
  BY <1>1 DEF Same
<1>3. Linked(d, j) => Linked(x, j)
  BY LinkedStays
<1>4. j = i => Linked(x, j)
  BY DEF Mine
<1> QED
  BY <1>1, <1>2, <1>3, <1>4

(* The end of an entry.                                                    *)
LEMMA KeptAfter ==
  ASSUME WriteInv, KeptInv, Guarded
  PROVE  /\ IsDisk(AfterEntry.disk) /\ KeptOn(AfterEntry.disk) /\ Idle(AfterEntry.w)
         /\ AfterEntry.w.flags = a.flags
<1> DEFINE S == Present(disk)
<1>1. IsDisk(disk) /\ IsDisk(old) /\ ~a.tmp
  BY DEF WriteInv, Guarded
<1>2. Ended(AfterEntry.disk, AfterEntry.w, S)
  BY <1>1, PresentStands, AfterIs
<1>3. Same(AfterEntry.disk, disk, S, a.fd)
  BY <1>1, <1>2 DEF Ended
<1>4. KeptOn(disk) /\ Mine(disk, a.fd)
  BY DEF KeptInv
<1>5. Mine(AfterEntry.disk, a.fd)
  BY <1>1, <1>3, <1>4, MineStays
<1>6. KeptOn(AfterEntry.disk)
  BY <1>1, <1>3, <1>4, <1>5, KeptStays
<1> QED
  BY <1>2, <1>6 DEF Ended

LEMMA MineNone ==
  ASSUME NEW d
  PROVE  Mine(d, 0)
<1> QED
  BY DEF Mine

LEMMA InitKept ==
  ASSUME Init
  PROVE  KeptInv
<1>1. disk = old
  BY DEF Init
<1>2. a.fd = 0
  <2>1. PICK f \in FlagSets, u \in Umasks : a = Fresh(f, u)
    BY DEF Init
  <2>2. Idle(a)
    BY <2>1, FreshIs
  <2> QED
    BY <2>2 DEF Idle
<1>3. KeptOn(disk)
  BY <1>1 DEF KeptOn
<1> QED
  BY <1>2, <1>3, MineNone DEF KeptInv

LEMMA HeaderKept ==
  ASSUME WriteInv, KeptInv, NEW e \in Items, Header(e)
  PROVE  KeptInv'
<1> DEFINE d == AfterEntry.disk
           S == Present(d)
           t == Timed(e)
<1>0. IsDisk(disk) /\ Standing(disk, {})
  BY StandingNone DEF WriteInv
<1>1. IsDisk(d) /\ AfterEntry.w.flags = a.flags
  BY <1>0, AfterIs DEF Ended
<1>2. IsDisk(old) /\ old' = old
  BY DEF WriteInv, Header
<1>3. SUFFICES ASSUME Guarded' PROVE KeptOn(disk)' /\ Mine(disk, a.fd)'
  BY DEF KeptInv
<1>4. a'.flags = a.flags
  <2> DEFINE none == {}
  <2>1. Standing(d, none)
    BY <1>1, StandingNone
  <2>2. Spared([flags |-> a.flags, entry |-> t], d, none)
    BY DEF Spared
  <2> HIDE DEF none
  <2>3. Underway(disk', a', state', d, AfterEntry.w, t, none)
    BY <2>1, <2>2, HeaderIs
  <2> QED
    BY <2>3, <1>1 DEF Underway
<1>5. Guarded
  BY <1>3, <1>4 DEF Guarded
<1>6. KeptOn(d)
  BY <1>5, KeptAfter
<1>7. Standing(d, S)
  BY <1>1, PresentStands
<1>8. Spared([flags |-> a.flags, entry |-> t], d, S)
  BY <1>5 DEF Spared, Guarded
<1>9. Underway(disk', a', state', d, AfterEntry.w, t, S)
  BY <1>7, <1>8, HeaderIs
<1>10. t.path \in Paths
  BY TimedIs
<1> DEFINE x == disk'
           u == a'
           st == state'
<1> HIDE DEF t, d, x, u, st
<1>11. PICK i : Touched(x, d, t, S, i) /\ (st = "data" => u.fd = i)
  BY <1>9 DEF Underway, x, u, st
<1>12. Same(x, d, S, i)
  BY <1>11 DEF Touched
<1>13. Mine(x, i)
  <2>1. CASE i = 0
    BY <2>1, MineNone
  <2>2. CASE \A q \in S : d.at[q] # i
    BY <2>2, <1>6, KeptPresent DEF Mine
  <2>3. CASE t.path \notin S /\ x.at[t.path] = i
    <3>1. old.at[t.path] = 0
      BY <2>3, <1>6, <1>10, KeptPresent
    <3> QED
      BY <3>1, <2>3, <1>10 DEF Linked, Mine
  <2> QED
    BY <2>1, <2>2, <2>3, <1>11 DEF Touched
<1>14. KeptOn(x)
  BY <1>1, <1>2, <1>6, <1>12, <1>13, KeptStays
<1>15. Mine(x, u.fd)
  <2>1. CASE st = "data"
    BY <2>1, <1>11, <1>13
  <2>2. CASE st # "data"
    <3>1. u.fd = 0
      BY <2>2, <1>9 DEF Underway, Idle, x, u, st
    <3> QED
      BY <3>1, MineNone
  <2> QED
    BY <2>1, <2>2
<1> QED
  BY <1>2, <1>14, <1>15 DEF KeptOn, Mine, Linked, x, u

LEMMA DataKept ==
  ASSUME WriteInv, KeptInv, NEW n \in 1..MaxBlock, Data(n) \/ DataFails(n)
  PROVE  KeptInv'
<1> DEFINE S == Present(disk)
           x == disk'
<1>1. old' = old /\ a'.flags = a.flags /\ a'.fd = a.fd /\ Alike(x, disk, a.fd)
  BY DataIs DEF Continued
<1>2. IsDisk(disk) /\ IsDisk(old)
  BY DEF WriteInv
<1>3. SUFFICES ASSUME Guarded' PROVE KeptOn(disk)' /\ Mine(disk, a.fd)'
  BY DEF KeptInv
<1>4. KeptOn(disk) /\ Mine(disk, a.fd)
  BY <1>1, <1>3 DEF Guarded, KeptInv
<1> HIDE DEF x
<1>5. Same(x, disk, S, a.fd)
  <2>1. Standing(disk, S) /\ Same(disk, disk, S, a.fd)
    BY <1>2, PresentStands, SameSelf
  <2> QED
    BY <2>1, <1>1, SameAlike
<1>6. Mine(x, a.fd)
  BY <1>2, <1>4, <1>5, MineStays
<1>7. KeptOn(x)
  BY <1>2, <1>4, <1>5, <1>6, KeptStays
<1> QED
  BY <1>1, <1>6, <1>7 DEF KeptOn, Mine, Linked, x

LEMMA FinishKept ==
  ASSUME WriteInv, KeptInv, FinishEntry
  PROVE  KeptInv'
<1> DEFINE x == disk'
<1>1. x = AfterEntry.disk /\ a' = AfterEntry.w /\ old' = old
  BY DEF FinishEntry
<1>2. IsDisk(disk) /\ Standing(disk, {})
  BY StandingNone DEF WriteInv
<1>3. AfterEntry.w.flags = a.flags /\ AfterEntry.w.fd = 0
  BY <1>2, AfterIs DEF Ended, Idle
<1>4. SUFFICES ASSUME Guarded' PROVE KeptOn(disk)' /\ Mine(disk, a.fd)'
  BY DEF KeptInv
<1>5. Guarded
  BY <1>1, <1>3, <1>4 DEF Guarded
<1>6. KeptOn(x)
  BY <1>1, <1>5, KeptAfter
<1> HIDE DEF x
<1>7. a'.fd = 0
  BY <1>1, <1>3
<1> QED
  BY <1>1, <1>6, <1>7 DEF KeptOn, Mine, Linked, x

LEMMA CloseKept ==
  ASSUME WriteInv, KeptInv, Close
  PROVE  KeptInv'
<1> DEFINE d == AfterEntry.disk
           x == disk'
           S == Present(d)
<1>1. x = FixedUp(d, Sorted(fixup_list)) /\ a' = AfterEntry.w /\ old' = old
  BY DEF Close
<1>2. IsDisk(disk) /\ Standing(disk, {}) /\ IsDisk(old) /\ IsList(fixup_list)
  BY StandingNone DEF WriteInv
<1>3. AfterEntry.w.flags = a.flags /\ AfterEntry.w.fd = 0
  BY <1>2, AfterIs DEF Ended, Idle
<1>4. SUFFICES ASSUME Guarded' PROVE KeptOn(disk)' /\ Mine(disk, a.fd)'
  BY DEF KeptInv
<1>5. Guarded
  BY <1>1, <1>3, <1>4 DEF Guarded
<1>6. KeptOn(d) /\ IsDisk(d)
  BY <1>5, KeptAfter
<1>7. a'.fd = 0
  BY <1>1, <1>3
<1> HIDE DEF x, d
<1>8. Alike(x, d, 0)
  BY <1>1, <1>2, <1>6, FixedUpAlike
<1>9. Same(x, d, S, 0)
  <2>1. Standing(d, S) /\ Same(d, d, S, 0)
    BY <1>6, PresentStands, SameSelf
  <2> QED
    BY <2>1, <1>8, SameAlike
<1>10. KeptOn(x)
  BY <1>2, <1>6, <1>9, MineNone, KeptStays
<1> QED
  BY <1>1, <1>7, <1>10 DEF KeptOn, Mine, Linked, x

LEMMA StepKept ==
  ASSUME WriteInv, KeptInv, [Next]_vars
  PROVE  KeptInv'
<1>1. CASE \E e \in Items : Header(e)
  BY <1>1, HeaderKept
<1>2. CASE \E n \in 1..MaxBlock : Data(n)
  BY <1>2, DataKept
<1>3. CASE \E n \in 1..MaxBlock : DataFails(n)
  BY <1>3, DataKept
<1>4. CASE FinishEntry
  BY <1>4, FinishKept
<1>5. CASE Close
  BY <1>5, CloseKept
<1>6. CASE UNCHANGED vars
  BY <1>6 DEF vars, KeptInv, Guarded, KeptOn, Mine, Linked
<1> QED
  BY <1>1, <1>2, <1>3, <1>4, <1>5, <1>6 DEF Next

LEMMA KeptIsKept ==
  ASSUME WriteInv, KeptInv
  PROVE  KeptAsTold
<1> SUFFICES ASSUME Guarded, NEW p \in Paths, old.at[p] # 0
             PROVE  /\ disk.at[p] = old.at[p] /\ At(disk, p).kind = At(old, p).kind
                    /\ \/ At(disk, p).data = At(old, p).data
                       \/ \E q \in Paths : disk.at[q] = old.at[p] /\ old.at[q] # old.at[p]
  BY DEF KeptAsTold, Guarded, Exists
<1>1. KeptOn(disk)
  BY DEF KeptInv
<1> QED
  BY <1>1 DEF KeptOn, Linked, At

(* With NO_OVERWRITE what was on disk stays, with its contents, whatever   *)
(* the archive has at its path, under it or above it, but for hard links   *)
(* with data (restore_entry, create_dir).                                  *)
THEOREM OldFilesKept == Spec => []KeptAsTold
<1>1. Init => WriteInv /\ KeptInv
  BY InitWrite, InitKept
<1>2. WriteInv /\ KeptInv /\ [Next]_vars => (WriteInv /\ KeptInv)'
  BY StepWrite, StepKept
<1>3. WriteInv /\ KeptInv => KeptAsTold
  BY KeptIsKept
<1> QED
  BY <1>1, <1>2, <1>3, PTL DEF Spec

-----------------------------------------------------------------------------
(* SAFE_WRITES.                                                            *)

(* A file at p that SAFE_WRITES looks after.                               *)
Safe(p) ==
  /\ "SAFE" \in a.flags /\ "UNLINK" \notin a.flags
  /\ disk.at[p] # 0 /\ disk.node[disk.at[p]].kind = "file" /\ disk.at[p] # a.fd

Still(x, p) == x.at[p] = disk.at[p] /\ x.node[disk.at[p]].data = disk.node[disk.at[p]].data

New(x, p) == /\ state = "data" /\ a.entry.path = p /\ a.fd # 0 /\ x.at[p] = a.fd
             /\ x.node[a.fd].data = Promised(a).data

(* A step is safe.                                                         *)
SafeAt(p) ==
  \/ disk'.at[p] = disk.at[p] /\ At(disk', p).data = At(disk, p).data
  \/ /\ state = "data" /\ a.entry.path = p /\ a.fd # 0 /\ disk'.at[p] = a.fd
     /\ a.broke \/ At(disk', p).data = Promised(a).data
  \/ \E e \in Items : Displacing(e, p) /\ Header(e)

LEMMA SafeIs ==
  ASSUME NEW p, Still(disk', p) \/ New(disk', p)
  PROVE  SafeAt(p)
<1> QED
  BY DEF SafeAt, Still, New, At

(* At the end of an entry it is the old file or all of the new one.        *)
LEMMA SafeAfter ==
  ASSUME WriteInv, NEW p \in Paths, Safe(p)
  PROVE  LET d == AfterEntry.disk
         IN  /\ Standing(d, {p}) /\ d.node[d.at[p]].kind = "file"
             /\ Still(d, p) \/ New(d, p)
<1> DEFINE d == AfterEntry.disk
           S == {p}
<1>1. Standing(disk, S)
  BY DEF Standing, WriteInv, Safe, Places
<1>2. Ended(d, AfterEntry.w, S) /\ (a.tmp => Replaced(d))
  BY <1>1, AfterIs
<1>3. IsDisk(d) /\ p \in Places
  BY <1>2 DEF Ended, Places
<1> HIDE DEF d
<1>4. CASE a.tmp /\ a.entry.path = p
  <2>1. Replaced(d) /\ state = "data" /\ a.fd \in Inodes
    BY <1>2, <1>4, WriterIs
  <2>2. d.at[p] = a.fd /\ d.at[p] # 0 /\ d.node[d.at[p]].kind = "file" /\ New(d, p)
    BY <2>1, <1>4, NoneInodes DEF Replaced, New
  <2>3. Standing(d, S)
    BY <2>2, <1>3 DEF Standing
  <2> QED
    BY <2>2, <2>3 DEF d
<1>5. CASE ~(a.tmp /\ a.entry.path = p)
  <2>1. Same(d, disk, S, a.fd)
    BY <1>2, <1>5 DEF Ended
  <2>2. d.at[p] = disk.at[p] /\ d.at[p] # 0 /\ d.node[d.at[p]].kind = "file" /\ Still(d, p)
    BY <2>1 DEF Same, Safe, Still
  <2>3. Standing(d, S)
    BY <2>2, <1>3 DEF Standing
  <2> QED
    BY <2>2, <2>3 DEF d
<1> QED
  BY <1>4, <1>5

(* A disk that is the same at p as one at the end of the entry.            *)
LEMMA SafeSame ==
  ASSUME NEW p, NEW d, Still(d, p) \/ New(d, p), NEW x, NEW i,
         Same(x, d, {p}, i), d.at[p] # i
  PROVE  Still(x, p) \/ New(x, p)
<1>1. x.at[p] = d.at[p] /\ x.node[d.at[p]].data = d.node[d.at[p]].data
  BY DEF Same
<1> QED
  BY <1>1 DEF Still, New

(* What an entry must not be to be kept away from p.                       *)
LEMMA NotDisplacing ==
  ASSUME NEW e \in Items, NEW p \in Paths, ~Displacing(e, p)
  PROVE  /\ e.link = <<>> \/ e.size <= 0
         /\ \A n \in 1..(Len(e.path) - 1) : SubSeq(e.path, 1, n) # p
         /\ e.path = p => e.kind = "file" /\ e.link = <<>>
<1>1. e.path \in Seq(Nat) /\ e.size \in Int /\ p \in Seq(Nat)
  BY ItemsAssumption, PathsAssumption
<1>2. e.link = <<>> \/ e.size <= 0
  BY <1>1 DEF Displacing
<1>3. IsPrefix(p, e.path) => e.path = p /\ e.kind = "file" /\ e.link = <<>>
  BY DEF Displacing
<1> DEFINE q == e.path
<1>4. ASSUME NEW n \in 1..(Len(q) - 1), SubSeq(q, 1, n) = p PROVE FALSE
  <2>1. q \in Seq(Nat)
    BY <1>1
  <2> HIDE DEF q
  <2>2. Len(p) = n /\ n \in Nat /\ n < Len(q)
    BY <2>1, <1>4
  <2>3. SubSeq(p, 1, n) = p
    BY <2>2, <1>1
  <2>4. SubSeq(p, 1, Len(p)) = SubSeq(q, 1, Len(p)) /\ Len(p) <= Len(q)
    BY <2>1, <2>2, <2>3, <1>4
  <2>5. IsPrefix(p, q) /\ q # p
    BY <2>2, <2>4 DEF IsPrefix
  <2> QED
    BY <2>5, <1>3 DEF q
<1>5. e.path = p => IsPrefix(p, e.path)
  BY <1>1 DEF IsPrefix
<1> QED
  BY <1>2, <1>3, <1>4, <1>5

LEMMA HeaderSafe ==
  ASSUME WriteInv, NEW p \in Paths, Safe(p), NEW e \in Items, Header(e)
  PROVE  SafeAt(p)
<1> DEFINE d == AfterEntry.disk
           S == {p}
           t == Timed(e)
<1>1. CASE Displacing(e, p)
  BY <1>1 DEF SafeAt
<1>2. CASE ~Displacing(e, p)
  <2>1. Standing(d, S) /\ d.node[d.at[p]].kind = "file" /\ (Still(d, p) \/ New(d, p))
    BY SafeAfter
  <2>2. /\ t.link = <<>> \/ t.size <= 0
        /\ \A n \in 1..(Len(t.path) - 1) : SubSeq(t.path, 1, n) # p
        /\ t.path = p => t.kind = "file" /\ t.link = <<>>
    BY <1>2, NotDisplacing, TimedIs
  <2>3. Spared([flags |-> a.flags, entry |-> t], d, S)
    <3> DEFINE f == a.flags
    <3> HIDE DEF t, d, f
    <3>1. "SAFE" \in f /\ "UNLINK" \notin f
      BY DEF Safe, f
    <3>2. Spared([flags |-> f, entry |-> t], d, S)
      BY <2>1, <2>2, <3>1 DEF Spared
    <3> QED
      BY <3>2 DEF f
  <2>4. Underway(disk', a', state', d, AfterEntry.w, t, S)
    BY <2>1, <2>3, HeaderIs
  <2> DEFINE x == disk'
  <2> HIDE DEF t, d, x
  <2>5. PICK i : Touched(x, d, t, S, i)
    BY <2>4 DEF Underway, x
  <2>6. Same(x, d, S, i) /\ d.at[p] # i
    BY <2>1, <2>2, <2>5 DEF Touched, Standing
  <2>7. Still(x, p) \/ New(x, p)
    BY <2>1, <2>6, SafeSame
  <2> QED
    BY <2>7, SafeIs DEF x
<1> QED
  BY <1>1, <1>2

LEMMA DataSafe ==
  ASSUME WriteInv, NEW p \in Paths, Safe(p), NEW n \in 1..MaxBlock, Data(n) \/ DataFails(n)
  PROVE  SafeAt(p)
<1>1. Alike(disk', disk, a.fd)
  BY DataIs DEF Continued
<1>2. disk.at[p] \in Inodes /\ disk.at[p] # a.fd
  BY DEF Safe, WriteInv, IsDisk, Places
<1>3. Still(disk', p)
  BY <1>1, <1>2 DEF Alike, Still
<1> QED
  BY <1>3, SafeIs

LEMMA CloseSafe ==
  ASSUME WriteInv, NEW p \in Paths, Safe(p), Close
  PROVE  SafeAt(p)
<1> DEFINE d == AfterEntry.disk
           x == disk'
<1>1. Standing(d, {p}) /\ (Still(d, p) \/ New(d, p))
  BY SafeAfter
<1>2. x = FixedUp(d, Sorted(fixup_list)) /\ IsList(fixup_list)
  BY DEF Close, WriteInv
<1> HIDE DEF x, d
<1>3. Alike(x, d, 0)
  BY <1>1, <1>2, FixedUpAlike DEF Standing
<1>4. Same(d, d, {p}, 0)
  BY <1>1, SameSelf
<1>5. Same(x, d, {p}, 0)
  BY <1>1, <1>3, <1>4, SameAlike
<1>6. Still(x, p) \/ New(x, p)
  BY <1>1, <1>5, SafeSame DEF Standing
<1> QED
  BY <1>6, SafeIs DEF x

LEMMA FinishSafe ==
  ASSUME WriteInv, NEW p \in Paths, Safe(p), FinishEntry
  PROVE  SafeAt(p)
<1>1. disk' = AfterEntry.disk
  BY DEF FinishEntry
<1>2. Still(disk', p) \/ New(disk', p)
  BY <1>1, SafeAfter
<1> QED
  BY <1>2, SafeIs

LEMMA StepSafe ==
  ASSUME WriteInv, [Next]_vars
  PROVE  [SafeStep]_vars
<1>1. CASE UNCHANGED vars
  BY <1>1
<1>2. ASSUME Next, NEW p \in Paths, Safe(p) PROVE SafeAt(p)
  <2>1. CASE \E e \in Items : Header(e)
    BY <2>1, <1>2, HeaderSafe
  <2>2. CASE \E n \in 1..MaxBlock : Data(n)
    BY <2>2, <1>2, DataSafe
  <2>3. CASE \E n \in 1..MaxBlock : DataFails(n)
    BY <2>3, <1>2, DataSafe
  <2>4. CASE FinishEntry
    BY <2>4, <1>2, FinishSafe
  <2>5. CASE Close
    BY <2>5, <1>2, CloseSafe
  <2> QED
    BY <1>2, <2>1, <2>2, <2>3, <2>4, <2>5 DEF Next
<1> QED
  BY <1>1, <1>2 DEF SafeStep, Safe, SafeAt, Exists, At

(* With SAFE_WRITES every step leaves the name of a regular file leading   *)
(* to the file it led to, with its contents, or to all of the new one      *)
(* (la_mktemp, _archive_write_disk_finish_entry).                          *)
THEOREM SafelyReplaced == Spec => SafeReplace
<1>1. Init => WriteInv
  BY InitWrite
<1>2. WriteInv /\ [Next]_vars => WriteInv'
  BY StepWrite
<1>3. WriteInv /\ [Next]_vars => [SafeStep]_vars
  BY StepSafe
<1> QED
  BY <1>1, <1>2, <1>3, PTL DEF Spec, SafeReplace

=============================================================================
