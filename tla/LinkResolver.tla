---------------------------- MODULE LinkResolver ----------------------------
(***************************************************************************)
(* The hard link resolver (archive_entry_link_resolver.c): a hash table of *)
(* doubly linked chains that remembers files with links yet to come, and   *)
(* the strategies of the formats for them.                                 *)
(*                                                                         *)
(* An entry is its name; the device and number of its file are one inode,  *)
(* 0 when they are not set.  A cell of the heap has the number of the      *)
(* entry it was made for, the buckets are numbered from 0.                 *)
(***************************************************************************)
EXTENDS Integers, Sequences, SequencesExt, FiniteSets

CONSTANTS
  Names,            \* the entries, numbers from 1
  Stats,            \* [inode, nlink] of each entry: its file and the links it says it has
  Hash,             \* Hash[i]: hash of an inode
  InitialBuckets,   \* links_cache_initial_size, a power of two
  Strategies,       \* "tar", "mtree", "old_cpio", "new_cpio"
  Word              \* numbers of an unsigned int

ASSUME NamesAssumption == IsFiniteSet(Names) /\ Names \subseteq Nat \ {0}
ASSUME TableAssumption == Word \in Nat \ {0} /\ InitialBuckets \in Nat \ {0}
ASSUME StatsAssumption ==
  /\ Stats \subseteq [inode : [Names -> Nat], nlink : [Names -> 0..(Word - 1)]]
  /\ \A s \in Stats, n \in Names : s.inode[n] # 0 => Hash[s.inode[n]] \in Nat

Nil == 0
NoName == 0
Cells == Names

VARIABLES
  strategy,
  stat,         \* the inode and nlink of the entries
  res,          \* the resolver: heap, buckets, the cell held back, number of entries
  given,        \* entries the resolver was given
  out,          \* history: the entries of each file that came back, in their order
  inexact,      \* history: files the resolver lost track of
  taken         \* history: clones that archive_entry_partial_links gave away

vars == <<strategy, stat, res, given, out, inexact, taken>>

Inode == stat.inode
Nlink == stat.nlink

Unused == [next |-> Nil, previous |-> Nil, canonical |-> NoName, entry |-> NoName,
           hash |-> 0, links |-> 0]

Init ==
  /\ strategy \in Strategies /\ stat \in Stats
  /\ res = [cell |-> [c \in Cells |-> Unused], buckets |-> [b \in 0..(InitialBuckets - 1) |-> Nil],
            spare |-> Nil, number_entries |-> 0, alive |-> TRUE]
  /\ given = {} /\ out = [i \in {Inode[n] : n \in Names} |-> <<>>]
  /\ inexact = {} /\ taken = {}

-----------------------------------------------------------------------------
(* The table.  Variants named ...Faulty are the code with one plausible    *)
(* slip; they are what the properties are tried against.                   *)

NumberBuckets(r) == Cardinality(DOMAIN r.buckets)

(* The cells from one on, at most so many as there are.                    *)
Chain(r, first) ==
  LET from[k \in 0..Cardinality(Cells)] ==
        [c \in Cells \cup {Nil} |->
           IF k = 0 \/ c = Nil THEN <<>> ELSE <<c>> \o from[k - 1][r.cell[c].next]]
  IN from[Cardinality(Cells)][first]

InTable(r) == UNION {ToSet(Chain(r, r.buckets[b])) : b \in DOMAIN r.buckets}

(* The entry that was held back goes with what it still has.               *)
FreeSpare(r) ==
  IF r.spare = Nil THEN r ELSE [r EXCEPT !.cell[r.spare] = Unused, !.spare = Nil]

(* Taking a cell out of its chain; it is freed by a later call.            *)
RemovedFaulty(r, b, c) ==
  LET next == r.cell[c].next   previous == r.cell[c].previous IN
  [r EXCEPT !.cell = [x \in Cells |->
                        IF x = previous THEN [r.cell[x] EXCEPT !.next = next] ELSE r.cell[x]],
            !.buckets[b] = IF @ = c THEN next ELSE @,
            !.number_entries = @ - 1, !.spare = c]

Removed(r, b, c) ==
  LET next == r.cell[c].next   previous == r.cell[c].previous IN
  [r EXCEPT !.cell = [x \in Cells |->
                        CASE x = previous -> [r.cell[x] EXCEPT !.next = next]
                          [] x = next     -> [r.cell[x] EXCEPT !.previous = previous]
                          [] OTHER        -> r.cell[x]],
            !.buckets[b] = IF @ = c THEN next ELSE @,
            !.number_entries = @ - 1, !.spare = c]

Pushed(r, b, c) ==
  LET first == r.buckets[b] IN
  [r EXCEPT !.cell = [x \in Cells |->
                        CASE x = c     -> [r.cell[x] EXCEPT !.next = first, !.previous = Nil]
                          [] x = first -> [r.cell[x] EXCEPT !.previous = c]
                          [] OTHER     -> r.cell[x]],
            !.buckets[b] = c]

(* A search: the resolver after it and the cell found, or Nil.             *)
Find(r0, n) ==
  LET r == FreeSpare(r0)
      b == Hash[Inode[n]] % NumberBuckets(r)
      found == SelectInSeq(Chain(r, r.buckets[b]),
                           LAMBDA c : r.cell[c].hash = Hash[Inode[n]]
                                      /\ Inode[r.cell[c].canonical] = Inode[n])
      c == Chain(r, r.buckets[b])[found]
      seen == [r EXCEPT !.cell[c].links = (@ - 1) % Word]
  IN IF Inode[n] = 0 THEN [r |-> r0, c |-> Nil]
     ELSE IF found = 0 THEN [r |-> r, c |-> Nil]
     ELSE [r |-> IF seen.cell[c].links > 0 THEN seen ELSE Removed(seen, b, c), c |-> c]

(* The cells of a chain are moved one by one to the front of theirs.       *)
Rehashed(r, chain) ==
  LET moved[k \in 0..Len(chain)] ==
        IF k = 0 THEN r
        ELSE Pushed(moved[k - 1], r.cell[chain[k]].hash % NumberBuckets(r), chain[k])
  IN moved[Len(chain)]

Grow(r) ==
  LET size == NumberBuckets(r)
      moved[b \in 0..size] ==
        IF b = 0 THEN [r EXCEPT !.buckets = [x \in 0..(2 * size - 1) |-> Nil]]
        ELSE Rehashed(moved[b - 1], Chain(r, r.buckets[b - 1]))
  IN moved[size]

Full(r) == r.number_entries \div 2 > NumberBuckets(r)

(* The table grows, unless there is no memory for it.                      *)
Insert(r0, n, grows) ==
  LET r == IF Full(r0) /\ grows THEN Grow(r0) ELSE r0
      new == [Unused EXCEPT !.canonical = n, !.hash = Hash[Inode[n]],
                            !.links = (Nlink[n] - 1) % Word]
      b == Hash[Inode[n]] % NumberBuckets(r)
  IN [Pushed([r EXCEPT !.cell[n] = new], b, n) EXCEPT !.number_entries = @ + 1]

(* next_entry takes out the first cell that is of a kind asked for.        *)
Kind(le) == IF le.entry # NoName THEN "deferred" ELSE "partial"

NextEntry(r0, mode) ==
  LET r == FreeSpare(r0)
      found(b) == SelectInSeq(Chain(r, r.buckets[b]), LAMBDA c : Kind(r.cell[c]) \in mode)
      some == {b \in DOMAIN r.buckets : found(b) # 0}
      b == Min(some)
      c == Chain(r, r.buckets[b])[found(b)]
  IN IF some = {} THEN [r |-> r, c |-> Nil] ELSE [r |-> Removed(r, b, c), c |-> c]

-----------------------------------------------------------------------------
(* archive_entry_linkify and archive_entry_partial_links                   *)

Plain(n) == [name |-> n, hardlink |-> NoName, body |-> TRUE]
LinkTo(n, canonical) ==
  [name |-> n, hardlink |-> canonical, body |-> strategy = "mtree"]

Given(n) == res.alive /\ n \in Names \ given /\ given' = given \cup {n}
Emit(entries) == out' = [out EXCEPT ![Inode[entries[1].name]] = @ \o entries]

(* One link, or a format that wants each entry with its data.              *)
PassesThrough(n) ==
  /\ Given(n) /\ (Nlink[n] = 1 \/ strategy = "old_cpio")
  /\ Emit(<<Plain(n)>>)
  /\ UNCHANGED <<strategy, stat, res, inexact, taken>>

Resolved(n) == Given(n) /\ Nlink[n] # 1 /\ strategy # "old_cpio"

(* The first of the links has the data, the others refer to it.            *)
RefersBack(n) ==
  /\ Resolved(n) /\ strategy \in {"tar", "mtree"}
  /\ LET f == Find(res, n) IN
     /\ f.c # Nil
     /\ res' = f.r /\ Emit(<<LinkTo(n, f.r.cell[f.c].canonical)>>)
  /\ UNCHANGED <<strategy, stat, inexact, taken>>

(* The entry tucked away comes out as a link; the new one takes its place, *)
(* and comes out with the data when it is the last.                        *)
SwapsFaulty(le, n) ==
  IF le.links = 0 THEN <<LinkTo(n, le.canonical), Plain(le.entry)>>
  ELSE <<LinkTo(n, le.canonical)>>

Swaps(le, n) ==
  IF le.links = 0 THEN <<LinkTo(le.entry, le.canonical), Plain(n)>>
  ELSE <<LinkTo(le.entry, le.canonical)>>

TakesPlace(n) ==
  /\ Resolved(n) /\ strategy = "new_cpio"
  /\ LET f == Find(res, n)   le == f.r.cell[f.c] IN
     /\ f.c # Nil
     /\ Emit(Swaps(le, n))
     /\ res' = [f.r EXCEPT !.cell[f.c].entry = IF le.links = 0 THEN NoName ELSE n]
  /\ UNCHANGED <<strategy, stat, inexact, taken>>

Remembered(n) ==
  /\ Resolved(n)
  /\ LET f == Find(res, n) IN
     /\ f.c = Nil /\ Inode[n] # 0
     /\ \E grows \in {TRUE, ~Full(f.r)} :
          LET i == Insert(f.r, n, grows) IN
          IF strategy = "new_cpio"
          THEN res' = [i EXCEPT !.cell[n].entry = n] /\ UNCHANGED out
          ELSE res' = i /\ Emit(<<Plain(n)>>)
  /\ UNCHANGED <<strategy, stat, inexact, taken>>

(* No number of the file, or no memory: the entry goes as it came.         *)
NotRemembered(n) ==
  /\ Resolved(n)
  /\ LET f == Find(res, n) IN f.c = Nil /\ res' = f.r
  /\ Emit(<<Plain(n)>>)
  /\ inexact' = inexact \cup {Inode[n]}
  /\ UNCHANGED <<strategy, stat, taken>>

Drain ==
  /\ res.alive
  /\ LET x == NextEntry(res, {"deferred"}) IN
     IF x.c = Nil THEN res' = x.r /\ UNCHANGED <<out, inexact>>
     ELSE /\ res' = [x.r EXCEPT !.cell[x.c].entry = NoName]
          /\ Emit(<<Plain(x.r.cell[x.c].entry)>>)
          /\ inexact' = inexact \cup {Inode[x.r.cell[x.c].canonical]}
  /\ UNCHANGED <<strategy, stat, given, taken>>

(* The clone goes to the client, which frees it.                           *)
HandsOverFaulty(r, c) == r
HandsOver(r, c) == [r EXCEPT !.cell[c].canonical = NoName]

PartialLinks ==
  /\ res.alive
  /\ LET x == NextEntry(FreeSpare(res), {"partial"}) IN
     IF x.c = Nil THEN res' = x.r /\ UNCHANGED <<inexact, taken>>
     ELSE /\ res' = HandsOver(x.r, x.c)
          /\ taken' = taken \cup {x.r.cell[x.c].canonical}
          /\ inexact' = inexact \cup {Inode[x.r.cell[x.c].canonical]}
  /\ UNCHANGED <<strategy, stat, given, out>>

(* archive_entry_linkresolver_free: entry by entry until none is left.     *)
Emptied(r) ==
  LET left[k \in 0..Cardinality(Cells)] ==
        IF k = 0 THEN r ELSE NextEntry(left[k - 1], {"deferred", "partial"}).r
  IN FreeSpare(left[Cardinality(Cells)])

Free ==
  /\ res.alive
  /\ res' = [Emptied(res) EXCEPT !.alive = FALSE]
  /\ UNCHANGED <<strategy, stat, given, out, inexact, taken>>

Next ==
  \/ \E n \in Names : \/ PassesThrough(n) \/ RefersBack(n) \/ TakesPlace(n)
                      \/ Remembered(n) \/ NotRemembered(n)
  \/ Drain \/ PartialLinks \/ Free

Spec == Init /\ [][Next]_vars

-----------------------------------------------------------------------------
(* After any order of insertions, removals and growths each remembered     *)
(* file is in the bucket of its hash once, the chains lead back the way    *)
(* they lead on and to no freed cell, and the count is right; the free     *)
(* finds every cell (find_entry, next_entry, insert_entry, grow_hash).     *)
TableSound ==
  /\ \A b \in DOMAIN res.buckets :
       LET chain == Chain(res, res.buckets[b]) IN
       \A k \in DOMAIN chain :
         LET le == res.cell[chain[k]] IN
         /\ le.previous = IF k = 1 THEN Nil ELSE chain[k - 1]
         /\ le.canonical # NoName /\ le.hash = Hash[Inode[le.canonical]]
         /\ le.hash % NumberBuckets(res) = b
  /\ \A c, e \in InTable(res) :
       Inode[res.cell[c].canonical] = Inode[res.cell[e].canonical] => c = e
  /\ res.number_entries = Cardinality(InTable(res))
  /\ \A c \in Cells : res.cell[c] # Unused => c \in InTable(res) \cup {res.spare}
  /\ res.spare \notin InTable(res)
  /\ ~res.alive => res.cell = [c \in Cells |-> Unused]

-----------------------------------------------------------------------------
(* The links that are to come of a file the resolver kept track of.        *)
Of(i, names) == {n \in names : Inode[n] = i}
Tracked(i) == i \notin inexact /\ \A n \in Of(i, Names) : Nlink[n] >= Cardinality(Of(i, Names))
Held == {res.cell[c].entry : c \in Cells} \ {NoName}
CameBack(i) == {out[i][k].name : k \in DOMAIN out[i]}

(* What a cell has it frees when it goes: a clone the client was not given *)
(* and no other cell has, an entry that did not come back and is tucked    *)
(* away once (find_entry, next_entry, archive_entry_partial_links; the     *)
(* client frees what it got).                                              *)
FreedOnce ==
  \A c \in Cells :
    LET le == res.cell[c] IN
    /\ le.canonical # NoName => le.canonical \notin taken
    /\ le.entry # NoName => le.entry \notin CameBack(Inode[le.entry])
    /\ \A e \in Cells \ {c} :
         /\ le.canonical # NoName => res.cell[e].canonical # le.canonical
         /\ le.entry # NoName => res.cell[e].entry # le.entry

(* Every entry that was given came back once or is still held; a hard link *)
(* names an entry of the same file; with cpio the last entry of a file has *)
(* its data, with tar the first, which comes before those that name it;    *)
(* and a file that was tracked has it once, with the number of missing     *)
(* links right (archive_entry_linkify, archive_entry_partial_links).       *)
LinksResolved ==
  \A i \in DOMAIN out :
    LET came == out[i]   held == Of(i, Held)   owed == Of(i, given) IN
    /\ res.alive => owed = held \cup CameBack(i)
    /\ Len(came) + Cardinality(held) <= Cardinality(owed)
    /\ i # 0 => \A k \in DOMAIN came :
         came[k].hardlink # NoName =>
           /\ Inode[came[k].hardlink] = i
           /\ strategy # "new_cpio" => \E j \in 1..(k - 1) : came[j] = Plain(came[k].hardlink)
    /\ strategy = "new_cpio" /\ came # <<>> /\ res.alive => Last(came).body \/ held # {}
    /\ i # 0 /\ strategy \in {"tar", "new_cpio"} /\ Tracked(i) =>
         \A j, k \in DOMAIN came : came[j].body /\ came[k].body => j = k
    /\ \A c \in InTable(res) :
         Inode[res.cell[c].canonical] = i /\ Tracked(i) =>
           res.cell[c].links = (Nlink[c] - Cardinality(owed)) % Word
=============================================================================
