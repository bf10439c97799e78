--------------------------- MODULE ReadDiskProofs ---------------------------
(***************************************************************************)
(* Proofs about ReadDisk: the walk of a tree and the data of its files.    *)
(*                                                                         *)
(* The invariant describes the stack of struct tree as it is between two   *)
(* steps: which directory an entry leads to, which of them were entered    *)
(* and which is read, the way back of each and the place of its name in    *)
(* the path, whatever others remove, make or resize meanwhile.  It needs   *)
(* every directory to stay where it is, so the theorems assume that none   *)
(* is moved or replaced by a link (Movable is empty).                      *)
(***************************************************************************)
EXTENDS ReadDisk, SequenceTheorems, FiniteSetTheorems, WellFoundedInduction, TLAPS

MaybeNode == Nodes \cup {Nothing}

EntryType ==
  [name : Nodes, parent : Nat, ino : MaybeNode, link : BOOLEAN,
   needs : SUBSET {"visit", "descent", "open", "ascent"}, dirname_length : Nat,
   symlink_parent : MaybeNode, time : MaybeNode]

TreeType ==
  [stack : Seq(EntryType), current : Nat, d : [on : BOOLEAN, left : SUBSET Nodes],
   visit : {"none", "regular", "error", "fatal", "postdescent", "postascent"},
   path : Seq(Nodes), dirname_length : Nat, depth : Int, working_dir : MaybeNode,
   lst : MaybeNode, st : MaybeNode, descend : BOOLEAN, time : MaybeNode,
   symlink_mode : {"P", "L", "H"}, restore : BOOLEAN]

RegionType == [offset : Nat, length : Nat]

DataType ==
  [fd : MaybeNode, pos : Nat, list : Seq(RegionType), cur : Nat, total : Nat, remaining : Int,
   eof : BOOLEAN, size : Nat, got : SUBSET [at : Nat, byte : Nat]]

CallType ==
  [state : {"header", "data", "eof", "fatal", "closed"}, pc : {"out", "next", "visit"},
   delayed : BOOLEAN, reply : {"ok", "warn", "failed", "fatal", "eof"}]

Types ==
  /\ disk \in DiskType /\ atime \in [Nodes -> MaybeNode] /\ t \in TreeType /\ fds \in Int
  /\ a \in CallType /\ entry \in DataType /\ changed \in SUBSET Nodes

-----------------------------------------------------------------------------
(* The stack.  A directory is entered from its descent on, the initial     *)
(* path counts as entered.                                                 *)

Whole == {"descent", "open", "ascent"}
Entered(w, k) == "descent" \notin w.stack[k].needs
Dir(w, k) == IF k <= 1 THEN Cwd ELSE w.stack[k].ino

(* The initial path is at the bottom of the stack.                         *)
Bottom(w) ==
  Len(w.stack) >= 1 =>
    LET e == w.stack[1] IN
    /\ e.needs \in {{"visit"}, {}} /\ e.parent = 0 /\ e.ino = Nothing
    /\ e.symlink_parent = Nothing /\ e.dirname_length = 0

(* An entry above it.  Its parent is the last entry below it that was      *)
(* entered; the way back from a link is kept from the descent on; and the  *)
(* names of what was entered are in the path, each at its place.           *)
Linked(w, k) ==
  LET e == w.stack[k] IN
  /\ e.needs \in {Whole, {"open", "ascent"}, {"ascent"}}
  /\ e.parent \in 1..(k - 1) /\ Entered(w, e.parent)
  /\ \A j \in (e.parent + 1)..(k - 1) : ~Entered(w, j)
  /\ e.needs = {"open", "ascent"} => k = w.current /\ k = Len(w.stack)
  /\ e.symlink_parent = IF Entered(w, k) /\ e.link THEN Dir(w, e.parent) ELSE Nothing
  /\ e.dirname_length = IF e.parent <= 1 THEN 0 ELSE w.stack[e.parent].dirname_length + 1
  /\ \A j \in 2..(k - 1) : Entered(w, j) => w.stack[j].dirname_length < e.dirname_length
  /\ Entered(w, k) => /\ e.dirname_length < w.dirname_length
                      /\ w.path[e.dirname_length + 1] = e.name

(* The directory that is read is the last one entered, and the walk works  *)
(* there.                                                                  *)
Current(w) ==
  /\ Len(w.stack) = 0 => w.current = 0
  /\ Len(w.stack) >= 1 /\ "visit" \in w.stack[1].needs => Len(w.stack) = 1 /\ w.current = 0
  /\ Len(w.stack) >= 1 /\ "visit" \notin w.stack[1].needs =>
       /\ w.current \in 1..Len(w.stack) /\ Entered(w, w.current)
       /\ \A j \in (w.current + 1)..Len(w.stack) : ~Entered(w, j)
  /\ w.d.on => w.current >= 2 /\ w.stack[w.current].needs = {"ascent"}
  /\ w.working_dir = Dir(w, w.current)
  /\ w.dirname_length = IF w.current <= 1 THEN 0 ELSE w.stack[w.current].dirname_length + 1
  /\ w.dirname_length <= Len(w.path)

Shape(w) == Bottom(w) /\ Current(w) /\ \A k \in 2..Len(w.stack) : Linked(w, k)

-----------------------------------------------------------------------------
(* The stack and the disk.  What is gone does not come back.               *)

Gone(n) == disk.kind[n] = "none" /\ n \in changed

(* The name leads from the directory to the directory i, or nowhere.       *)
LeadsTo(name, dir, i) ==
  /\ disk.up[name] = dir
  /\ \/ Gone(name)
     \/ name = i /\ disk.kind[i] = "dir"
     \/ disk.kind[name] = "link" /\ disk.to[name] = i /\ i # Nothing
        /\ (disk.kind[i] = "dir" \/ Gone(i))

Placed(w) ==
  \A k \in 2..Len(w.stack) :
    LET e == w.stack[k] IN
    /\ LeadsTo(e.name, Dir(w, e.parent), e.ino)
    /\ e.ino = Nothing => Gone(e.name) /\ ~Entered(w, k)
    /\ Entered(w, k) => /\ disk.kind[e.ino] = "dir" \/ Gone(e.ino)
                        /\ e.name = e.ino \/ disk.to[e.name] = e.ino
    /\ e.name # e.ino => e.link
    /\ ~e.link => e.parent >= 2

(* A link is not followed to a directory above the one it was found in.    *)
NoCircle(w) ==
  \A k \in 2..Len(w.stack) :
    LET e == w.stack[k] IN
    e.name # e.ino /\ (Entered(w, k) \/ ~Gone(e.name)) =>
      \A j \in 2..(e.parent - 1) : Entered(w, j) => w.stack[j].ino # e.ino

(* What the walk is about to look at, or the client may descend into.      *)
Open(w, pc) == w.visit = "regular" /\ (pc = "visit" \/ w.descend)
Chosen(w) == IF IsDirectory(w.lst) THEN w.lst ELSE w.st

Visiting(w, pc) ==
  /\ pc # "out" => ~w.descend
  /\ pc = "visit" => w.visit = "regular"
  /\ w.d.on => \A n \in w.d.left : disk.up[n] = w.working_dir /\ (disk.kind[n] # "none" \/ Gone(n))
  /\ Open(w, pc) =>
       /\ w.d.on \/ (w.current = 1 /\ Len(w.stack) = 1)
       /\ Len(w.path) = w.dirname_length + 1
       /\ w.d.on => /\ disk.up[Last(w.path)] = w.working_dir
                    /\ disk.kind[Last(w.path)] # "none" \/ Gone(Last(w.path))

Descendable(w) ==
  w.visit = "regular" /\ w.descend =>
    /\ w.lst = Last(w.path)
    /\ LeadsTo(w.lst, w.working_dir, Chosen(w))
    /\ Chosen(w) = Nothing => Gone(w.lst)
    /\ IsDirectory(w.lst) => w.st \in {Nothing, w.lst}
    /\ w.lst # Chosen(w) /\ ~Gone(w.lst) =>
         \A j \in 2..(w.current - 1) : Entered(w, j) => w.stack[j].ino # Chosen(w)

-----------------------------------------------------------------------------
(* The calls, the data of the entry and what is to be put back.            *)


(* Its data is of the object that was found under the path, still there or *)
(* not, and its time was taken from it.                                    *)
Described(w) ==
  /\ a.pc # "out" \/ a.state \notin {"data", "fatal"} => entry = NoFile
  /\ entry.size = 0 => entry.fd = Nothing /\ entry.eof
  /\ entry.size > 0 =>
       LET s == Subject(w)   n == Last(w.path) IN
       /\ s # Nothing /\ w.path # <<>>
       /\ disk.kind[s] = "file" \/ Gone(s)
       /\ Gone(n) \/ n = s \/ (disk.kind[n] = "link" /\ disk.to[n] = s)
       /\ s \notin changed => disk.size[s] = entry.size
       /\ entry.eof /\ s \notin changed => entry.total = entry.size
       /\ entry.fd \in {Nothing, s}
       /\ w.restore => w.time = s

(* Reading stands in the current region or before it.                      *)
Sound(e) ==
  e.size > 0 =>
    LET n == Len(e.list) IN
    /\ e.cur \in 1..n /\ e.total <= e.size /\ e.remaining = e.size - e.total
    /\ e.fd # Nothing => e.pos = e.total
    /\ e.fd = Nothing /\ ~e.eof /\ a.state # "fatal" => e.total = 0
    /\ \A g \in e.got : g.at = g.byte
    /\ \A k \in 1..(e.cur - 1) : e.list[k].length = 0
    /\ ~e.eof => e.list[e.cur].offset >= e.total
    /\ \A k \in e.cur..(n - 1) : e.list[k].offset + e.list[k].length <= e.list[k + 1].offset
    /\ \A k \in e.cur..n : e.list[k].offset + e.list[k].length <= e.size
    /\ e.list[n].offset + e.list[n].length = e.size

(* An object has its time, or it is open or below an entry that has it.    *)
Owed(w, n) == \E k \in 2..Len(w.stack) : Entered(w, k) /\ w.stack[k].ino = n

Untouched(w) == \A n \in Nodes : atime[n] = n \/ entry.fd = n \/ Owed(w, n)

Dated(w) ==
  \A k \in 2..Len(w.stack) :
    LET e == w.stack[k] IN
    e.ino # Nothing =>
      e.time = e.ino \/ \E j \in 2..(k - 1) : Entered(w, j) /\ w.stack[j].ino = e.ino

Remembered(w) ==
  w.visit = "regular" /\ w.descend /\ Chosen(w) # Nothing =>
    w.time = Chosen(w) \/ Owed(w, Chosen(w))

Timed(w) == Untouched(w) /\ Dated(w) /\ Remembered(w)

Alive == t # Closed /\ a.state # "fatal"

Held ==
  /\ fds = IF t = Closed THEN 0 ELSE Descriptors + (IF entry.fd # Nothing THEN 1 ELSE 0)
  /\ t # Closed => t.working_dir # Nothing
  /\ t = Closed => a.state \in {"closed", "fatal"} /\ a.pc = "out"
  /\ a.state = "closed" => t = Closed
  /\ a.state = "eof" => a.pc = "out" /\ t.stack = <<>>
  /\ a.state = "fatal" => a.pc = "out"

(* No link is on the way three times.                                      *)
TimesFollowed(w, link) ==
  {k \in DOMAIN w.stack : /\ w.stack[k].symlink_parent # Nothing
                          /\ w.stack[k].name = link /\ w.stack[k].ino # link}

FollowedTwice == \A link \in Nodes : Cardinality(TimesFollowed(t, link)) <= 2

Walking ==
  /\ Shape(t) /\ Placed(t) /\ NoCircle(t) /\ Visiting(t, a.pc) /\ Descendable(t)
  /\ t.restore => Timed(t)

IInv ==
  /\ Types /\ Housed(disk) /\ Held /\ Described(t) /\ Sound(entry) /\ FollowedTwice
  /\ Alive => Walking

-----------------------------------------------------------------------------
(* What the operations on struct tree do to it.                            *)

(* The stack x is the stack w or a lower part of it.                       *)
Below(x, w) ==
  /\ Len(x.stack) <= Len(w.stack)
  /\ \A k \in 1..Len(x.stack) :
       /\ x.stack[k].name = w.stack[k].name /\ x.stack[k].parent = w.stack[k].parent
       /\ x.stack[k].ino = w.stack[k].ino /\ x.stack[k].link = w.stack[k].link
       /\ x.stack[k].time = w.stack[k].time
       /\ x.stack[k].symlink_parent = w.stack[k].symlink_parent
       /\ Entered(x, k) <=> Entered(w, k)

Same(w, x) ==
  /\ w.d = x.d /\ w.visit = x.visit /\ w.depth = x.depth /\ w.working_dir = x.working_dir
  /\ w.lst = x.lst /\ w.st = x.st /\ w.descend = x.descend /\ w.time = x.time
  /\ w.symlink_mode = x.symlink_mode /\ w.restore = x.restore

(* The first entries of a sequence.                                        *)
LEMMA Prefix ==
  ASSUME NEW S, NEW s \in Seq(S), NEW n \in Nat, n <= Len(s)
  PROVE  /\ SubSeq(s, 1, n) \in Seq(S) /\ Len(SubSeq(s, 1, n)) = n
         /\ \A i \in 1..n : SubSeq(s, 1, n)[i] = s[i]
<1>1. \A i \in 1..n : s[i] \in S
  OBVIOUS
<1> QED
  BY <1>1, SubSeqProperties

(* tree_append puts a name behind the directory part of the path.          *)
LEMMA Appended ==
  ASSUME NEW w \in TreeType, w.dirname_length <= Len(w.path), NEW name \in Nodes
  PROVE  LET x == Append1(w, name) IN
         /\ x \in TreeType /\ Same(x, w)
         /\ x.stack = w.stack /\ x.current = w.current /\ x.dirname_length = w.dirname_length
         /\ Len(x.path) = w.dirname_length + 1 /\ x.path[w.dirname_length + 1] = name
         /\ \A i \in 1..w.dirname_length : x.path[i] = w.path[i]
<1> DEFINE p == SubSeq(w.path, 1, w.dirname_length)
           x == Append1(w, name)
<1>1. /\ w.path \in Seq(Nodes) /\ w.dirname_length \in Nat
  BY DEF TreeType
<1>2. /\ p \in Seq(Nodes) /\ Len(p) = w.dirname_length
      /\ \A i \in 1..w.dirname_length : p[i] = w.path[i]
  BY <1>1, Prefix
<1>3. x = [w EXCEPT !.path = Append(p, name)]
  BY DEF Append1
<1>4. x.path = Append(p, name) /\ x.stack = w.stack /\ x.current = w.current
      /\ x.dirname_length = w.dirname_length /\ Same(x, w)
  BY <1>3 DEF TreeType, Same
<1> HIDE DEF p
<1>5. Append(p, name) \in Seq(Nodes) /\ Len(Append(p, name)) = w.dirname_length + 1
      /\ Append(p, name)[w.dirname_length + 1] = name
      /\ \A i \in 1..w.dirname_length : Append(p, name)[i] = p[i]
  BY <1>1, <1>2
<1>6. x \in TreeType
  BY <1>3, <1>5 DEF TreeType
<1> HIDE DEF x
<1>7. /\ x \in TreeType /\ Same(x, w)
      /\ x.stack = w.stack /\ x.current = w.current /\ x.dirname_length = w.dirname_length
      /\ Len(x.path) = w.dirname_length + 1 /\ x.path[w.dirname_length + 1] = name
      /\ \A i \in 1..w.dirname_length : x.path[i] = w.path[i]
  BY <1>2, <1>4, <1>5, <1>6
<1> QED
  BY <1>7 DEF x

(* The top of the stack needs something less.                              *)
LEMMA Done ==
  ASSUME NEW w \in TreeType, Len(w.stack) >= 1, NEW what
  PROVE  LET x == TopDone(w, what)   n == Len(w.stack) IN
         /\ x \in TreeType /\ Same(x, w)
         /\ x.current = w.current /\ x.dirname_length = w.dirname_length /\ x.path = w.path
         /\ Len(x.stack) = n /\ \A k \in 1..(n - 1) : x.stack[k] = w.stack[k]
         /\ x.stack[n] = [w.stack[n] EXCEPT !.needs = @ \ {what}]
<1> DEFINE n == Len(w.stack)
           e == [w.stack[n] EXCEPT !.needs = @ \ {what}]
           s == [w.stack EXCEPT ![n] = e]
           x == TopDone(w, what)
<1>1. w.stack \in Seq(EntryType) /\ n \in Nat /\ n \in 1..n /\ w.stack[n] \in EntryType
  BY DEF TreeType
<1>2. e \in EntryType
  BY <1>1 DEF EntryType
<1>3. x = [w EXCEPT !.stack = s]
  BY DEF TopDone
<1> HIDE DEF e
<1>4. s \in Seq(EntryType) /\ Len(s) = n /\ s[n] = e /\ \A k \in 1..(n - 1) : s[k] = w.stack[k]
  BY <1>1, <1>2, ExceptSeq
<1> HIDE DEF s
<1>5. x \in TreeType /\ Same(x, w)
      /\ x.current = w.current /\ x.dirname_length = w.dirname_length /\ x.path = w.path
      /\ x.stack = s
  BY <1>3, <1>4 DEF TreeType, Same
<1> HIDE DEF x
<1>6. /\ x \in TreeType /\ Same(x, w)
      /\ x.current = w.current /\ x.dirname_length = w.dirname_length /\ x.path = w.path
      /\ Len(x.stack) = n /\ \A k \in 1..(n - 1) : x.stack[k] = w.stack[k]
      /\ x.stack[n] = e
  BY <1>4, <1>5
<1> QED
  BY <1>6 DEF x, e

(* tree_pop leaves the entries below and the directory part of the path.   *)
LEMMA Popped ==
  ASSUME NEW w \in TreeType, Len(w.stack) >= 1, w.dirname_length <= Len(w.path)
  PROVE  LET x == Pop(w)   n == Len(w.stack) IN
         /\ x \in TreeType /\ Same(x, w)
         /\ Len(x.stack) = n - 1 /\ \A k \in 1..(n - 1) : x.stack[k] = w.stack[k]
         /\ x.current = IF w.current = n THEN w.stack[n].parent ELSE w.current
         /\ x.dirname_length = w.stack[n].dirname_length
         /\ Len(x.path) = w.dirname_length
         /\ \A i \in 1..w.dirname_length : x.path[i] = w.path[i]
<1> DEFINE n == Len(w.stack)
           p == SubSeq(w.path, 1, w.dirname_length)
           s == SubSeq(w.stack, 1, n - 1)
           c == IF w.current = n THEN w.stack[n].parent ELSE w.current
           x == Pop(w)
<1>1. /\ w.path \in Seq(Nodes) /\ w.dirname_length \in Nat /\ w.stack \in Seq(EntryType)
      /\ n \in Nat /\ n \in 1..n /\ n - 1 \in Nat /\ w.stack[n] \in EntryType
  BY DEF TreeType
<1>2. /\ p \in Seq(Nodes) /\ Len(p) = w.dirname_length
      /\ \A i \in 1..w.dirname_length : p[i] = w.path[i]
  BY <1>1, Prefix
<1>3. s \in Seq(EntryType) /\ Len(s) = n - 1 /\ \A k \in 1..(n - 1) : s[k] = w.stack[k]
  BY <1>1, Prefix
<1>4. w.stack[n].dirname_length \in Nat /\ c \in Nat
  BY <1>1 DEF EntryType, TreeType
<1>5. x = [w EXCEPT !.path = p, !.stack = s, !.current = c,
                    !.dirname_length = w.stack[n].dirname_length]
  BY DEF Pop, Last, Front, TreeType
<1> HIDE DEF p, s, c
<1>6. /\ x \in TreeType /\ Same(x, w) /\ x.path = p /\ x.stack = s /\ x.current = c
      /\ x.dirname_length = w.stack[n].dirname_length
  BY ZenonT(40), <1>2, <1>3, <1>4, <1>5 DEF TreeType, Same
<1> HIDE DEF x
<1>7. /\ x \in TreeType /\ Same(x, w)
      /\ Len(x.stack) = n - 1 /\ \A k \in 1..(n - 1) : x.stack[k] = w.stack[k]
      /\ x.current = c
      /\ x.dirname_length = w.stack[n].dirname_length
      /\ Len(x.path) = w.dirname_length
      /\ \A i \in 1..w.dirname_length : x.path[i] = w.path[i]
  BY <1>2, <1>3, <1>6
<1> QED
  BY <1>7 DEF x, c

(* tree_push puts an entry on the stack for what was visited.              *)
LEMMA PushedUp ==
  ASSUME NEW w \in TreeType, w.current \in 1..Len(w.stack), w.path # <<>>
  PROVE  LET x == Pushed(w)   n == Len(w.stack) + 1 IN
         /\ x \in TreeType
         /\ x.d = w.d /\ x.visit = w.visit /\ x.working_dir = w.working_dir /\ x.lst = w.lst
         /\ x.st = w.st /\ ~x.descend /\ x.time = w.time /\ x.restore = w.restore
         /\ x.current = w.current /\ x.dirname_length = w.dirname_length /\ x.path = w.path
         /\ Len(x.stack) = n /\ \A k \in 1..(n - 1) : x.stack[k] = w.stack[k]
         /\ x.stack[n].name = Last(w.path) /\ x.stack[n].parent = w.current
         /\ x.stack[n].ino = Chosen(w) /\ x.stack[n].needs = Whole
         /\ x.stack[n].link <=> (~IsDirectory(w.lst) \/ w.stack[w.current].parent = 0)
         /\ x.stack[n].dirname_length = w.dirname_length
         /\ x.stack[n].symlink_parent = Nothing /\ x.stack[n].time = w.time
<1> DEFINE n == Len(w.stack) + 1
           l == ~IsDirectory(w.lst) \/ w.stack[w.current].parent = 0
           e == TreeEntry(Last(w.path), w.current, Chosen(w), l, w.dirname_length, w.time)
           s == Append(w.stack, e)
           x == Pushed(w)
<1>1. /\ w.path \in Seq(Nodes) /\ w.stack \in Seq(EntryType) /\ Len(w.stack) \in Nat
      /\ w.lst \in MaybeNode /\ w.st \in MaybeNode /\ w.time \in MaybeNode
      /\ w.dirname_length \in Nat /\ w.current \in Nat
  BY DEF TreeType
<1>2. Last(w.path) \in Nodes
  BY <1>1 DEF Last
<1>3. Chosen(w) \in MaybeNode /\ l \in BOOLEAN
  BY <1>1 DEF Chosen
<1>4. x = [w EXCEPT !.stack = s, !.descend = FALSE]
  BY DEF Pushed, Chosen
<1> HIDE DEF l
<1>5. e \in EntryType /\ e.name = Last(w.path) /\ e.parent = w.current /\ e.ino = Chosen(w)
      /\ e.needs = Whole /\ e.link = l /\ e.dirname_length = w.dirname_length
      /\ e.symlink_parent = Nothing /\ e.time = w.time
  BY <1>1, <1>2, <1>3 DEF TreeEntry, EntryType, Whole, MaybeNode
<1> HIDE DEF e
<1>6. s \in Seq(EntryType) /\ Len(s) = n /\ s[n] = e /\ \A k \in 1..(n - 1) : s[k] = w.stack[k]
  BY <1>1, <1>5
<1> HIDE DEF s
<1>7. x \in TreeType
      /\ x.d = w.d /\ x.visit = w.visit /\ x.working_dir = w.working_dir /\ x.lst = w.lst
      /\ x.st = w.st /\ ~x.descend /\ x.time = w.time /\ x.restore = w.restore
      /\ x.current = w.current /\ x.dirname_length = w.dirname_length /\ x.path = w.path
      /\ x.stack = s
  BY <1>4, <1>6 DEF TreeType
<1> HIDE DEF x
<1>8. Len(x.stack) = n /\ (\A k \in 1..(n - 1) : x.stack[k] = w.stack[k]) /\ x.stack[n] = e
  BY <1>6, <1>7
<1>9. /\ x.stack[n].name = Last(w.path) /\ x.stack[n].parent = w.current
      /\ x.stack[n].ino = Chosen(w) /\ x.stack[n].needs = Whole
      /\ x.stack[n].link = l
      /\ x.stack[n].dirname_length = w.dirname_length
      /\ x.stack[n].symlink_parent = Nothing /\ x.stack[n].time = w.time
  BY <1>5, <1>8
<1> QED
  BY <1>7, <1>8, <1>9 DEF x, l

(* tree_next looks at the initial path.                                    *)
LEMMA FirstVisitStep ==
  ASSUME t \in TreeType, t.dirname_length <= Len(t.path), FirstVisit
  PROVE  LET n == Len(t.stack) IN
         /\ t' \in TreeType /\ n >= 1 /\ ~t.d.on /\ "visit" \in t.stack[n].needs
         /\ t'.d = t.d /\ t'.visit = "regular" /\ t'.working_dir = t.working_dir
         /\ t'.lst = t.lst /\ t'.st = t.st /\ t'.descend = t.descend /\ t'.time = t.time
         /\ t'.restore = t.restore /\ t'.current = n /\ t'.dirname_length = t.dirname_length
         /\ Len(t'.stack) = n /\ \A k \in 1..(n - 1) : t'.stack[k] = t.stack[k]
         /\ t'.stack[n] = [t.stack[n] EXCEPT !.needs = @ \ {"visit"}]
         /\ Len(t'.path) = t.dirname_length + 1 /\ t'.path[t.dirname_length + 1] = t.stack[n].name
         /\ \A i \in 1..t.dirname_length : t'.path[i] = t.path[i]
<1> DEFINE n == Len(t.stack)
           u == [t EXCEPT !.current = n]
           v == TopDone(u, "visit")
           w == Append1(v, t.stack[n].name)
<1>1. n \in Nat /\ n >= 1 /\ ~t.d.on /\ "visit" \in t.stack[n].needs /\ t.stack[n] \in EntryType
      /\ t.stack[n].name \in Nodes
  <2>1. t.stack \in Seq(EntryType) /\ n \in Nat /\ t.stack # <<>> /\ ~t.d.on
    BY DEF FirstVisit, Needs, TreeType
  <2>2. n >= 1
    BY <2>1
  <2>3. "visit" \in t.stack[n].needs
    BY DEF FirstVisit, Needs, TopEntry, Last
  <2>4. t.stack[n] \in EntryType
    BY <2>1, <2>2
  <2>5. t.stack[n].name \in Nodes
    BY <2>4 DEF EntryType
  <2> QED
    BY <2>1, <2>2, <2>3, <2>4, <2>5
<1>2. u \in TreeType /\ Same(u, t) /\ u.stack = t.stack /\ u.path = t.path
      /\ u.dirname_length = t.dirname_length /\ u.current = n
  BY <1>1 DEF TreeType, Same
<1>3. /\ v \in TreeType /\ Same(v, u)
      /\ v.current = u.current /\ v.dirname_length = u.dirname_length /\ v.path = u.path
      /\ Len(v.stack) = n /\ \A k \in 1..(n - 1) : v.stack[k] = u.stack[k]
      /\ v.stack[n] = [u.stack[n] EXCEPT !.needs = @ \ {"visit"}]
  <2> HIDE DEF u
  <2> QED
    BY <1>1, <1>2, Done
<1>4. t' = [w EXCEPT !.visit = "regular"]
  BY DEF FirstVisit, TopEntry, Last
<1> HIDE DEF u, v
<1>5. /\ w \in TreeType /\ Same(w, v)
      /\ w.stack = v.stack /\ w.current = v.current /\ w.dirname_length = v.dirname_length
      /\ Len(w.path) = v.dirname_length + 1 /\ w.path[v.dirname_length + 1] = t.stack[n].name
      /\ \A i \in 1..v.dirname_length : w.path[i] = v.path[i]
  BY <1>1, <1>2, <1>3, Appended
<1> HIDE DEF w
<1>6. t' \in TreeType /\ t'.visit = "regular" /\ t'.stack = w.stack /\ t'.current = w.current
      /\ t'.dirname_length = w.dirname_length /\ t'.path = w.path /\ t'.d = w.d
      /\ t'.working_dir = w.working_dir /\ t'.lst = w.lst /\ t'.st = w.st
      /\ t'.descend = w.descend /\ t'.time = w.time /\ t'.restore = w.restore
  BY <1>4, <1>5 DEF TreeType
<1>7. t'.d = t.d /\ t'.working_dir = t.working_dir
      /\ t'.lst = t.lst /\ t'.st = t.st /\ t'.descend = t.descend /\ t'.time = t.time
      /\ t'.restore = t.restore
  BY <1>2, <1>3, <1>5, <1>6 DEF Same
<1> QED
  BY <1>1, <1>2, <1>3, <1>5, <1>6, <1>7

(* The file system answers with objects.                                   *)
LEMMA Lookups ==
  ASSUME disk \in DiskType
  PROVE  /\ \A dir \in MaybeNode, n \in Nodes : Object(dir, n) \in MaybeNode
         /\ \A i \in MaybeNode : Follow(i) \in MaybeNode
         /\ Nothing \notin Nodes
<1>1. Nothing \notin Nodes
  BY NodesAssumption DEF Nothing
<1>2. \A dir \in MaybeNode, n \in Nodes : Object(dir, n) \in MaybeNode
  BY DEF Object, MaybeNode
<1>3. \A i \in Nodes : disk.to[i] \in MaybeNode
  BY DEF DiskType, MaybeNode
<1>4. \A i \in MaybeNode : Follow(i) \in MaybeNode
  BY <1>3 DEF Follow, MaybeNode
<1> QED
  BY <1>1, <1>2, <1>4

(* The top of the stack is put into the path on the way down.              *)
LEMMA EnteringStep ==
  ASSUME t \in TreeType, t.dirname_length <= Len(t.path), Len(t.stack) >= 1
  PROVE  LET x == Entering   n == Len(t.stack) IN
         /\ x \in TreeType /\ Same(x, t) /\ x.current = n /\ x.dirname_length = t.dirname_length
         /\ Len(x.stack) = n /\ \A k \in 1..(n - 1) : x.stack[k] = t.stack[k]
         /\ x.stack[n] = [t.stack[n] EXCEPT !.needs = @ \ {"descent"}]
         /\ Len(x.path) = t.dirname_length + 1 /\ x.path[t.dirname_length + 1] = t.stack[n].name
         /\ \A i \in 1..t.dirname_length : x.path[i] = t.path[i]
<1> DEFINE n == Len(t.stack)
           u == [t EXCEPT !.current = n]
           w == Append1(u, t.stack[n].name)
           v == TopDone(w, "descent")
<1>1. n \in Nat /\ n \in 1..n
  BY DEF TreeType
<1>2. t.stack[n] \in EntryType
  BY <1>1 DEF TreeType
<1>3. t.stack[n].name \in Nodes
  BY <1>2 DEF EntryType
<1>4. u \in TreeType /\ Same(u, t) /\ u.stack = t.stack /\ u.path = t.path
      /\ u.dirname_length = t.dirname_length /\ u.current = n
  BY <1>1 DEF TreeType, Same
<1>5. v = Entering
  BY DEF Entering, TopEntry, Last
<1> HIDE DEF u
<1>6. /\ w \in TreeType /\ Same(w, u)
      /\ w.stack = u.stack /\ w.current = u.current /\ w.dirname_length = u.dirname_length
      /\ Len(w.path) = u.dirname_length + 1 /\ w.path[u.dirname_length + 1] = t.stack[n].name
      /\ \A i \in 1..u.dirname_length : w.path[i] = u.path[i]
  BY <1>3, <1>4, Appended
<1> HIDE DEF w
<1>7. /\ v \in TreeType /\ Same(v, w)
      /\ v.current = w.current /\ v.dirname_length = w.dirname_length /\ v.path = w.path
      /\ Len(v.stack) = n /\ \A k \in 1..(n - 1) : v.stack[k] = w.stack[k]
      /\ v.stack[n] = [w.stack[n] EXCEPT !.needs = @ \ {"descent"}]
  BY <1>1, <1>4, <1>6, Done
<1> HIDE DEF v
<1>8. Same(v, t)
  BY <1>4, <1>6, <1>7 DEF Same
<1> QED
  BY <1>4, <1>5, <1>6, <1>7, <1>8

(* tree_descent goes into the directory.                                   *)
LEMMA DescentStep ==
  ASSUME t \in TreeType, disk \in DiskType, t.working_dir \in Nodes,
         t.dirname_length <= Len(t.path), Descent
  PROVE  LET n == Len(t.stack)   dir == Follow(Object(t.working_dir, t.stack[n].name)) IN
         /\ t' \in TreeType /\ n >= 1 /\ ~t.d.on /\ "descent" \in t.stack[n].needs
         /\ dir \in Nodes /\ IsDirectory(dir) /\ t'.working_dir = dir
         /\ t'.d = t.d /\ t'.visit = "postdescent" /\ t'.descend = t.descend
         /\ t'.lst = t.lst /\ t'.st = t.st /\ t'.time = t.time /\ t'.restore = t.restore
         /\ t'.current = n /\ t'.dirname_length = t.dirname_length + 1
         /\ Len(t'.stack) = n /\ \A k \in 1..(n - 1) : t'.stack[k] = t.stack[k]
         /\ t'.stack[n] = [t.stack[n] EXCEPT !.needs = @ \ {"descent"},
                             !.symlink_parent = IF t.stack[n].link THEN t.working_dir ELSE @]
         /\ Len(t'.path) = t.dirname_length + 1 /\ t'.path[t.dirname_length + 1] = t.stack[n].name
         /\ \A i \in 1..t.dirname_length : t'.path[i] = t.path[i]
<1> DEFINE n == Len(t.stack)
           dir == Follow(Object(t.working_dir, t.stack[n].name))
           x == Entering
           e == [x.stack[n] EXCEPT !.symlink_parent = IF t.stack[n].link THEN t.working_dir ELSE @]
           s == [x.stack EXCEPT ![n] = e]
<1>1. t.stack \in Seq(EntryType) /\ n \in Nat /\ n >= 1 /\ ~t.d.on
      /\ "descent" \in t.stack[n].needs /\ IsDirectory(dir)
  <2>1. t.stack \in Seq(EntryType) /\ n \in Nat /\ t.stack # <<>> /\ ~t.d.on
    BY DEF Descent, Needs, TreeType
  <2>2. "descent" \in t.stack[n].needs /\ IsDirectory(dir)
    BY DEF Descent, Needs, TopEntry, Last
  <2> QED
    BY <2>1, <2>2
<1>2. t.stack[n] \in EntryType
  BY <1>1
<1>3. t.stack[n].name \in Nodes /\ t.stack[n].link \in BOOLEAN
  BY <1>2 DEF EntryType
<1>4. dir \in Nodes
  <2>1. t.working_dir \in MaybeNode
    BY DEF MaybeNode
  <2>2. dir \in MaybeNode
    BY <2>1, <1>3, Lookups
  <2> QED
    BY <2>2, <1>1 DEF IsDirectory, MaybeNode
<1>5. /\ x \in TreeType /\ Same(x, t) /\ x.current = n /\ x.dirname_length = t.dirname_length
      /\ Len(x.stack) = n /\ \A k \in 1..(n - 1) : x.stack[k] = t.stack[k]
      /\ x.stack[n] = [t.stack[n] EXCEPT !.needs = @ \ {"descent"}]
      /\ Len(x.path) = t.dirname_length + 1 /\ x.path[t.dirname_length + 1] = t.stack[n].name
      /\ \A i \in 1..t.dirname_length : x.path[i] = t.path[i]
  BY <1>1, EnteringStep
<1>6. t' = [x EXCEPT !.dirname_length = Len(x.path), !.depth = @ + 1,
                     !.stack[n].symlink_parent = IF t.stack[n].link THEN t.working_dir ELSE @,
                     !.working_dir = dir, !.visit = "postdescent"]
  BY DEF Descent, TopEntry, Last
<1> HIDE DEF x, dir
<1>7. x.stack \in Seq(EntryType) /\ n \in 1..Len(x.stack)
  BY <1>1, <1>5 DEF TreeType
<1>8. x.stack[n] \in EntryType
  BY <1>7
<1>9. e \in EntryType
  BY <1>8, <1>3 DEF EntryType, MaybeNode
<1>10. e = [t.stack[n] EXCEPT !.needs = @ \ {"descent"},
                              !.symlink_parent = IF t.stack[n].link THEN t.working_dir ELSE @]
  BY <1>5, <1>2 DEF EntryType
<1>11. t' = [x EXCEPT !.dirname_length = Len(x.path), !.depth = @ + 1, !.stack = s,
                      !.working_dir = dir, !.visit = "postdescent"]
  BY <1>6, <1>5 DEF TreeType
<1> HIDE DEF e
<1>12. s \in Seq(EntryType) /\ Len(s) = n /\ s[n] = e /\ \A k \in 1..(n - 1) : s[k] = x.stack[k]
  BY <1>7, <1>9, <1>5, ExceptSeq
<1> HIDE DEF s
<1>13. /\ t' \in TreeType /\ t'.working_dir = dir
       /\ t'.d = x.d /\ t'.visit = "postdescent" /\ t'.descend = x.descend
       /\ t'.lst = x.lst /\ t'.st = x.st /\ t'.time = x.time /\ t'.restore = x.restore
       /\ t'.current = x.current /\ t'.dirname_length = Len(x.path) /\ t'.stack = s
       /\ t'.path = x.path
  <2>1. Len(x.path) \in Nat /\ dir \in MaybeNode
    BY <1>5, <1>4 DEF TreeType, MaybeNode
  <2>2. x \in TreeType
    BY <1>5
  <2>5. x.depth + 1 \in Int
    BY <2>2 DEF TreeType
  <2> DEFINE up == x.depth + 1
               len == Len(x.path)
  <2>7. t' = [x EXCEPT !.dirname_length = len, !.depth = up, !.stack = s,
                       !.working_dir = dir, !.visit = "postdescent"]
    BY <1>11
  <2>8. up \in Int /\ len \in Nat
    BY <2>1, <2>5
  <2> HIDE DEF up, len
  <2>3. t' \in TreeType
    BY <2>7, <2>8, <1>12, <2>1, <2>2 DEF TreeType
  <2>4. /\ t'.working_dir = dir
        /\ t'.d = x.d /\ t'.visit = "postdescent" /\ t'.descend = x.descend
        /\ t'.lst = x.lst /\ t'.st = x.st /\ t'.time = x.time /\ t'.restore = x.restore
        /\ t'.current = x.current /\ t'.dirname_length = Len(x.path) /\ t'.stack = s
        /\ t'.path = x.path
    BY <1>11, <2>2 DEF TreeType
  <2> QED
    BY <2>3, <2>4
<1>14. t'.d = t.d /\ t'.descend = t.descend
       /\ t'.lst = t.lst /\ t'.st = t.st /\ t'.time = t.time /\ t'.restore = t.restore
  BY <1>13, <1>5 DEF Same
<1>15. t'.current = n /\ t'.dirname_length = t.dirname_length + 1
       /\ Len(t'.stack) = n /\ (\A k \in 1..(n - 1) : t'.stack[k] = t.stack[k])
       /\ t'.stack[n] = e
  BY <1>13, <1>12, <1>5
<1>16. Len(t'.path) = t.dirname_length + 1 /\ t'.path[t.dirname_length + 1] = t.stack[n].name
       /\ \A i \in 1..t.dirname_length : t'.path[i] = t.path[i]
  BY <1>13, <1>5
<1> QED
  BY <1>1, <1>4, <1>10, <1>13, <1>14, <1>15, <1>16 DEF dir

(* A directory that does not open is taken off the stack.                  *)
LEMMA DescentFailsStep ==
  ASSUME t \in TreeType, t.dirname_length <= Len(t.path), DescentFails
  PROVE  LET n == Len(t.stack) IN
         /\ t' \in TreeType /\ n >= 1 /\ ~t.d.on /\ "descent" \in t.stack[n].needs
         /\ t'.d = t.d /\ t'.visit = "error" /\ t'.working_dir = t.working_dir
         /\ t'.lst = t.lst /\ t'.st = t.st /\ t'.descend = t.descend /\ t'.time = t.time
         /\ t'.restore = t.restore
         /\ t'.current = t.stack[n].parent /\ t'.dirname_length = t.stack[n].dirname_length
         /\ Len(t'.stack) = n - 1 /\ \A k \in 1..(n - 1) : t'.stack[k] = t.stack[k]
         /\ Len(t'.path) = t.dirname_length + 1
         /\ \A i \in 1..t.dirname_length : t'.path[i] = t.path[i]
<1> DEFINE n == Len(t.stack)
           x == Entering
           len == Len(x.path)
           y == [x EXCEPT !.dirname_length = len]
           z == Pop(y)
<1>1. n \in Nat /\ n >= 1 /\ ~t.d.on /\ "descent" \in t.stack[n].needs
  <2>1. t.stack \in Seq(EntryType) /\ n \in Nat /\ t.stack # <<>> /\ ~t.d.on
    BY DEF DescentFails, Needs, TreeType
  <2>2. "descent" \in t.stack[n].needs
    BY DEF DescentFails, Needs, TopEntry, Last
  <2> QED
    BY <2>1, <2>2
<1>2. /\ x \in TreeType /\ Same(x, t) /\ x.current = n /\ x.dirname_length = t.dirname_length
      /\ Len(x.stack) = n /\ \A k \in 1..(n - 1) : x.stack[k] = t.stack[k]
      /\ x.stack[n] = [t.stack[n] EXCEPT !.needs = @ \ {"descent"}]
      /\ Len(x.path) = t.dirname_length + 1
      /\ \A i \in 1..t.dirname_length : x.path[i] = t.path[i]
  BY <1>1, EnteringStep
<1>3. t' = [z EXCEPT !.visit = "error"]
  BY DEF DescentFails
<1>4. t.stack[n] \in EntryType /\ t.dirname_length \in Nat
  BY <1>1 DEF TreeType
<1>5. x.stack[n].parent = t.stack[n].parent
      /\ x.stack[n].dirname_length = t.stack[n].dirname_length
  BY <1>2, <1>4 DEF EntryType
<1> HIDE DEF x
<1>6. len \in Nat /\ len = t.dirname_length + 1
  BY <1>2, <1>4
<1> HIDE DEF len
<1>7. y \in TreeType /\ Same(y, x) /\ y.stack = x.stack /\ y.current = x.current
      /\ y.path = x.path /\ y.dirname_length = len
  BY <1>2, <1>6 DEF TreeType, Same
<1>8. y.dirname_length <= Len(y.path) /\ Len(y.stack) >= 1
  BY <1>1, <1>2, <1>7 DEF len
<1> HIDE DEF y
<1>9. /\ z \in TreeType /\ Same(z, y)
      /\ Len(z.stack) = n - 1 /\ \A k \in 1..(n - 1) : z.stack[k] = y.stack[k]
      /\ z.current = y.stack[n].parent
      /\ z.dirname_length = y.stack[n].dirname_length
      /\ Len(z.path) = y.dirname_length
      /\ \A i \in 1..y.dirname_length : z.path[i] = y.path[i]
  <2>1. y \in TreeType /\ Len(y.stack) >= 1 /\ y.dirname_length <= Len(y.path)
    BY <1>7, <1>8
  <2>2. Len(y.stack) = n /\ y.current = n
    BY <1>2, <1>7
  <2>3. /\ z \in TreeType /\ Same(z, y)
        /\ Len(z.stack) = Len(y.stack) - 1
        /\ \A k \in 1..(Len(y.stack) - 1) : z.stack[k] = y.stack[k]
        /\ z.current = IF y.current = Len(y.stack) THEN y.stack[Len(y.stack)].parent ELSE y.current
        /\ z.dirname_length = y.stack[Len(y.stack)].dirname_length
        /\ Len(z.path) = y.dirname_length
        /\ \A i \in 1..y.dirname_length : z.path[i] = y.path[i]
    BY <2>1, Popped
  <2> QED
    BY <2>2, <2>3
<1> HIDE DEF z
<1>10. t' \in TreeType /\ t'.d = z.d /\ t'.visit = "error" /\ t'.working_dir = z.working_dir
       /\ t'.lst = z.lst /\ t'.st = z.st /\ t'.descend = z.descend /\ t'.time = z.time
       /\ t'.restore = z.restore /\ t'.current = z.current /\ t'.path = z.path
       /\ t'.dirname_length = z.dirname_length /\ t'.stack = z.stack
  BY <1>3, <1>9 DEF TreeType
<1>11. Same(z, t)
  BY <1>2, <1>7, <1>9 DEF Same
<1>12. t'.d = t.d /\ t'.working_dir = t.working_dir
       /\ t'.lst = t.lst /\ t'.st = t.st /\ t'.descend = t.descend /\ t'.time = t.time
       /\ t'.restore = t.restore
  BY <1>10, <1>11 DEF Same
<1>13. t'.current = t.stack[n].parent /\ t'.dirname_length = t.stack[n].dirname_length
       /\ Len(t'.stack) = n - 1 /\ \A k \in 1..(n - 1) : t'.stack[k] = t.stack[k]
  BY <1>2, <1>5, <1>7, <1>9, <1>10
<1>14. Len(t'.path) = t.dirname_length + 1
       /\ \A i \in 1..t.dirname_length : t'.path[i] = t.path[i]
  <2>1. Len(t'.path) = t.dirname_length + 1
    BY <1>6, <1>7, <1>9, <1>10
  <2>2. ASSUME NEW i \in 1..t.dirname_length PROVE t'.path[i] = t.path[i]
    <3>1. i \in 1..y.dirname_length
      BY <1>4, <1>6, <1>7
    <3> QED
      BY <3>1, <1>2, <1>7, <1>9, <1>10
  <2> QED
    BY <2>1, <2>2
<1> QED
  BY <1>1, <1>10, <1>12, <1>13, <1>14

(* tree_ascend and tree_pop: back to where the directory was found.        *)
LEMMA AscendedStep ==
  ASSUME t \in TreeType, disk \in DiskType, t.working_dir \in Nodes, Len(t.stack) >= 1,
         t.dirname_length <= Len(t.path), NEW visit \in {"error", "postascent"}, Ascended(visit)
  PROVE  LET n == Len(t.stack) IN
         /\ t' \in TreeType
         /\ t'.working_dir = IF t.stack[n].link THEN t.stack[n].symlink_parent
                             ELSE Up(t.working_dir)
         /\ t'.d = t.d /\ t'.visit = visit
         /\ t'.lst = t.lst /\ t'.st = t.st /\ t'.descend = t.descend /\ t'.time = t.time
         /\ t'.restore = t.restore
         /\ t'.current = IF t.current = n THEN t.stack[n].parent ELSE t.current
         /\ t'.dirname_length = t.stack[n].dirname_length
         /\ Len(t'.stack) = n - 1 /\ \A k \in 1..(n - 1) : t'.stack[k] = t.stack[k]
         /\ Len(t'.path) = t.dirname_length
         /\ \A i \in 1..t.dirname_length : t'.path[i] = t.path[i]
<1> DEFINE n == Len(t.stack)
           wd == IF t.stack[n].link THEN t.stack[n].symlink_parent ELSE Up(t.working_dir)
           up == t.depth - 1
           y == [t EXCEPT !.working_dir = wd, !.depth = up]
           z == Pop(y)
<1>1. n \in Nat /\ n \in 1..n
  BY DEF TreeType
<1>2. t.stack[n] \in EntryType /\ t.dirname_length \in Nat /\ up \in Int
  BY <1>1 DEF TreeType
<1>3. wd \in MaybeNode
  BY <1>2, NodesAssumption DEF EntryType, DiskType, MaybeNode, Up
<1>4. t' = [z EXCEPT !.visit = visit]
  BY DEF Ascended, TopEntry, Last
<1> HIDE DEF wd, up
<1>5. y \in TreeType /\ y.stack = t.stack /\ y.current = t.current
      /\ y.path = t.path /\ y.dirname_length = t.dirname_length /\ y.working_dir = wd
      /\ y.d = t.d /\ y.lst = t.lst /\ y.st = t.st /\ y.descend = t.descend /\ y.time = t.time
      /\ y.restore = t.restore
  BY <1>2, <1>3 DEF TreeType
<1> HIDE DEF y
<1>6. /\ z \in TreeType /\ Same(z, y)
      /\ Len(z.stack) = n - 1 /\ \A k \in 1..(n - 1) : z.stack[k] = y.stack[k]
      /\ z.current = IF y.current = n THEN y.stack[n].parent ELSE y.current
      /\ z.dirname_length = y.stack[n].dirname_length
      /\ Len(z.path) = y.dirname_length
      /\ \A i \in 1..y.dirname_length : z.path[i] = y.path[i]
  BY <1>1, <1>5, Popped
<1> HIDE DEF z
<1>7. t' \in TreeType /\ t'.d = z.d /\ t'.visit = visit /\ t'.working_dir = z.working_dir
      /\ t'.lst = z.lst /\ t'.st = z.st /\ t'.descend = z.descend /\ t'.time = z.time
      /\ t'.restore = z.restore /\ t'.current = z.current /\ t'.path = z.path
      /\ t'.dirname_length = z.dirname_length /\ t'.stack = z.stack
  BY <1>4, <1>6 DEF TreeType
<1>8. t'.d = t.d /\ t'.working_dir = wd
      /\ t'.lst = t.lst /\ t'.st = t.st /\ t'.descend = t.descend /\ t'.time = t.time
      /\ t'.restore = t.restore
  BY <1>5, <1>6, <1>7 DEF Same
<1>9. t'.current = (IF t.current = n THEN t.stack[n].parent ELSE t.current)
      /\ t'.dirname_length = t.stack[n].dirname_length
      /\ Len(t'.stack) = n - 1 /\ (\A k \in 1..(n - 1) : t'.stack[k] = t.stack[k])
      /\ Len(t'.path) = t.dirname_length
      /\ \A i \in 1..t.dirname_length : t'.path[i] = t.path[i]
  BY <1>5, <1>6, <1>7
<1> QED
  BY <1>7, <1>8, <1>9 DEF wd

(* tree_pop alone, after the way back was not found.                       *)
LEMMA NoWayBackStep ==
  ASSUME t \in TreeType, Len(t.stack) >= 1, t.dirname_length <= Len(t.path), NoWayBack
  PROVE  LET n == Len(t.stack) IN
         /\ t' \in TreeType /\ ~t.stack[n].link
         /\ t'.d = t.d /\ t'.visit = "fatal" /\ t'.working_dir = t.working_dir
         /\ Len(t'.stack) = n - 1 /\ \A k \in 1..(n - 1) : t'.stack[k] = t.stack[k]
<1> DEFINE n == Len(t.stack)
           z == Pop(t)
<1>1. /\ z \in TreeType /\ Same(z, t)
      /\ Len(z.stack) = n - 1 /\ \A k \in 1..(n - 1) : z.stack[k] = t.stack[k]
  BY Popped
<1>2. t' = [z EXCEPT !.visit = "fatal"] /\ ~t.stack[n].link
  BY DEF NoWayBack, TopEntry, Last
<1> HIDE DEF z
<1>3. t' \in TreeType /\ t'.d = z.d /\ t'.visit = "fatal" /\ t'.working_dir = z.working_dir
      /\ t'.stack = z.stack
  BY <1>1, <1>2 DEF TreeType
<1> QED
  BY <1>1, <1>2, <1>3 DEF Same

(* The initial path goes when nothing is left of it.                       *)
LEMMA DeadStep ==
  ASSUME t \in TreeType, t.dirname_length <= Len(t.path), Dead
  PROVE  LET n == Len(t.stack) IN
         /\ t' \in TreeType /\ n >= 1 /\ ~t.d.on /\ t.stack[n].needs = {}
         /\ t'.d = t.d /\ t'.visit = t.visit /\ t'.working_dir = t.working_dir
         /\ t'.lst = Nothing /\ t'.st = Nothing /\ t'.descend = t.descend /\ t'.time = t.time
         /\ t'.restore = t.restore
         /\ t'.current = IF t.current = n THEN t.stack[n].parent ELSE t.current
         /\ t'.dirname_length = t.stack[n].dirname_length
         /\ Len(t'.stack) = n - 1 /\ \A k \in 1..(n - 1) : t'.stack[k] = t.stack[k]
         /\ Len(t'.path) = t.dirname_length
         /\ \A i \in 1..t.dirname_length : t'.path[i] = t.path[i]
<1> DEFINE n == Len(t.stack)
           z == Pop(t)
<1>1. n \in Nat /\ n >= 1 /\ ~t.d.on /\ t.stack[n].needs = {}
  <2>1. t.stack \in Seq(EntryType) /\ n \in Nat /\ t.stack # <<>> /\ ~t.d.on
    BY DEF Dead, TreeType
  <2>2. t.stack[n].needs = {}
    BY DEF Dead, TopEntry, Last
  <2> QED
    BY <2>1, <2>2
<1>2. /\ z \in TreeType /\ Same(z, t)
      /\ Len(z.stack) = n - 1 /\ \A k \in 1..(n - 1) : z.stack[k] = t.stack[k]
      /\ z.current = IF t.current = n THEN t.stack[n].parent ELSE t.current
      /\ z.dirname_length = t.stack[n].dirname_length
      /\ Len(z.path) = t.dirname_length
      /\ \A i \in 1..t.dirname_length : z.path[i] = t.path[i]
  BY <1>1, Popped
<1>3. t' = [z EXCEPT !.lst = Nothing, !.st = Nothing]
  BY DEF Dead
<1> HIDE DEF z
<1>4. t' \in TreeType /\ t'.d = z.d /\ t'.visit = z.visit /\ t'.working_dir = z.working_dir
      /\ t'.lst = Nothing /\ t'.st = Nothing /\ t'.descend = z.descend /\ t'.time = z.time
      /\ t'.restore = z.restore /\ t'.current = z.current /\ t'.path = z.path
      /\ t'.dirname_length = z.dirname_length /\ t'.stack = z.stack
  BY <1>2, <1>3 DEF TreeType, MaybeNode
<1>5. t'.d = t.d /\ t'.visit = t.visit /\ t'.working_dir = t.working_dir
      /\ t'.descend = t.descend /\ t'.time = t.time /\ t'.restore = t.restore
  BY <1>2, <1>4 DEF Same
<1> QED
  BY <1>1, <1>2, <1>4, <1>5

(* readdir gives a name, and a path with it.                               *)
LEMMA ReadStep ==
  ASSUME t \in TreeType, t.dirname_length <= Len(t.path), NEW n \in Nodes, ReadDirectory(n)
  PROVE  /\ t' \in TreeType /\ t.d.on /\ n \in t.d.left
         /\ t'.d.on /\ t'.d.left = t.d.left \ {n} /\ t'.visit = "regular"
         /\ t'.working_dir = t.working_dir /\ t'.lst = Nothing /\ t'.st = Nothing
         /\ t'.descend = t.descend /\ t'.time = t.time /\ t'.restore = t.restore
         /\ t'.stack = t.stack /\ t'.current = t.current /\ t'.dirname_length = t.dirname_length
         /\ Len(t'.path) = t.dirname_length + 1 /\ t'.path[t.dirname_length + 1] = n
         /\ \A i \in 1..t.dirname_length : t'.path[i] = t.path[i]
<1> DEFINE left == t.d.left \ {n}
           y == [t EXCEPT !.d.left = left]
           z == Append1(y, n)
<1>1. t.d.on /\ n \in t.d.left /\ t' = [z EXCEPT !.visit = "regular", !.lst = Nothing, !.st = Nothing]
  BY DEF ReadDirectory
<1>2. t.d \in [on : BOOLEAN, left : SUBSET Nodes] /\ left \in SUBSET Nodes
  BY DEF TreeType
<1> HIDE DEF left
<1>3. [t.d EXCEPT !.left = left] \in [on : BOOLEAN, left : SUBSET Nodes]
      /\ [t.d EXCEPT !.left = left].on = t.d.on /\ [t.d EXCEPT !.left = left].left = left
  BY <1>2
<1>4. y = [t EXCEPT !.d = [t.d EXCEPT !.left = left]]
  BY DEF TreeType
<1>5. y \in TreeType /\ y.d = [t.d EXCEPT !.left = left] /\ y.working_dir = t.working_dir
      /\ y.descend = t.descend /\ y.time = t.time /\ y.restore = t.restore
      /\ y.stack = t.stack /\ y.current = t.current /\ y.dirname_length = t.dirname_length
      /\ y.path = t.path
  BY <1>3, <1>4 DEF TreeType
<1> HIDE DEF y
<1>6. /\ z \in TreeType /\ Same(z, y)
      /\ z.stack = y.stack /\ z.current = y.current /\ z.dirname_length = y.dirname_length
      /\ Len(z.path) = y.dirname_length + 1 /\ z.path[y.dirname_length + 1] = n
      /\ \A i \in 1..y.dirname_length : z.path[i] = y.path[i]
  BY <1>5, Appended
<1> HIDE DEF z
<1>7. t' \in TreeType /\ t'.d = z.d /\ t'.visit = "regular" /\ t'.working_dir = z.working_dir
      /\ t'.lst = Nothing /\ t'.st = Nothing /\ t'.descend = z.descend /\ t'.time = z.time
      /\ t'.restore = z.restore /\ t'.current = z.current /\ t'.path = z.path
      /\ t'.dirname_length = z.dirname_length /\ t'.stack = z.stack
  BY <1>1, <1>6 DEF TreeType, MaybeNode
<1>8. t'.d = y.d /\ t'.working_dir = y.working_dir /\ t'.descend = y.descend
      /\ t'.time = y.time /\ t'.restore = y.restore
  BY <1>6, <1>7 DEF Same
<1>9. t'.d.on = t.d.on /\ t'.d.left = left
  BY <1>3, <1>5, <1>8
<1>10. t'.d.on /\ t'.d.left = t.d.left \ {n}
  BY <1>1, <1>9 DEF left
<1>11. /\ Len(t'.path) = t.dirname_length + 1 /\ t'.path[t.dirname_length + 1] = n
       /\ \A i \in 1..t.dirname_length : t'.path[i] = t.path[i]
  BY <1>5, <1>6, <1>7
<1>12. /\ t'.working_dir = t.working_dir /\ t'.descend = t.descend /\ t'.time = t.time
       /\ t'.restore = t.restore /\ t'.stack = t.stack /\ t'.current = t.current
       /\ t'.dirname_length = t.dirname_length
  BY <1>5, <1>6, <1>7, <1>8
<1> QED
  BY <1>1, <1>7, <1>10, <1>11, <1>12

-----------------------------------------------------------------------------
(* The shape of the stack, step by step.                                   *)

(* The entries of the stack are entries.                                   *)
LEMMA Entries ==
  ASSUME NEW w \in TreeType
  PROVE  /\ Len(w.stack) \in Nat
         /\ \A k \in 1..Len(w.stack) : w.stack[k] \in EntryType
<1>1. w.stack \in Seq(EntryType)
  BY DEF TreeType
<1> QED
  BY <1>1

(* What the top of the stack needs says where the walk is.                 *)
LEMMA TopFacts ==
  ASSUME NEW w \in TreeType, Shape(w), Len(w.stack) >= 1
  PROVE  LET n == Len(w.stack)   e == w.stack[n] IN
         /\ "visit" \in e.needs => n = 1 /\ w.current = 0 /\ e.needs = {"visit"}
         /\ e.needs = {} => n = 1 /\ w.current = 1
         /\ "descent" \in e.needs =>
              n >= 2 /\ e.needs = Whole /\ ~Entered(w, n) /\ e.parent = w.current
              /\ w.current \in 1..(n - 1)
         /\ "open" \in e.needs /\ "descent" \notin e.needs =>
              n >= 2 /\ e.needs = {"open", "ascent"} /\ Entered(w, n) /\ w.current = n
         /\ "ascent" \in e.needs /\ "open" \notin e.needs =>
              n >= 2 /\ e.needs = {"ascent"} /\ Entered(w, n) /\ w.current = n
<1> DEFINE n == Len(w.stack)
           e == w.stack[n]
<1>1. n \in Nat /\ n >= 1 /\ Bottom(w) /\ Current(w)
  BY Entries DEF Shape
<1>2. CASE n = 1
  <2>1. e.needs \in {{"visit"}, {}}
    BY <1>1, <1>2 DEF Bottom
  <2>2. "visit" \in e.needs => w.current = 0
    BY <1>1, <1>2 DEF Current
  <2>3. "visit" \notin e.needs => w.current \in 1..1
    BY <1>1, <1>2 DEF Current
  <2> QED
    BY <1>2, <2>1, <2>2, <2>3
<1>3. CASE n >= 2
  <2>1. e.needs \in {Whole, {"open", "ascent"}, {"ascent"}} /\ e.parent \in 1..(n - 1)
        /\ Entered(w, e.parent) /\ \A j \in (e.parent + 1)..(n - 1) : ~Entered(w, j)
    BY <1>1, <1>3 DEF Shape, Linked
  <2>0. "visit" \notin w.stack[1].needs
    <3>1. n >= 1 /\ "visit" \in w.stack[1].needs => n = 1
      BY <1>1 DEF Current
    <3> HIDE DEF n, e
    <3> QED
      BY <3>1, <1>1, <1>3
  <2>2. w.current \in 1..n /\ Entered(w, w.current)
        /\ \A j \in (w.current + 1)..n : ~Entered(w, j)
    BY <1>1, <2>0 DEF Current
  <2>3. Entered(w, n) => w.current = n
    BY <1>1, <2>2
  <2>4. ~Entered(w, n) => w.current \in 1..(n - 1) /\ w.current = e.parent
    <3>1. ASSUME ~Entered(w, n) PROVE w.current \in 1..(n - 1)
      <4>1. w.current # n
        BY <2>2, <3>1
      <4> QED
        BY <4>1, <1>1, <2>2
    <3>2. ASSUME ~Entered(w, n) PROVE ~(w.current < e.parent)
      BY <2>1, <2>2, <1>1
    <3>3. ASSUME ~Entered(w, n) PROVE ~(e.parent < w.current)
      BY <2>1, <2>2, <1>1, <3>1, <3>3
    <3> QED
      BY <3>1, <3>2, <3>3, <2>1, <2>2, <1>1
  <2>5. Entered(w, n) <=> e.needs # Whole
    BY <2>1 DEF Entered, Whole
  <2> HIDE DEF e
  <2>6. e.needs = Whole => n >= 2 /\ ~Entered(w, n) /\ e.parent = w.current
                           /\ w.current \in 1..(n - 1)
    BY <1>3, <2>4, <2>5
  <2>7. e.needs # Whole => n >= 2 /\ Entered(w, n) /\ w.current = n
    BY <1>3, <2>3, <2>5
  <2>8. "visit" \notin e.needs /\ e.needs # {}
    BY <2>1 DEF Whole
  <2>9. "descent" \in e.needs => e.needs = Whole
    BY <2>1
  <2>10. "open" \in e.needs /\ "descent" \notin e.needs =>
           e.needs = {"open", "ascent"} /\ e.needs # Whole
    BY <2>1 DEF Whole
  <2>11. "ascent" \in e.needs /\ "open" \notin e.needs => e.needs = {"ascent"} /\ e.needs # Whole
    BY <2>1 DEF Whole
  <2> QED
    BY <2>6, <2>7, <2>8, <2>9, <2>10, <2>11 DEF e
<1>4. n = 1 \/ n >= 2
  <2> HIDE DEF n, e
  <2> QED
    BY <1>1
<1> QED
  BY <1>2, <1>3, <1>4, Zenon

(* An entry keeps its place while the stack below it stays.                *)
LEMMA Kept ==
  ASSUME NEW w \in TreeType, NEW x \in TreeType, NEW k \in Nat, k >= 2, Linked(w, k),
         k <= Len(w.stack),
         \A j \in 1..k : x.stack[j] = w.stack[j],
         w.stack[k].needs = {"open", "ascent"} => k = x.current /\ k = Len(x.stack),
         Entered(w, k) => w.stack[k].dirname_length < x.dirname_length,
         x.dirname_length <= w.dirname_length + 1,
         \A i \in 1..w.dirname_length : i <= x.dirname_length => x.path[i] = w.path[i]
  PROVE  Linked(x, k)
<1> DEFINE s == w.stack
           r == x.stack
           e == s[k]
<1>1. e \in EntryType /\ w.dirname_length \in Nat /\ x.dirname_length \in Nat
  BY Entries DEF TreeType
<1>2. e.parent \in 1..(k - 1) /\ e.dirname_length \in Nat /\ r[k] = e
      /\ \A j \in 1..k : r[j] = s[j]
  <2>1. e.parent \in 1..(k - 1)
    BY DEF Linked
  <2>2. e.dirname_length \in Nat
    BY <1>1 DEF EntryType
  <2> QED
    BY <2>1, <2>2
<1>3. \A j \in 1..k : Entered(x, j) <=> Entered(w, j)
  BY DEF Entered
<1>4. Dir(x, e.parent) = Dir(w, e.parent)
  BY <1>2 DEF Dir
<1>5. Entered(w, k) => x.path[e.dirname_length + 1] = e.name
  <2>1. Entered(w, k) => e.dirname_length < w.dirname_length /\ w.path[e.dirname_length + 1] = e.name
                         /\ e.dirname_length < x.dirname_length
    BY DEF Linked
  <2> HIDE DEF e
  <2> QED
    BY <2>1, <1>1, <1>2
<1>6. /\ e.needs \in {Whole, {"open", "ascent"}, {"ascent"}}
      /\ Entered(x, e.parent)
      /\ \A j \in (e.parent + 1)..(k - 1) : ~Entered(x, j)
      /\ e.needs = {"open", "ascent"} => k = x.current /\ k = Len(x.stack)
  BY <1>2, <1>3 DEF Linked
<1>7. e.symlink_parent = IF Entered(x, k) /\ e.link THEN Dir(x, e.parent) ELSE Nothing
  BY <1>3, <1>4 DEF Linked
<1>8. e.dirname_length = IF e.parent <= 1 THEN 0 ELSE r[e.parent].dirname_length + 1
  BY <1>2 DEF Linked
<1>9. \A j \in 2..(k - 1) : Entered(x, j) => r[j].dirname_length < e.dirname_length
  BY <1>2, <1>3 DEF Linked
<1>10. Entered(x, k) => e.dirname_length < x.dirname_length
  BY <1>3
<1>11. e.parent \in 1..(k - 1) /\ x.stack[k] = e
  BY <1>2
<1>12. /\ e.dirname_length = IF e.parent <= 1 THEN 0 ELSE x.stack[e.parent].dirname_length + 1
       /\ \A j \in 2..(k - 1) : Entered(x, j) => x.stack[j].dirname_length < e.dirname_length
  BY <1>8, <1>9
<1> DEFINE L(f) ==
      /\ f.needs \in {Whole, {"open", "ascent"}, {"ascent"}}
      /\ f.parent \in 1..(k - 1) /\ Entered(x, f.parent)
      /\ \A j \in (f.parent + 1)..(k - 1) : ~Entered(x, j)
      /\ f.needs = {"open", "ascent"} => k = x.current /\ k = Len(x.stack)
      /\ f.symlink_parent = IF Entered(x, k) /\ f.link THEN Dir(x, f.parent) ELSE Nothing
      /\ f.dirname_length = IF f.parent <= 1 THEN 0 ELSE x.stack[f.parent].dirname_length + 1
      /\ \A j \in 2..(k - 1) : Entered(x, j) => x.stack[j].dirname_length < f.dirname_length
      /\ Entered(x, k) => /\ f.dirname_length < x.dirname_length
                          /\ x.path[f.dirname_length + 1] = f.name
<1> HIDE DEF e
<1>13. L(e)
  <2>1. Entered(x, k) => x.path[e.dirname_length + 1] = e.name
    BY <1>3, <1>5
  <2> QED
    BY <1>6, <1>7, <1>10, <1>11, <1>12, <2>1, Zenon
<1>14. (\A f : L(f) => Linked(x, k) \/ f # x.stack[k])
  BY Zenon DEF Linked
<1> QED
  BY <1>11, <1>13, <1>14, Zenon

(* A directory that is entered.                                            *)
LEMMA DescentShape ==
  ASSUME Types, Shape(t), Placed(t), t.working_dir \in Nodes, Descent
  PROVE  Shape(t')
<1> DEFINE n == Len(t.stack)
           s == t.stack
           r == t'.stack
           c == t.current
           dir == Follow(Object(t.working_dir, s[n].name))
<1>0. Bottom(t) /\ Current(t) /\ t \in TreeType /\ disk \in DiskType
      /\ \A k \in 2..n : Linked(t, k)
  BY DEF Shape, Types
<1>1. t.dirname_length <= Len(t.path)
  BY <1>0 DEF Current
<1>2. /\ t' \in TreeType /\ n >= 1 /\ ~t.d.on /\ "descent" \in s[n].needs
      /\ dir \in Nodes /\ IsDirectory(dir) /\ t'.working_dir = dir
      /\ t'.d = t.d /\ t'.current = n /\ t'.dirname_length = t.dirname_length + 1
      /\ Len(r) = n /\ \A k \in 1..(n - 1) : r[k] = s[k]
      /\ r[n] = [s[n] EXCEPT !.needs = @ \ {"descent"},
                             !.symlink_parent = IF s[n].link THEN t.working_dir ELSE @]
      /\ Len(t'.path) = t.dirname_length + 1 /\ t'.path[t.dirname_length + 1] = s[n].name
      /\ \A i \in 1..t.dirname_length : t'.path[i] = t.path[i]
  BY <1>0, <1>1, DescentStep
<1>3. n \in Nat /\ (\A k \in 1..n : s[k] \in EntryType) /\ t.dirname_length \in Nat
  BY <1>0, Entries DEF TreeType
<1>4. n >= 2 /\ s[n].needs = Whole /\ ~Entered(t, n) /\ s[n].parent = c /\ c \in 1..(n - 1)
  BY <1>0, <1>2, TopFacts
<1>5. s[n] \in EntryType
  BY <1>3, <1>4
<1>6. /\ r[n].needs = {"open", "ascent"} /\ r[n].parent = c /\ r[n].link = s[n].link
      /\ r[n].ino = s[n].ino /\ r[n].name = s[n].name /\ r[n].dirname_length = s[n].dirname_length
      /\ r[n].symlink_parent = IF s[n].link THEN t.working_dir ELSE s[n].symlink_parent
  BY <1>2, <1>4, <1>5 DEF EntryType, Whole
<1>7. Entered(t', n) /\ \A k \in 1..(n - 1) : Entered(t', k) <=> Entered(t, k)
  BY <1>2, <1>6 DEF Entered
<1>8. dir = s[n].ino
  <2>1. LeadsTo(s[n].name, Dir(t, c), s[n].ino)
    BY <1>3, <1>4 DEF Placed
  <2>2. t.working_dir = Dir(t, c)
    BY <1>0 DEF Current
  <2>3. s[n].name \in Nodes /\ Nothing \notin Nodes
    BY <1>0, <1>5, Lookups DEF EntryType
  <2> HIDE DEF n, s
  <2>4. LeadsTo(s[n].name, t.working_dir, s[n].ino) /\ IsDirectory(dir)
    BY <2>1, <2>2, <1>2
  <2> QED
    BY <2>3, <2>4 DEF LeadsTo, Gone, IsDirectory, Object, Follow
<1>9. \A k \in 0..(n - 1) : Dir(t', k) = Dir(t, k)
  BY <1>2 DEF Dir
<1>10. Dir(t', n) = dir /\ Dir(t, c) = t.working_dir
  BY <1>0, <1>4, <1>6, <1>8 DEF Dir, Current
<1>11. Linked(t, n) /\ s[n].dirname_length \in Nat
  BY <1>0, <1>3, <1>4, <1>5 DEF EntryType
<1>12. s[n].dirname_length = t.dirname_length
  BY <1>0, <1>4, <1>11 DEF Linked, Current
<1> HIDE DEF n, s, r, c, dir
<1>13. Bottom(t')
  <2>1. r[1] = s[1]
    BY <1>2, <1>3, <1>4
  <2> QED
    BY <1>0, <1>2, <2>1 DEF Bottom, n, s, r
<1>14. ASSUME NEW k \in 2..(n - 1) PROVE Linked(t', k)
  <2>1. k \in 2..n /\ k # n /\ k \in Nat /\ k >= 2 /\ k <= n
    BY <1>3
  <2>2. Linked(t, k) /\ \A j \in 1..k : r[j] = s[j]
    BY <2>1, <1>0, <1>2
  <2>3. s[k].needs # {"open", "ascent"}
    BY <2>1, <2>2 DEF Linked, n, s
  <2>4. Entered(t, k) => s[k].dirname_length < t'.dirname_length
    <3>1. Entered(t, k) => s[k].dirname_length < t.dirname_length
      BY <2>2 DEF Linked, s
    <3>2. s[k] \in EntryType
      BY <2>1, <1>3
    <3>3. s[k].dirname_length \in Nat
      BY <3>2 DEF EntryType
    <3> QED
      BY <3>1, <3>3, <1>2, <1>3
  <2>5. t'.dirname_length <= t.dirname_length + 1
        /\ \A i \in 1..t.dirname_length : i <= t'.dirname_length => t'.path[i] = t.path[i]
    BY <1>2, <1>3
  <2> QED
    BY <2>1, <2>2, <2>3, <2>4, <2>5, <1>0, <1>2, Kept DEF n, s, r
<1>15. Linked(t', n)
  <2>1. s[n].symlink_parent = Nothing
    BY <1>4, <1>11 DEF Linked, s
  <2>2. r[n].symlink_parent = IF r[n].link THEN Dir(t', c) ELSE Nothing
    BY <2>1, <1>4, <1>6, <1>9, <1>10, <1>3
  <2>3. Entered(t', c) /\ \A j \in (c + 1)..(n - 1) : ~Entered(t', j)
    BY <1>3, <1>4, <1>7, <1>11 DEF Linked, s
  <2>4. r[n].dirname_length = IF c <= 1 THEN 0 ELSE r[c].dirname_length + 1
    BY <1>2, <1>3, <1>4, <1>6, <1>11 DEF Linked, s
  <2>5. ASSUME NEW j \in 2..(n - 1), Entered(t', j)
        PROVE  r[j].dirname_length < r[n].dirname_length
    <3>1. j \in 1..(n - 1)
      BY <1>3
    <3>2. Entered(t, j) /\ r[j] = s[j]
      BY <3>1, <2>5, <1>2, <1>7
    <3>3. s[j].dirname_length < s[n].dirname_length
      BY <3>2, <1>11 DEF Linked, s
    <3> QED
      BY <3>2, <3>3, <1>6
  <2>6. r[n].dirname_length < t'.dirname_length /\ t'.path[r[n].dirname_length + 1] = r[n].name
    BY <1>2, <1>3, <1>6, <1>12
  <2> QED
    BY <2>2, <2>3, <2>4, <2>5, <2>6, <1>2, <1>4, <1>6, <1>7 DEF Linked, r
<1>16. Current(t')
  <2>1. "visit" \notin r[1].needs
    <3>1. "visit" \notin s[1].needs
      <4>1. n >= 1 /\ "visit" \in s[1].needs => n = 1
        BY <1>0 DEF Current, n, s
      <4> QED
        BY <4>1, <1>3, <1>4
    <3> QED
      BY <3>1, <1>2, <1>3, <1>4
  <2>2. n \in 1..n /\ \A j \in (n + 1)..n : ~Entered(t', j)
    BY <1>3, <1>4
  <2>3. t'.working_dir = Dir(t', n)
    BY <1>2, <1>10
  <2>4. t'.dirname_length = (IF n <= 1 THEN 0 ELSE r[n].dirname_length + 1)
        /\ t'.dirname_length <= Len(t'.path)
    BY <1>2, <1>3, <1>4, <1>6, <1>12
  <2>5. n # 0
    BY <1>3, <1>4
  <2> QED
    BY <2>1, <2>2, <2>3, <2>4, <2>5, <1>2, <1>7 DEF Current, r
<1>17. \A k \in 2..n : k = n \/ k \in 2..(n - 1)
  BY <1>3
<1> QED
  BY <1>2, <1>13, <1>14, <1>15, <1>16, <1>17 DEF Shape, r

(* The top of the stack goes.                                              *)
LEMMA PoppedShape ==
  ASSUME NEW w \in TreeType, NEW x \in TreeType, Shape(w), Len(w.stack) >= 1, ~x.d.on,
         Len(x.stack) = Len(w.stack) - 1,
         \A k \in 1..(Len(w.stack) - 1) : x.stack[k] = w.stack[k],
         x.current = w.stack[Len(w.stack)].parent,
         x.dirname_length = w.stack[Len(w.stack)].dirname_length,
         x.working_dir = Dir(w, w.stack[Len(w.stack)].parent),
         x.dirname_length <= Len(x.path),
         \A i \in 1..w.dirname_length : i <= x.dirname_length => x.path[i] = w.path[i]
  PROVE  Shape(x)
<1> DEFINE n == Len(w.stack)
           s == w.stack
           r == x.stack
<1>0. Bottom(w) /\ Current(w) /\ \A k \in 2..n : Linked(w, k)
  BY DEF Shape
<1>1. n \in Nat /\ n >= 1 /\ (\A k \in 1..n : s[k] \in EntryType) /\ w.dirname_length \in Nat
      /\ x.dirname_length \in Nat
  BY Entries DEF TreeType
<1>2. Len(r) = n - 1 /\ (\A k \in 1..(n - 1) : r[k] = s[k]) /\ x.current = s[n].parent
      /\ x.dirname_length = s[n].dirname_length /\ x.working_dir = Dir(w, s[n].parent)
  OBVIOUS
<1>3. s[n] \in EntryType
  BY <1>1
<1>4. \A k \in 1..(n - 1) : Entered(x, k) <=> Entered(w, k)
  BY <1>2 DEF Entered
<1> HIDE DEF n, s, r
<1>5. CASE n = 1
  <2>1. s[1].parent = 0 /\ s[1].dirname_length = 0
    BY <1>0, <1>1 DEF Bottom, n, s
  <2>2. x.current = 0 /\ x.dirname_length = 0 /\ Len(r) = 0 /\ x.working_dir = Cwd
    BY <2>1, <1>5, <1>2 DEF Dir
  <2>3. Bottom(x)
    BY <2>2 DEF Bottom, r
  <2>4. Current(x)
    BY <2>2 DEF Current, Dir, r
  <2>5. \A k \in 2..Len(r) : FALSE
    BY <2>2
  <2> QED
    BY <2>3, <2>4, <2>5 DEF Shape, r
<1>6. CASE n >= 2
  <2> DEFINE p == s[n].parent
  <2>1. Linked(w, n)
    BY <1>0, <1>6, <1>1
  <2>2. p \in 1..(n - 1) /\ Entered(w, p) /\ (\A j \in (p + 1)..(n - 1) : ~Entered(w, j))
        /\ s[n].dirname_length = (IF p <= 1 THEN 0 ELSE s[p].dirname_length + 1)
        /\ (\A j \in 2..(n - 1) : Entered(w, j) => s[j].dirname_length < s[n].dirname_length)
        /\ s[n].dirname_length \in Nat
    BY <2>1, <1>3 DEF Linked, s, EntryType
  <2>3. s[n].dirname_length <= w.dirname_length
    <3>1. Entered(w, n) => s[n].dirname_length < w.dirname_length
      BY <2>1 DEF Linked, s
    <3>2. ~Entered(w, n) => s[n].dirname_length = w.dirname_length
      <4>1. ~Entered(w, n) => p = w.current
        <5>1. ~Entered(w, n) => "descent" \in s[n].needs
          BY DEF Entered, s
        <5> QED
          BY <5>1, <1>1, TopFacts DEF s, n
      <4> QED
        BY <4>1, <2>2, <1>0 DEF Current, s
    <3> HIDE DEF p
    <3> QED
      BY <3>1, <3>2, <2>2, <1>1
  <2> HIDE DEF p
  <2>4. ASSUME NEW k \in 2..(n - 1) PROVE Linked(x, k)
    <3>1. k \in 2..n /\ k # n /\ k \in Nat /\ k >= 2 /\ k <= n
      BY <1>1
    <3>2. Linked(w, k) /\ \A j \in 1..k : r[j] = s[j]
      BY <3>1, <1>0, <1>2
    <3>3. s[k].needs # {"open", "ascent"}
      BY <3>1, <3>2 DEF Linked, n, s
    <3>4. Entered(w, k) => s[k].dirname_length < x.dirname_length
      BY <2>2, <1>2
    <3>5. x.dirname_length <= w.dirname_length + 1
      BY <2>3, <1>2, <1>1, <2>2
    <3> QED
      BY <3>1, <3>2, <3>3, <3>4, <3>5, Kept DEF n, s, r
  <2>5. Bottom(x)
    <3>1. r[1] = s[1]
      BY <1>2, <1>1, <1>6
    <3> QED
      BY <1>0, <1>1, <3>1 DEF Bottom, n, s, r
  <2>6. Current(x)
    <3>1. "visit" \notin r[1].needs
      <4>1. "visit" \notin s[1].needs
        <5>1. n >= 1 /\ "visit" \in s[1].needs => n = 1
          BY <1>0 DEF Current, n, s
        <5> QED
          BY <5>1, <1>1, <1>6
      <4> QED
        BY <4>1, <1>2, <1>1, <1>6
    <3>2. Len(r) = n - 1 /\ n - 1 # 0 /\ x.current = p
      BY <1>1, <1>2, <1>6 DEF p
    <3>3. Entered(x, p) /\ \A j \in (p + 1)..(n - 1) : ~Entered(x, j)
      BY <2>2, <1>4, <1>1
    <3>4. Dir(x, p) = Dir(w, p)
      BY <2>2, <1>2 DEF Dir, r, s
    <3>5. x.dirname_length = IF p <= 1 THEN 0 ELSE r[p].dirname_length + 1
      BY <2>2, <1>2
    <3>6. x.working_dir = Dir(x, p)
      BY <3>4, <1>2 DEF p
    <3> QED
      BY <2>2, <3>1, <3>2, <3>3, <3>5, <3>6 DEF Current, r
  <2> QED
    BY <2>4, <2>5, <2>6, <1>2 DEF Shape, r
<1>7. n = 1 \/ n >= 2
  BY <1>1
<1> QED
  BY <1>5, <1>6, <1>7

LEMMA DescentFailsShape ==
  ASSUME Types, Shape(t), DescentFails
  PROVE  Shape(t')
<1>0. t \in TreeType /\ t.dirname_length <= Len(t.path) /\ t.dirname_length \in Nat
      /\ Current(t)
  BY DEF Types, Shape, Current, TreeType
<1> DEFINE n == Len(t.stack)
           e == t.stack[n]
<1>1. /\ t' \in TreeType /\ n >= 1 /\ ~t.d.on /\ "descent" \in e.needs
      /\ t'.d = t.d /\ t'.working_dir = t.working_dir
      /\ t'.current = e.parent /\ t'.dirname_length = e.dirname_length
      /\ Len(t'.stack) = n - 1 /\ \A k \in 1..(n - 1) : t'.stack[k] = t.stack[k]
      /\ Len(t'.path) = t.dirname_length + 1
      /\ \A i \in 1..t.dirname_length : t'.path[i] = t.path[i]
  BY <1>0, DescentFailsStep
<1>2. n >= 2 /\ ~Entered(t, n) /\ e.parent = t.current
  BY <1>0, <1>1, TopFacts
<1>3. Linked(t, n)
  BY <1>2, <1>0, Entries DEF Shape
<1>4. e.dirname_length = t.dirname_length
  BY <1>0, <1>2, <1>3 DEF Linked, Current
<1>5. t'.working_dir = Dir(t, e.parent)
  BY <1>0, <1>1, <1>2 DEF Current
<1>6. t'.dirname_length <= Len(t'.path)
  BY <1>0, <1>1, <1>4
<1> QED
  BY <1>0, <1>1, <1>5, <1>6, PoppedShape

LEMMA DeadShape ==
  ASSUME Types, Shape(t), Dead
  PROVE  Shape(t')
<1>0. t \in TreeType /\ t.dirname_length <= Len(t.path) /\ t.dirname_length \in Nat
      /\ Current(t) /\ Bottom(t)
  BY DEF Types, Shape, Current, TreeType
<1> DEFINE n == Len(t.stack)
           e == t.stack[n]
<1>1. /\ t' \in TreeType /\ n >= 1 /\ ~t.d.on /\ e.needs = {}
      /\ t'.d = t.d /\ t'.working_dir = t.working_dir
      /\ t'.current = IF t.current = n THEN e.parent ELSE t.current
      /\ t'.dirname_length = e.dirname_length
      /\ Len(t'.stack) = n - 1 /\ \A k \in 1..(n - 1) : t'.stack[k] = t.stack[k]
      /\ Len(t'.path) = t.dirname_length
      /\ \A i \in 1..t.dirname_length : t'.path[i] = t.path[i]
  BY <1>0, DeadStep
<1>2. n = 1 /\ t.current = 1
  BY <1>0, <1>1, TopFacts
<1>3. e.parent = 0 /\ e.dirname_length = 0
  BY <1>0, <1>2 DEF Bottom
<1>4. t'.current = e.parent /\ t'.working_dir = Dir(t, e.parent)
  BY <1>0, <1>1, <1>2, <1>3 DEF Current, Dir
<1>5. t'.dirname_length <= Len(t'.path)
  BY <1>0, <1>1, <1>3
<1> QED
  BY <1>0, <1>1, <1>4, <1>5, PoppedShape

(* The way back leads to the directory the entry was found in.             *)
LEMMA AscendedShape ==
  ASSUME Types, Housed(disk), Shape(t), Placed(t), t.working_dir \in Nodes, Len(t.stack) >= 2,
         ~t.d.on, Entered(t, Len(t.stack)), t.current = Len(t.stack),
         NEW visit \in {"error", "postascent"}, Ascended(visit)
  PROVE  Shape(t') /\ t'.working_dir \in Nodes
<1> DEFINE n == Len(t.stack)
           e == t.stack[n]
<1>0. t \in TreeType /\ t.dirname_length <= Len(t.path) /\ t.dirname_length \in Nat
      /\ Current(t) /\ n \in Nat /\ disk \in DiskType /\ n >= 1
  BY Entries DEF Types, Shape, Current, TreeType
<1>1. /\ t' \in TreeType
      /\ t'.working_dir = IF e.link THEN e.symlink_parent ELSE Up(t.working_dir)
      /\ t'.d = t.d
      /\ t'.current = IF t.current = n THEN e.parent ELSE t.current
      /\ t'.dirname_length = e.dirname_length
      /\ Len(t'.stack) = n - 1 /\ \A k \in 1..(n - 1) : t'.stack[k] = t.stack[k]
      /\ Len(t'.path) = t.dirname_length
      /\ \A i \in 1..t.dirname_length : t'.path[i] = t.path[i]
  BY <1>0, AscendedStep
<1>2. n \in 2..n
  BY <1>0
<1>3. Linked(t, n) /\ e \in EntryType
  BY <1>0, <1>2, Entries DEF Shape
<1>4. e.parent \in 1..(n - 1) /\ Entered(t, e.parent)
      /\ e.dirname_length < t.dirname_length
      /\ (e.link => e.symlink_parent = Dir(t, e.parent))
  BY <1>3 DEF Linked
<1>5. t.working_dir = e.ino
  <2>1. t.working_dir = Dir(t, t.current)
    BY <1>0 DEF Current
  <2>2. ~(n <= 1)
    BY <1>0
  <2> QED
    BY <2>1, <2>2 DEF Dir
<1>6. LeadsTo(e.name, Dir(t, e.parent), e.ino) /\ (e.name # e.ino => e.link)
  BY <1>2 DEF Placed
<1>8. Dir(t, e.parent) \in Nodes
  <2>1. CASE e.parent <= 1
    BY <2>1, NodesAssumption DEF Dir
  <2>2. CASE ~(e.parent <= 1)
    <3>1. e.parent \in 2..n /\ e.parent \in 1..n
      BY <2>2, <1>4, <1>0
    <3>2. t.stack[e.parent].ino # Nothing /\ t.stack[e.parent] \in EntryType
      BY <3>1, <1>0, <1>4, Entries DEF Placed
    <3> QED
      BY <2>2, <3>2 DEF Dir, EntryType, MaybeNode
  <2> QED
    BY <2>1, <2>2
<1>7. t'.working_dir = Dir(t, e.parent)
  <2>1. CASE e.link
    BY <2>1, <1>1, <1>4
  <2>2. CASE ~e.link
    <3>1. disk.up[t.working_dir] = Dir(t, e.parent)
      BY <2>2, <1>5, <1>6 DEF LeadsTo
    <3>2. t.working_dir # Cwd
      <4>1. Nothing \notin Nodes
        BY <1>0, Lookups
      <4>2. disk.up[Cwd] = Nothing
        BY DEF Housed
      <4> QED
        BY <4>1, <4>2, <3>1, <1>8
    <3> QED
      BY <2>2, <3>1, <3>2, <1>1 DEF Up
  <2> QED
    BY <2>1, <2>2
<1>9. t'.dirname_length <= Len(t'.path) /\ t'.current = e.parent /\ ~t'.d.on
  BY <1>1, <1>3, <1>4, <1>0 DEF EntryType
<1> QED
  BY <1>0, <1>1, <1>7, <1>8, <1>9, PoppedShape

-----------------------------------------------------------------------------
(* The data of an entry.                                                   *)

(* The regions of a file end with the file.                                *)
LEMMA Regions ==
  ASSUME NEW layout \in Layouts, NEW size \in Nat, Fits(layout, size)
  PROVE  LET l == SparseList(size, layout)   n == Len(l) IN
         /\ l \in Seq(RegionType) /\ n \in Nat \ {0}
         /\ \A k \in 1..(n - 1) : l[k].offset + l[k].length <= l[k + 1].offset
         /\ \A k \in 1..n : l[k].offset + l[k].length <= size
         /\ l[n].offset + l[n].length = size
<1> DEFINE l == SparseList(size, layout)
           n == Len(l)
           m == Len(layout)
<1>1. /\ layout \in Seq(RegionType) /\ m \in Nat
      /\ \A k \in 1..(m - 1) : layout[k].offset + layout[k].length <= layout[k + 1].offset
  BY LayoutsAssumption DEF RegionType
<1>2. \A k \in 1..m : layout[k].offset + layout[k].length <= size
  BY <1>1 DEF Fits
<1>3. CASE layout = <<>>
  <2> DEFINE r == [offset |-> 0, length |-> size]
  <2>1. r \in RegionType /\ r.offset + r.length = size
    BY DEF RegionType
  <2>2. l = <<r>>
    BY <1>3 DEF SparseList
  <2> HIDE DEF r
  <2>3. l \in Seq(RegionType) /\ n = 1 /\ l[1] = r
    BY <2>1, <2>2
  <2> HIDE DEF l
  <2>4. /\ \A k \in 1..(n - 1) : l[k].offset + l[k].length <= l[k + 1].offset
        /\ \A k \in 1..n : l[k].offset + l[k].length <= size
        /\ l[n].offset + l[n].length = size
    BY <2>1, <2>3
  <2> QED
    BY <2>3, <2>4 DEF l
<1>4. CASE layout # <<>>
  <2> DEFINE r == [offset |-> size, length |-> 0]
  <2>1. r \in RegionType /\ r.offset = size /\ r.length = 0
    BY DEF RegionType
  <2>2. l = Append(layout, r)
    BY <1>4 DEF SparseList
  <2> HIDE DEF r
  <2>3. l \in Seq(RegionType) /\ n = m + 1 /\ l[n] = r /\ \A k \in 1..m : l[k] = layout[k]
    BY <1>1, <2>1, <2>2
  <2> HIDE DEF l, n, m
  <2>4. ASSUME NEW k \in 1..(n - 1) PROVE l[k].offset + l[k].length <= l[k + 1].offset
    <3>1. k \in 1..m /\ l[k] = layout[k]
      BY <1>1, <2>3
    <3>2. CASE k = m
      BY <3>1, <3>2, <1>2, <2>1, <2>3
    <3>3. CASE k # m
      <4>1. k \in 1..(m - 1) /\ k + 1 \in 1..m
        BY <3>1, <3>3, <1>1
      <4>2. l[k + 1] = layout[k + 1]
        BY <4>1, <2>3
      <4> QED
        BY <3>1, <4>1, <4>2, <1>1
    <3> QED
      BY <3>2, <3>3
  <2>5. ASSUME NEW k \in 1..n PROVE l[k].offset + l[k].length <= size
    <3>1. k \in 1..m \/ k = n
      BY <1>1, <2>3
    <3> QED
      BY <3>1, <1>2, <2>1, <2>3
  <2>6. l[n].offset + l[n].length = size
    BY <2>1, <2>3
  <2> QED
    BY <2>3, <2>4, <2>5, <2>6, <1>1 DEF l, n
<1> QED
  BY <1>3, <1>4

(* The data of an entry starts whole.                                      *)
LEMMA EntryDataSound ==
  ASSUME disk \in DiskType, NEW i \in Nodes, EntryData(i)
  PROVE  /\ entry' \in DataType /\ Sound(entry)' /\ entry'.fd = Nothing
         /\ entry'.size > 0 => disk.kind[i] = "file" /\ entry'.size = disk.size[i] /\ ~entry'.eof
         /\ entry'.size = 0 => entry'.eof
<1>1. CASE entry' = NoFile
  BY <1>1 DEF NoFile, DataType, Sound, MaybeNode, RegionType
<1>2. CASE entry' # NoFile
  <2>1. disk.kind[i] = "file" /\ disk.size[i] # 0 /\ disk.size[i] \in Nat
    BY <1>2 DEF EntryData, DiskType
  <2> DEFINE size == disk.size[i]
  <2>2. PICK layout \in Layouts :
          /\ Fits(layout, size)
          /\ entry' = [NoFile EXCEPT !.list = SparseList(size, layout),
                                     !.remaining = size, !.eof = FALSE, !.size = size]
    BY <2>1, <1>2 DEF EntryData
  <2> DEFINE l == SparseList(size, layout)
             n == Len(l)
  <2>3. /\ l \in Seq(RegionType) /\ n \in Nat \ {0}
        /\ \A k \in 1..(n - 1) : l[k].offset + l[k].length <= l[k + 1].offset
        /\ \A k \in 1..n : l[k].offset + l[k].length <= size
        /\ l[n].offset + l[n].length = size
    BY <2>1, <2>2, Regions
  <2>4. l[1] \in RegionType
    BY <2>3
  <2>a. entry' = [fd |-> Nothing, pos |-> 0, list |-> l, cur |-> 1, total |-> 0,
                  remaining |-> size, eof |-> FALSE, size |-> size, got |-> {}]
    BY <2>2 DEF NoFile
  <2>b. size \in Nat /\ size # 0
    BY <2>1
  <2> HIDE DEF l, size
  <2>5. /\ entry' \in DataType /\ entry'.fd = Nothing /\ entry'.cur = 1 /\ entry'.total = 0
        /\ entry'.remaining = size /\ entry'.size = size /\ entry'.got = {} /\ ~entry'.eof
        /\ entry'.list = l
    BY <2>a, <2>b, <2>3 DEF DataType, MaybeNode
  <2>6. l[1].offset >= 0
    BY <2>4 DEF RegionType
  <2>7. Sound(entry')
    BY <2>1, <2>3, <2>5, <2>6 DEF Sound, size
  <2> QED
    BY <2>1, <2>5, <2>7 DEF Sound, size
<1> QED
  BY <1>1, <1>2

(* Bytes are taken from the region that reading stands at.                 *)
LEMMA DeliveredSound ==
  ASSUME NEW e \in DataType, Sound(e), e.size > 0, ~e.eof, e.pos = e.total, e.fd # Nothing,
         e.list[e.cur].offset = e.total, NEW n \in Nat, n <= e.list[e.cur].length
  PROVE  LET x == Delivered(e, n) IN
         /\ x \in DataType /\ Sound(x) /\ x.fd = e.fd /\ x.size = e.size
         /\ (x.eof <=> e.remaining = n)
         /\ x.eof => x.total = x.size
<1> DEFINE c == e.cur
           m == Len(e.list)
           o == e.list[c].offset + n
           h == e.list[c].length - n
           r == [offset |-> o, length |-> h]
           l == [e.list EXCEPT ![c] = r]
           p == e.pos + n
           s == e.total + n
           q == e.remaining - n
           g == e.got \cup {[at |-> e.total + k, byte |-> e.pos + k] : k \in 0..(n - 1)}
           f == (e.remaining = n)
           d == [e EXCEPT !.got = g, !.pos = p, !.total = s, !.remaining = q,
                          !.eof = f, !.list = l]
           x == Delivered(e, n)
<1>1. /\ e.list \in Seq(RegionType) /\ m \in Nat /\ e.pos \in Nat /\ e.total \in Nat
      /\ e.remaining \in Int /\ e.size \in Nat /\ c \in Nat /\ e.got \in SUBSET [at : Nat, byte : Nat]
  BY DEF DataType
<1>2. /\ c \in 1..m /\ e.total <= e.size /\ e.remaining = e.size - e.total
      /\ \A b \in e.got : b.at = b.byte
      /\ \A k \in 1..(c - 1) : e.list[k].length = 0
      /\ \A k \in c..(m - 1) : e.list[k].offset + e.list[k].length <= e.list[k + 1].offset
      /\ \A k \in c..m : e.list[k].offset + e.list[k].length <= e.size
      /\ e.list[m].offset + e.list[m].length = e.size
  BY DEF Sound
<1>3. e.list[c] \in RegionType
  BY <1>1, <1>2
<1>4. e.list[c].offset \in Nat /\ e.list[c].length \in Nat
  BY <1>3 DEF RegionType
<1>b. o \in Nat /\ h \in Nat /\ o = e.total + n /\ p \in Nat /\ s \in Nat /\ q \in Int
  <2> DEFINE u == e.list[c].offset
             v == e.list[c].length
  <2>1. u \in Nat /\ v \in Nat /\ u = e.total /\ n <= v
    BY <1>4
  <2> HIDE DEF u, v
  <2>2. u + n \in Nat /\ v - n \in Nat /\ u + n = e.total + n
    BY <2>1, <1>1
  <2>3. p \in Nat /\ s \in Nat /\ q \in Int
    BY <1>1
  <2> QED
    BY <2>2, <2>3 DEF u, v
<1>c. r \in RegionType /\ r.offset = o /\ r.length = h
  <2> HIDE DEF o, h
  <2> QED
    BY <1>b DEF RegionType
<1>5. r \in RegionType /\ r.offset = e.total + n /\ r.length = e.list[c].length - n
  BY <1>b, <1>c
<1> HIDE DEF r
<1>6. l \in Seq(RegionType) /\ Len(l) = m /\ l[c] = r
      /\ \A k \in 1..m : k # c => l[k] = e.list[k]
  BY <1>1, <1>2, <1>5
<1>7. g \in SUBSET [at : Nat, byte : Nat] /\ \A b \in g : b.at = b.byte
  BY <1>1, <1>2
<1>8. d = [e EXCEPT !.got = @ \cup {[at |-> e.total + k, byte |-> e.pos + k] : k \in 0..(n - 1)},
                    !.pos = @ + n, !.total = @ + n, !.remaining = @ - n,
                    !.eof = (e.remaining = n),
                    !.list[e.cur] = [offset |-> @.offset + n, length |-> @.length - n]]
  BY DEF d, l, g, f, r, DataType
<1>9. x = NextRegion(d)
  BY <1>8 DEF Delivered
<1> HIDE DEF l, g
<1>10. f \in BOOLEAN
  OBVIOUS
<1> HIDE DEF f
<1>d. /\ d \in DataType /\ d.fd = e.fd /\ d.size = e.size /\ d.list = l /\ d.got = g
      /\ d.pos = p /\ d.total = s /\ d.remaining = q /\ d.eof = f /\ d.cur = c
  <2> HIDE DEF p, s, q
  <2> QED
    BY <1>1, <1>b, <1>6, <1>7, <1>10 DEF DataType
<1>11. /\ d \in DataType /\ d.fd = e.fd /\ d.size = e.size /\ d.list = l /\ d.got = g
       /\ d.pos = e.pos + n /\ d.total = e.total + n /\ d.remaining = e.remaining - n
       /\ d.eof = f /\ d.cur = c
  BY <1>d
<1> HIDE DEF d, m, o, h, p, s, q
<1>12. /\ \A k \in 1..(c - 1) : l[k].length = 0
       /\ \A k \in c..(m - 1) : l[k].offset + l[k].length <= l[k + 1].offset
       /\ \A k \in c..m : l[k].offset + l[k].length <= e.size
       /\ l[m].offset + l[m].length = e.size
       /\ l[c].offset = d.total /\ d.total <= e.size
  <2>1. \A k \in 1..(c - 1) : k \in 1..m /\ k # c
    BY <1>1, <1>2
  <2>2. r.offset + r.length = e.list[c].offset + e.list[c].length
    BY <1>1, <1>4, <1>5
  <2>3. \A k \in 1..m : l[k].offset + l[k].length = e.list[k].offset + e.list[k].length
    BY <2>2, <1>6
  <2>4. ASSUME NEW k \in c..(m - 1) PROVE l[k].offset + l[k].length <= l[k + 1].offset
    <3>1. k \in 1..m /\ k + 1 \in 1..m /\ k + 1 # c
      BY SMTT(20), <1>1, <1>2
    <3>2. l[k + 1].offset = e.list[k + 1].offset
      BY <3>1, <1>6
    <3> QED
      BY <3>1, <3>2, <2>3, <1>2
  <2>5. c \in c..m /\ m \in 1..m /\ c..m \subseteq 1..m
    BY <1>1, <1>2
  <2>6. d.total <= e.size
    <3>1. e.list[c].offset + e.list[c].length <= e.size
      BY <2>5, <1>2
    <3> QED
      BY SMTT(20), <3>1, <1>1, <1>4, <1>11
  <2> QED
    BY <2>1, <2>3, <2>4, <2>5, <2>6, <1>2, <1>5, <1>6, <1>11
<1>13. f <=> d.total = e.size
  <2>1. f <=> e.remaining = n
    BY Zenon DEF f
  <2>2. e.remaining \in Int /\ e.size \in Int /\ e.total \in Int
        /\ e.total + e.remaining = e.size
    BY <1>1, <1>2
  <2> QED
    BY <2>1, <2>2, <1>1, <1>11
<1>14. CASE l[c].length = 0 /\ ~f
  <2>1. x = [d EXCEPT !.cur = c + 1]
    BY <1>9, <1>11, <1>14 DEF NextRegion, DataType
  <2>2. c + 1 \in 1..m
    <3>1. CASE c = m
      BY <3>1, <1>1, <1>4, <1>5, <1>6, <1>12, <1>13, <1>14
    <3> QED
      BY <3>1, <1>1, <1>2
  <2>3. x \in DataType /\ x.fd = e.fd /\ x.size = e.size /\ x.list = l /\ x.got = g
        /\ x.pos = d.pos /\ x.total = d.total /\ x.remaining = d.remaining
        /\ x.eof = f /\ x.cur = c + 1
    <3>1. c + 1 \in Nat
      BY <1>1
    <3> QED
      BY <2>1, <3>1, <1>11 DEF DataType
  <2>4. \A k \in 1..((c + 1) - 1) : l[k].length = 0
    BY <1>1, <1>12, <1>14
  <2>5. l[c + 1].offset >= d.total
    <3>1. c \in c..(m - 1)
      BY <2>2, <1>1
    <3>2. l[c].offset + l[c].length <= l[c + 1].offset
      BY <3>1, <1>12
    <3>3. l[c + 1] \in RegionType
      BY <2>2, <1>6
    <3>4. l[c + 1].offset \in Nat /\ d.total \in Nat
      BY <3>3, <1>11 DEF RegionType, DataType
    <3> QED
      BY <3>2, <3>4, <1>12, <1>14
  <2>6. /\ \A k \in (c + 1)..(m - 1) : l[k].offset + l[k].length <= l[k + 1].offset
        /\ \A k \in (c + 1)..m : l[k].offset + l[k].length <= e.size
    <3>1. (c + 1)..(m - 1) \subseteq c..(m - 1) /\ (c + 1)..m \subseteq c..m
      BY <1>1
    <3> QED
      BY <3>1, <1>12
  <2>7. d.remaining = e.size - d.total /\ d.pos = d.total
    BY <1>1, <1>2, <1>11
  <2> HIDE DEF x
  <2>9. Sound(x)
    BY <2>2, <2>3, <2>4, <2>5, <2>6, <2>7, <1>6, <1>7, <1>12, <1>13 DEF Sound
  <2>10. x.eof => x.total = x.size
    BY <2>3, <1>13
  <2> QED
    BY <2>3, <2>9, <2>10 DEF x, f
<1>15. CASE ~(l[c].length = 0 /\ ~f)
  <2>1. x = d
    BY <1>9, <1>11, <1>15 DEF NextRegion
  <2>2. l[c].offset >= d.total
    BY <1>1, <1>11, <1>12
  <2>3. d.remaining = e.size - d.total /\ d.pos = d.total
    BY <1>1, <1>2, <1>11
  <2> HIDE DEF x
  <2>4. Sound(x)
    BY <2>1, <2>2, <2>3, <1>2, <1>6, <1>7, <1>11, <1>12, <1>13 DEF Sound
  <2>5. x.eof => x.total = x.size
    BY <2>1, <1>11, <1>13
  <2> QED
    BY <2>1, <2>4, <2>5, <1>11 DEF x, f
<1> QED
  BY <1>14, <1>15

(* A hole is skipped: reading stands where the region begins.              *)
LEMMA AtRegionSound ==
  ASSUME entry \in DataType, Sound(entry), entry.size > 0, ~entry.eof, entry.fd # Nothing
  PROVE  /\ AtRegion \in DataType /\ Sound(AtRegion) /\ ~AtRegion.eof
         /\ AtRegion.fd = entry.fd /\ AtRegion.size = entry.size
         /\ AtRegion.cur = entry.cur /\ AtRegion.list = entry.list
         /\ AtRegion.pos = AtRegion.total /\ Region.offset = AtRegion.total
         /\ entry.cur \in 1..Len(entry.list) /\ Region \in RegionType
         /\ Region.offset + Region.length <= entry.size
<1> DEFINE c == entry.cur
           m == Len(entry.list)
           o == Region.offset
           h == Region.length
           q == entry.remaining - (o - entry.total)
           x == AtRegion
<1>1. /\ entry.list \in Seq(RegionType) /\ m \in Nat /\ entry.pos \in Nat /\ entry.total \in Nat
      /\ entry.remaining \in Int /\ entry.size \in Nat /\ c \in Nat
  BY DEF DataType
<1>2. /\ c \in 1..m /\ entry.total <= entry.size /\ entry.remaining = entry.size - entry.total
      /\ \A k \in c..m : entry.list[k].offset + entry.list[k].length <= entry.size
      /\ entry.pos = entry.total /\ o >= entry.total
  BY DEF Sound, Region
<1>3. Region \in RegionType
  BY <1>1, <1>2 DEF Region
<1>4. o \in Nat /\ h \in Nat
  BY <1>3 DEF RegionType
<1>5. c \in c..m
  BY <1>1, <1>2
<1>6. entry.list[c].offset + entry.list[c].length <= entry.size
  BY <1>2, <1>5
<1>7. o + h <= entry.size
  BY <1>6 DEF Region
<1>8. CASE o > entry.total
  <2>1. x = [entry EXCEPT !.pos = o, !.total = o, !.remaining = q]
    BY <1>8 DEF AtRegion, DataType
  <2>2. q \in Int /\ q = entry.size - o /\ o <= entry.size
    BY <1>1, <1>2, <1>4, <1>7
  <2> HIDE DEF q, o, h, c, x
  <2>3. x \in DataType /\ x.pos = o /\ x.total = o /\ x.remaining = q /\ x.fd = entry.fd
        /\ x.size = entry.size /\ x.cur = entry.cur /\ x.list = entry.list /\ x.got = entry.got
        /\ x.eof = entry.eof
    BY <2>1, <2>2, <1>4 DEF DataType
  <2>4. x.list[x.cur].offset = o /\ o >= o
    BY <2>3, <1>4 DEF Region, c, o
  <2>5. Sound(x)
    BY <2>2, <2>3, <2>4 DEF Sound
  <2>6. x \in DataType /\ Sound(x) /\ ~x.eof
    BY <2>3, <2>5
  <2>7. x.pos = x.total /\ o = x.total
    BY <2>3
  <2> QED
    BY <2>3, <2>6, <2>7, <1>2, <1>3, <1>7 DEF x, o, h, c
<1>9. CASE ~(o > entry.total)
  <2>1. x = entry
    BY <1>9 DEF AtRegion
  <2>2. o = entry.total
    BY <1>1, <1>2, <1>4, <1>9
  <2> HIDE DEF x
  <2> QED
    BY <2>1, <2>2, <1>2, <1>3, <1>7 DEF x
<1> QED
  BY <1>8, <1>9

(* _archive_read_data_block.                                               *)
LEMMA DataBlockSound ==
  ASSUME disk \in DiskType, entry \in DataType, Sound(entry), Described(t), DataBlock
  PROVE  /\ entry' \in DataType /\ Sound(entry)' /\ entry'.size = entry.size /\ entry.fd # Nothing
         /\ entry'.eof /\ disk.size[entry.fd] = entry.size => entry'.total = entry'.size
         /\ \/ /\ entry'.fd = entry.fd /\ fds' = fds
               /\ atime' = atime \/ atime' = [atime EXCEPT ![entry.fd] = 0]
            \/ /\ entry'.fd = Nothing /\ fds' = fds - 1
               /\ atime' = Restored(entry.fd, t.time)
<1> DEFINE e == AtRegion
           room == IF Region.length < BufSize THEN Region.length ELSE BufSize
           there == disk.size[entry.fd] - e.pos
           most == IF room < there THEN room ELSE there
<1>1. entry.size > 0 /\ ~entry.eof /\ entry.fd # Nothing /\ changed' = changed
      /\ entry.fd \in Nodes
  <2>1. entry.size \in Nat /\ entry.fd \in MaybeNode
    BY DEF DataType
  <2>2. ~entry.eof /\ entry.fd # Nothing /\ changed' = changed
    BY DEF DataBlock
  <2>3. entry.size # 0
    BY <2>2 DEF Described
  <2> QED
    BY <2>1, <2>2, <2>3 DEF MaybeNode
<1>2. /\ e \in DataType /\ Sound(e) /\ ~e.eof /\ e.fd = entry.fd /\ e.size = entry.size
      /\ e.cur = entry.cur /\ e.list = entry.list /\ e.pos = e.total /\ Region.offset = e.total
      /\ entry.cur \in 1..Len(entry.list) /\ Region \in RegionType
      /\ Region.offset + Region.length <= entry.size
  BY <1>1, AtRegionSound
<1>3. Region.length \in Nat /\ BufSize \in Nat \ {0} /\ disk.size[entry.fd] \in Nat
      /\ e.pos \in Nat
  BY <1>1, <1>2, OptionsAssumption DEF RegionType, DiskType, DataType
<1>4. /\ \/ /\ most <= 0 /\ Region.length > 0
            /\ CloseFile([e EXCEPT !.eof = TRUE])
         \/ /\ Region.length = 0
            /\ IF e.remaining = 0 THEN CloseFile(Delivered(e, 0))
               ELSE entry' = Delivered(e, 0) /\ UNCHANGED <<atime, fds>>
         \/ \E n \in 1..most :
              IF e.remaining = n
              THEN CloseFile(Delivered(e, n))
              ELSE /\ entry' = Delivered(e, n)
                   /\ atime' = [atime EXCEPT ![entry.fd] = 0]
                   /\ UNCHANGED fds
  BY DEF DataBlock
<1>5. \A x : Sound(x) /\ changed' = changed => Sound(x)'
  <2>1. a' = a
    BY DEF DataBlock
  <2> QED
    BY <2>1 DEF Sound
<1> HIDE DEF e
<1>6. ASSUME NEW x \in DataType, Sound(x), x.eof, x.fd = entry.fd, x.size = entry.size, CloseFile(x)
      PROVE  /\ entry' \in DataType /\ Sound(entry)' /\ entry'.size = entry.size
             /\ entry'.total = x.total
             /\ entry'.fd = Nothing /\ fds' = fds - 1 /\ atime' = Restored(entry.fd, t.time)
  <2>1. entry' = [x EXCEPT !.fd = Nothing] /\ fds' = fds - 1
        /\ atime' = Restored(entry.fd, t.time)
    BY <1>1, <1>6 DEF CloseFile
  <2>2. entry' \in DataType /\ entry'.fd = Nothing /\ entry'.size = x.size /\ entry'.eof = x.eof
        /\ entry'.cur = x.cur /\ entry'.total = x.total /\ entry'.remaining = x.remaining
        /\ entry'.got = x.got /\ entry'.list = x.list
    BY <2>1 DEF DataType, MaybeNode
  <2>3. Sound(entry)'
    BY <2>2, <1>1, <1>6 DEF Sound
  <2> QED
    BY <2>1, <2>2, <2>3, <1>6
<1>7. ASSUME NEW n \in Nat, n <= Region.length
      PROVE  LET x == Delivered(e, n) IN
             /\ x \in DataType /\ Sound(x) /\ x.fd = entry.fd /\ x.size = entry.size
             /\ (x.eof <=> e.remaining = n)
             /\ x.eof => x.total = x.size
  BY <1>1, <1>2, <1>7, DeliveredSound DEF Region
<1>8. CASE most <= 0 /\ Region.length > 0 /\ CloseFile([e EXCEPT !.eof = TRUE])
  <2> DEFINE x == [e EXCEPT !.eof = TRUE]
  <2>1. x \in DataType /\ x.eof /\ x.fd = e.fd /\ x.size = e.size
        /\ x.cur = e.cur /\ x.total = e.total /\ x.remaining = e.remaining
        /\ x.got = e.got /\ x.list = e.list /\ x.pos = e.pos
    BY <1>2 DEF DataType
  <2>2. disk.size[entry.fd] # entry.size
    BY <1>1, <1>2, <1>3, <1>8
  <2> HIDE DEF x
  <2>3. Sound(x)
    BY <2>1, <1>2 DEF Sound
  <2> QED
    BY <2>1, <2>2, <2>3, <1>1, <1>2, <1>6, <1>8 DEF x
<1>9. CASE /\ Region.length = 0
           /\ IF e.remaining = 0 THEN CloseFile(Delivered(e, 0))
              ELSE entry' = Delivered(e, 0) /\ UNCHANGED <<atime, fds>>
  <2> DEFINE x == Delivered(e, 0)
  <2>1. x \in DataType /\ Sound(x) /\ x.fd = entry.fd /\ x.size = entry.size
        /\ (x.eof <=> e.remaining = 0) /\ (x.eof => x.total = x.size)
    BY <1>3, <1>7
  <2> HIDE DEF x
  <2>2. IF e.remaining = 0 THEN CloseFile(x) ELSE entry' = x /\ UNCHANGED <<atime, fds>>
    BY <1>9 DEF x
  <2>3. CASE e.remaining = 0
    BY <2>1, <2>2, <2>3, <1>1, <1>6
  <2>4. CASE e.remaining # 0
    BY <2>1, <2>2, <2>4, <1>1, <1>5
  <2> QED
    BY <2>3, <2>4
<1>10. CASE \E n \in 1..most :
              IF e.remaining = n
              THEN CloseFile(Delivered(e, n))
              ELSE /\ entry' = Delivered(e, n)
                   /\ atime' = [atime EXCEPT ![entry.fd] = 0]
                   /\ UNCHANGED fds
  <2>1. PICK n \in 1..most :
              IF e.remaining = n
              THEN CloseFile(Delivered(e, n))
              ELSE /\ entry' = Delivered(e, n)
                   /\ atime' = [atime EXCEPT ![entry.fd] = 0]
                   /\ UNCHANGED fds
    BY <1>10
  <2>2. n \in Nat /\ n <= Region.length
    BY <1>3
  <2> DEFINE x == Delivered(e, n)
  <2>3. x \in DataType /\ Sound(x) /\ x.fd = entry.fd /\ x.size = entry.size
        /\ (x.eof <=> e.remaining = n) /\ (x.eof => x.total = x.size)
    BY <2>2, <1>7
  <2> HIDE DEF x
  <2>4. IF e.remaining = n THEN CloseFile(x)
        ELSE entry' = x /\ atime' = [atime EXCEPT ![entry.fd] = 0] /\ UNCHANGED fds
    BY <2>1 DEF x
  <2>5. CASE e.remaining = n
    BY <2>3, <2>4, <2>5, <1>1, <1>6
  <2>6. CASE e.remaining # n
    BY <2>3, <2>4, <2>6, <1>1, <1>5
  <2> QED
    BY <2>5, <2>6
<1> QED
  BY <1>4, <1>8, <1>9, <1>10

-----------------------------------------------------------------------------
(* The stack under the other operations.                                   *)

(* Nothing of the stack changes.                                           *)
LEMMA StillShape ==
  ASSUME NEW w \in TreeType, NEW x \in TreeType, Shape(w),
         x.stack = w.stack, x.current = w.current, x.dirname_length = w.dirname_length,
         x.working_dir = w.working_dir, x.d.on => w.d.on, x.dirname_length <= Len(x.path),
         \A i \in 1..w.dirname_length : x.path[i] = w.path[i]
  PROVE  Shape(x)
<1>1. Bottom(x)
  BY DEF Shape, Bottom
<1>2. Current(x)
  BY DEF Shape, Current, Entered, Dir
<1>3. ASSUME NEW k \in 2..Len(x.stack) PROVE Linked(x, k)
  <2>1. Linked(w, k) /\ k \in 1..Len(w.stack)
    BY Entries DEF Shape
  <2>2. w.stack[k] \in EntryType
    BY <2>1, Entries
  <2>3. w.stack[k].dirname_length \in Nat /\ w.dirname_length \in Nat
    BY <2>2 DEF EntryType, TreeType
  <2>4. Entered(w, k) => w.stack[k].dirname_length + 1 \in 1..w.dirname_length
    <3>1. Entered(w, k) => w.stack[k].dirname_length < w.dirname_length
      BY <2>1 DEF Linked
    <3> QED
      BY <2>3, <3>1
  <2>5. Entered(w, k) =>
          x.path[w.stack[k].dirname_length + 1] = w.path[w.stack[k].dirname_length + 1]
    BY <2>4
  <2>6. \A j : (Entered(x, j) <=> Entered(w, j)) /\ Dir(x, j) = Dir(w, j)
    BY DEF Entered, Dir
  <2>7. \A j \in 1..k : x.stack[j] = w.stack[j]
    OBVIOUS
  <2>8. k \in Nat /\ k >= 2 /\ k <= Len(w.stack)
    BY <2>1
  <2>9. w.stack[k].needs = {"open", "ascent"} => k = x.current /\ k = Len(x.stack)
    BY <2>1 DEF Linked
  <2>10. Entered(w, k) => w.stack[k].dirname_length < x.dirname_length
    BY <2>1 DEF Linked
  <2>11. /\ x.dirname_length <= w.dirname_length + 1
         /\ \A i \in 1..w.dirname_length : i <= x.dirname_length => x.path[i] = w.path[i]
    BY <2>3
  <2> QED
    BY <2>1, <2>7, <2>8, <2>9, <2>10, <2>11, Kept
<1> QED
  BY <1>1, <1>2, <1>3 DEF Shape

LEMMA FirstVisitShape ==
  ASSUME Types, Shape(t), FirstVisit
  PROVE  Shape(t') /\ Len(t'.stack) = 1 /\ t'.current = 1 /\ t'.dirname_length = 0
         /\ Len(t.stack) = 1
<1> DEFINE n == Len(t.stack)
           e == t.stack[n]
<1>1. t \in TreeType /\ Current(t) /\ Bottom(t) /\ t.dirname_length <= Len(t.path)
  BY DEF Types, Shape, Current
<1>2. /\ t' \in TreeType /\ n >= 1 /\ ~t.d.on /\ "visit" \in e.needs
      /\ t'.d = t.d /\ t'.working_dir = t.working_dir
      /\ t'.current = n /\ t'.dirname_length = t.dirname_length
      /\ Len(t'.stack) = n
      /\ t'.stack[n] = [e EXCEPT !.needs = @ \ {"visit"}]
      /\ Len(t'.path) = t.dirname_length + 1
  BY <1>1, FirstVisitStep
<1>3. n = 1 /\ t.current = 0 /\ e.needs = {"visit"}
  BY <1>1, <1>2, TopFacts
<1>4. e \in EntryType
  BY <1>1, <1>3, Entries
<1>5. /\ t'.stack[1].needs = {} /\ t'.stack[1].parent = e.parent /\ t'.stack[1].ino = e.ino
      /\ t'.stack[1].symlink_parent = e.symlink_parent
      /\ t'.stack[1].dirname_length = e.dirname_length
  BY <1>2, <1>3, <1>4 DEF EntryType
<1>6. Bottom(t')
  BY <1>1, <1>3, <1>5 DEF Bottom
<1>7. t.dirname_length = 0 /\ t.working_dir = Cwd
  BY <1>1, <1>3 DEF Current, Dir
<1>8. Entered(t', 1)
  BY <1>5 DEF Entered
<1> HIDE DEF n, e
<1>9. Current(t')
  BY <1>2, <1>3, <1>5, <1>7, <1>8 DEF Current, Dir
<1> QED
  BY <1>2, <1>3, <1>6, <1>7, <1>9 DEF Shape, n

(* The stream of the directory that was entered last.                      *)
LEMMA OpenStreamStep ==
  ASSUME t \in TreeType, Len(t.stack) >= 1, OpenStream
  PROVE  LET n == Len(t.stack) IN
         /\ t' \in TreeType /\ ~t.d.on /\ "open" \in t.stack[n].needs
         /\ "descent" \notin t.stack[n].needs
         /\ t'.d.on /\ t'.d.left = Names(t.working_dir) /\ t'.visit = t.visit
         /\ t'.working_dir = t.working_dir /\ t'.lst = t.lst /\ t'.st = t.st
         /\ t'.descend = t.descend /\ t'.time = t.time /\ t'.restore = t.restore
         /\ t'.current = t.current /\ t'.dirname_length = t.dirname_length /\ t'.path = t.path
         /\ Len(t'.stack) = n /\ \A k \in 1..(n - 1) : t'.stack[k] = t.stack[k]
         /\ t'.stack[n] = [t.stack[n] EXCEPT !.needs = @ \ {"open"}]
<1> DEFINE n == Len(t.stack)
           s == Names(t.working_dir)
           d == [on |-> TRUE, left |-> s]
           u == [t EXCEPT !.d = d]
<1>1. ~t.d.on /\ "open" \in t.stack[n].needs /\ "descent" \notin t.stack[n].needs
  <2>1. ~t.d.on /\ "open" \in t.stack[n].needs /\ t.stack # <<>>
    BY DEF OpenStream, Needs, TopEntry, Last
  <2>2. "descent" \notin t.stack[n].needs
    BY <2>1 DEF OpenStream, Needs, TopEntry, Last
  <2> QED
    BY <2>1, <2>2
<1>2. s \in SUBSET Nodes
  BY DEF Names
<1> HIDE DEF s
<1>3. d \in [on : BOOLEAN, left : SUBSET Nodes] /\ d.on /\ d.left = s
  BY <1>2
<1> HIDE DEF d
<1>4. u \in TreeType /\ u.d = d /\ u.stack = t.stack /\ u.path = t.path /\ u.visit = t.visit
      /\ u.working_dir = t.working_dir /\ u.lst = t.lst /\ u.st = t.st
      /\ u.descend = t.descend /\ u.time = t.time /\ u.restore = t.restore
      /\ u.dirname_length = t.dirname_length /\ u.current = t.current
  BY <1>3 DEF TreeType
<1>5. t' = TopDone(u, "open")
  BY DEF OpenStream, u, d, s
<1> HIDE DEF u
<1>6. /\ t' \in TreeType /\ Same(t', u)
      /\ t'.current = u.current /\ t'.dirname_length = u.dirname_length /\ t'.path = u.path
      /\ Len(t'.stack) = n /\ \A k \in 1..(n - 1) : t'.stack[k] = u.stack[k]
      /\ t'.stack[n] = [u.stack[n] EXCEPT !.needs = @ \ {"open"}]
  BY <1>4, <1>5, Done
<1> QED
  BY <1>1, <1>3, <1>4, <1>6 DEF Same, s

LEMMA OpenStreamShape ==
  ASSUME Types, Shape(t), OpenStream
  PROVE  Shape(t')
<1> DEFINE n == Len(t.stack)
           s == t.stack
           r == t'.stack
<1>0. t \in TreeType /\ Current(t) /\ Bottom(t) /\ n \in Nat /\ (\A k \in 2..n : Linked(t, k))
      /\ (\A k \in 1..n : s[k] \in EntryType) /\ t.dirname_length \in Nat
  BY Entries DEF Types, Shape, TreeType
<1>a. n >= 1
  <2>1. s # <<>>
    BY DEF OpenStream, Needs
  <2> QED
    BY <2>1, <1>0 DEF TreeType
<1>1. /\ t' \in TreeType /\ ~t.d.on /\ "open" \in s[n].needs /\ "descent" \notin s[n].needs
      /\ t'.d.on /\ t'.working_dir = t.working_dir
      /\ t'.current = t.current /\ t'.dirname_length = t.dirname_length /\ t'.path = t.path
      /\ Len(r) = n /\ \A k \in 1..(n - 1) : r[k] = s[k]
      /\ r[n] = [s[n] EXCEPT !.needs = @ \ {"open"}]
  BY <1>0, <1>a, OpenStreamStep
<1>2. n >= 2 /\ s[n].needs = {"open", "ascent"} /\ Entered(t, n) /\ t.current = n
  BY <1>0, <1>1, <1>a, TopFacts
<1>3. s[n] \in EntryType /\ Linked(t, n)
  BY <1>0, <1>2
<1>4. /\ r[n].needs = {"ascent"} /\ r[n].parent = s[n].parent /\ r[n].link = s[n].link
      /\ r[n].ino = s[n].ino /\ r[n].name = s[n].name /\ r[n].dirname_length = s[n].dirname_length
      /\ r[n].symlink_parent = s[n].symlink_parent
  BY <1>1, <1>2, <1>3 DEF EntryType
<1>5. (\A k \in 1..n : Entered(t', k) <=> Entered(t, k)) /\ Entered(t', n)
  <2>1. \A k \in 1..n : k = n \/ k \in 1..(n - 1)
    BY <1>0
  <2> QED
    BY <2>1, <1>1, <1>2, <1>4 DEF Entered
<1>6. \A k \in 0..n : Dir(t', k) = Dir(t, k)
  <2>1. \A k \in 0..n : k <= 1 \/ k = n \/ k \in 1..(n - 1)
    BY <1>0
  <2> QED
    BY <2>1, <1>1, <1>4 DEF Dir
<1> HIDE DEF n, s, r
<1>7. Bottom(t')
  <2>1. r[1] = s[1]
    BY <1>0, <1>1, <1>2
  <2> QED
    BY <1>0, <1>1, <2>1 DEF Bottom, n, s, r
<1>8. ASSUME NEW k \in 2..(n - 1) PROVE Linked(t', k)
  <2>1. k \in 2..n /\ k # n /\ k \in Nat /\ k >= 2 /\ k <= n
    BY <1>0
  <2>2. Linked(t, k) /\ \A j \in 1..k : r[j] = s[j]
    BY <2>1, <1>0, <1>1
  <2>3. s[k].needs # {"open", "ascent"}
    BY <2>1, <2>2 DEF Linked, n, s
  <2>4. Entered(t, k) => s[k].dirname_length < t'.dirname_length
    BY <2>2, <1>1 DEF Linked, s
  <2>5. t'.dirname_length <= t.dirname_length + 1
        /\ \A i \in 1..t.dirname_length : i <= t'.dirname_length => t'.path[i] = t.path[i]
    BY <1>0, <1>1
  <2> QED
    BY <2>1, <2>2, <2>3, <2>4, <2>5, <1>0, <1>1, Kept DEF n, s, r
<1>9. Linked(t', n)
  <2>1. s[n].parent \in 1..(n - 1) /\ s[n].parent \in 1..n /\ s[n].parent \in 0..n
    BY <1>0, <1>3 DEF Linked, s
  <2>2. Entered(t', s[n].parent) /\ \A j \in (s[n].parent + 1)..(n - 1) : ~Entered(t', j)
    <3>1. \A j \in (s[n].parent + 1)..(n - 1) : j \in 1..n
      BY <2>1, <1>0
    <3> QED
      BY <3>1, <2>1, <1>3, <1>5 DEF Linked, s
  <2>3. r[s[n].parent] = s[s[n].parent]
    BY <2>1, <1>1
  <2>4. r[n].symlink_parent = IF Entered(t', n) /\ r[n].link THEN Dir(t', s[n].parent) ELSE Nothing
    BY <2>1, <1>2, <1>3, <1>4, <1>5, <1>6 DEF Linked, s
  <2>5. r[n].dirname_length = IF s[n].parent <= 1 THEN 0 ELSE r[s[n].parent].dirname_length + 1
    BY <2>3, <1>3, <1>4 DEF Linked, s
  <2>6. ASSUME NEW j \in 2..(n - 1), Entered(t', j)
        PROVE  r[j].dirname_length < r[n].dirname_length
    <3>1. j \in 1..(n - 1) /\ j \in 1..n
      BY <1>0
    <3>2. Entered(t, j) /\ r[j] = s[j]
      BY <3>1, <2>6, <1>1, <1>5
    <3>3. s[j].dirname_length < s[n].dirname_length
      BY <3>2, <1>3 DEF Linked, s
    <3> QED
      BY <3>2, <3>3, <1>4
  <2>7. r[n].dirname_length < t'.dirname_length /\ t'.path[r[n].dirname_length + 1] = r[n].name
    BY <1>1, <1>2, <1>3, <1>4 DEF Linked, s
  <2>8. r[n].parent = s[n].parent /\ r[n].needs = {"ascent"}
    BY <1>4
  <2> DEFINE c == s[n].parent
  <2> HIDE DEF c
  <2>9. /\ c \in 1..(n - 1) /\ Entered(t', c) /\ \A j \in (c + 1)..(n - 1) : ~Entered(t', j)
        /\ r[n].symlink_parent = IF Entered(t', n) /\ r[n].link THEN Dir(t', c) ELSE Nothing
        /\ r[n].dirname_length = IF c <= 1 THEN 0 ELSE r[c].dirname_length + 1
        /\ r[n].parent = c
    BY <2>1, <2>2, <2>4, <2>5, <2>8 DEF c
  <2>10. Whole # {"ascent"} /\ {"ascent"} # {"open", "ascent"}
    BY DEF Whole
  <2> QED
    BY <2>6, <2>7, <2>8, <2>9, <2>10 DEF Linked, r
<1>10. Current(t')
  <2>1. "visit" \notin r[1].needs
    <3>1. "visit" \notin s[1].needs
      <4>1. n >= 1 /\ "visit" \in s[1].needs => n = 1
        BY <1>0 DEF Current, n, s
      <4> QED
        BY <4>1, <1>0, <1>2
    <3> QED
      BY <3>1, <1>0, <1>1, <1>2
  <2>2. n \in 1..n /\ (\A j \in (n + 1)..n : ~Entered(t', j)) /\ n # 0 /\ ~(n <= 1) /\ n \in 0..n
    BY <1>0, <1>2
  <2>3. t'.working_dir = Dir(t', n)
    BY <2>2, <1>0, <1>1, <1>2, <1>6 DEF Current
  <2>4. t'.dirname_length = r[n].dirname_length + 1 /\ t'.dirname_length <= Len(t'.path)
    BY <2>2, <1>0, <1>1, <1>2, <1>4 DEF Current, s
  <2> QED
    BY ZenonT(40), <2>1, <2>2, <2>3, <2>4, <1>1, <1>2, <1>4, <1>5 DEF Current, r
<1>11. \A k \in 2..n : k = n \/ k \in 2..(n - 1)
  BY <1>0
<1> QED
  BY <1>1, <1>7, <1>8, <1>9, <1>10, <1>11 DEF Shape, r

LEMMA PushedShape ==
  ASSUME NEW w \in TreeType, Shape(w), w.path # <<>>,
         w.d.on \/ (w.current = 1 /\ Len(w.stack) = 1)
  PROVE  Shape(Pushed(w)) /\ w.current \in 1..Len(w.stack)
<1> DEFINE m == Len(w.stack)
           n == m + 1
           c == w.current
           x == Pushed(w)
           s == w.stack
           r == x.stack
<1>0. Current(w) /\ Bottom(w) /\ m \in Nat /\ (\A k \in 2..m : Linked(w, k))
      /\ (\A k \in 1..m : s[k] \in EntryType) /\ w.dirname_length \in Nat /\ c \in Nat
  BY Entries DEF Shape, TreeType
<1>1. c >= 1 /\ (w.d.on => c >= 2)
  BY DEF Shape, Current
<1>2. c \in 1..m /\ Entered(w, c) /\ (\A j \in (c + 1)..m : ~Entered(w, j))
      /\ "visit" \notin s[1].needs /\ m >= 1
  <2>1. m # 0
    BY <1>0, <1>1 DEF Current
  <2>2. m >= 1
    BY <2>1, <1>0
  <2>3. "visit" \notin s[1].needs
    BY <2>2, <1>0, <1>1 DEF Current
  <2> QED
    BY <2>2, <2>3, <1>0 DEF Current
<1>3. /\ x \in TreeType
      /\ x.d = w.d /\ x.working_dir = w.working_dir
      /\ x.current = c /\ x.dirname_length = w.dirname_length /\ x.path = w.path
      /\ Len(r) = n /\ \A k \in 1..(n - 1) : r[k] = s[k]
      /\ r[n].parent = c /\ r[n].needs = Whole
      /\ r[n].dirname_length = w.dirname_length /\ r[n].symlink_parent = Nothing
  BY <1>2, PushedUp
<1>4. m = n - 1 /\ n \in Nat /\ n >= 2
  BY <1>0, <1>2
<1> HIDE DEF m, n, s, r, x
<1>5. ~Entered(x, n) /\ \A k \in 1..m : Entered(x, k) <=> Entered(w, k)
  BY <1>3, <1>4 DEF Entered, Whole, s, r
<1>6. \A k \in 0..m : Dir(x, k) = Dir(w, k)
  BY <1>3, <1>4 DEF Dir, s, r
<1>7. Bottom(x)
  <2>1. r[1] = s[1]
    BY <1>3, <1>4
  <2> QED
    BY <1>0, <1>2, <2>1 DEF Bottom, m, s, r
<1>8. ASSUME NEW k \in 2..m PROVE Linked(x, k)
  <2>1. k \in Nat /\ k >= 2 /\ k <= m /\ k \in 1..m
    BY <1>0
  <2>2. Linked(w, k) /\ \A j \in 1..k : r[j] = s[j]
    BY <2>1, <1>0, <1>3, <1>4
  <2>3. s[k].needs # {"open", "ascent"}
    <3>1. CASE w.d.on
      <4>1. s[w.current].needs = {"ascent"}
        BY <3>1, <1>0 DEF Current, s
      <4>2. s[k].needs = {"open", "ascent"} => k = w.current
        BY <2>2 DEF Linked, s
      <4>3. {"ascent"} # {"open", "ascent"}
        <5>1. "open" \notin {"ascent"} /\ "open" \in {"open", "ascent"}
          OBVIOUS
        <5> QED
          BY <5>1
      <4> QED
        BY <4>1, <4>2, <4>3
    <3>2. CASE c = 1 /\ m = 1
      BY <3>2, <2>1
    <3> QED
      BY <3>1, <3>2 DEF c, m
  <2>4. Entered(w, k) => s[k].dirname_length < x.dirname_length
    BY <2>2, <1>3 DEF Linked, s
  <2>5. x.dirname_length <= w.dirname_length + 1
        /\ \A i \in 1..w.dirname_length : i <= x.dirname_length => x.path[i] = w.path[i]
    BY <1>0, <1>3
  <2> QED
    BY <2>1, <2>2, <2>3, <2>4, <2>5, <1>3, Kept DEF m, s, r
<1>9. Linked(x, n)
  <2>1. c \in 1..(n - 1) /\ c \in 0..m /\ c \in 1..m
    BY <1>2, <1>4, <1>0
  <2>2. Entered(x, c) /\ \A j \in (c + 1)..(n - 1) : ~Entered(x, j)
    <3>1. \A j \in (c + 1)..(n - 1) : j \in (c + 1)..m /\ j \in 1..m
      BY <1>4, <1>2, <1>0
    <3> QED
      BY <3>1, <2>1, <1>2, <1>5
  <2>3. r[n].dirname_length = IF c <= 1 THEN 0 ELSE r[c].dirname_length + 1
    BY <2>1, <1>0, <1>3 DEF Current, s
  <2>4. ASSUME NEW j \in 2..(n - 1), Entered(x, j)
        PROVE  r[j].dirname_length < r[n].dirname_length
    <3>1. j \in 2..m /\ j \in 1..m /\ j \in 1..(n - 1)
      BY <1>4, <1>0
    <3>2. Entered(w, j) /\ r[j] = s[j] /\ Linked(w, j)
      BY <3>1, <2>4, <1>0, <1>3, <1>5
    <3> QED
      BY <3>2, <1>3 DEF Linked, s
  <2>5. r[n].needs # {"open", "ascent"} /\ r[n].parent = c
    <3>1. "descent" \in Whole /\ "descent" \notin {"open", "ascent"}
      BY DEF Whole
    <3> QED
      BY <3>1, <1>3
  <2> HIDE DEF c
  <2>6. /\ r[n].parent \in 1..(n - 1) /\ Entered(x, r[n].parent)
        /\ \A j \in (r[n].parent + 1)..(n - 1) : ~Entered(x, j)
        /\ r[n].dirname_length = IF r[n].parent <= 1 THEN 0 ELSE r[r[n].parent].dirname_length + 1
    BY <2>1, <2>2, <2>3, <2>5
  <2> QED
    BY <2>4, <2>5, <2>6, <1>3, <1>5 DEF Linked, r
<1>10. Current(x)
  <2>1. "visit" \notin r[1].needs /\ n # 0 /\ c \in 1..n /\ c \in 0..m /\ c \in 1..m
    BY <1>0, <1>2, <1>3, <1>4
  <2>2. Entered(x, c) /\ \A j \in (c + 1)..n : ~Entered(x, j)
    <3>1. \A j \in (c + 1)..n : j = n \/ (j \in (c + 1)..m /\ j \in 1..m)
      BY <1>4, <1>2, <1>0
    <3> QED
      BY <3>1, <2>1, <1>2, <1>5
  <2>3. r[c] = s[c]
    BY <2>1, <1>3, <1>4
  <2>4. x.d.on => c >= 2 /\ r[c].needs = {"ascent"}
    BY <2>3, <1>0, <1>3 DEF Current, s
  <2>5. x.working_dir = Dir(x, c)
    BY <2>1, <1>0, <1>3, <1>6 DEF Current
  <2>6. x.dirname_length = (IF c <= 1 THEN 0 ELSE r[c].dirname_length + 1)
        /\ x.dirname_length <= Len(x.path)
    BY <2>3, <1>0, <1>3 DEF Current, s
  <2> QED
    BY <2>1, <2>2, <2>4, <2>5, <2>6, <1>3 DEF Current, r
<1>11. \A k \in 2..n : k = n \/ k \in 2..m
  BY <1>4, <1>0
<1> QED
  BY <1>2, <1>3, <1>7, <1>8, <1>9, <1>10, <1>11 DEF Shape, r, x, m, c

-----------------------------------------------------------------------------
(* The stack and the disk.                                                 *)

LEMMA BelowKept ==
  ASSUME NEW w \in TreeType, NEW x \in TreeType, Shape(w), Below(x, w)
  PROVE  /\ Placed(w) => Placed(x)
         /\ NoCircle(w) => NoCircle(x)
         /\ Dated(w) => Dated(x)
<1> DEFINE m == Len(x.stack)
           n == Len(w.stack)
<1>1. m \in Nat /\ n \in Nat /\ m <= n
  BY Entries DEF Below
<1> HIDE DEF m, n
<1>2. ASSUME NEW k \in 1..m
      PROVE  /\ x.stack[k].name = w.stack[k].name /\ x.stack[k].parent = w.stack[k].parent
             /\ x.stack[k].ino = w.stack[k].ino /\ x.stack[k].link = w.stack[k].link
             /\ x.stack[k].time = w.stack[k].time
             /\ Entered(x, k) <=> Entered(w, k)
  BY DEF Below, m
<1>3. ASSUME NEW k \in 2..m
      PROVE  k \in 2..n /\ k \in 1..m /\ w.stack[k].parent \in 1..(k - 1) /\ 1..(k - 1) \subseteq 1..m
  <2>1. k \in 2..n /\ k \in 1..m /\ 1..(k - 1) \subseteq 1..m
    BY <1>1
  <2>2. Linked(w, k)
    BY <2>1 DEF Shape, n
  <2> QED
    BY <2>1, <2>2 DEF Linked
<1>4. ASSUME NEW k \in 2..m PROVE Dir(x, x.stack[k].parent) = Dir(w, w.stack[k].parent)
  BY <1>2, <1>3 DEF Dir
<1>5. ASSUME Placed(w) PROVE Placed(x)
  BY <1>2, <1>3, <1>4, <1>5 DEF Placed, m, n
<1>6. ASSUME NoCircle(w) PROVE NoCircle(x)
  <2>1. ASSUME NEW k \in 2..m,
               x.stack[k].name # x.stack[k].ino /\ (Entered(x, k) \/ ~Gone(x.stack[k].name)),
               NEW j \in 2..(x.stack[k].parent - 1), Entered(x, j)
        PROVE  x.stack[j].ino # x.stack[k].ino
    <3>1. j \in 2..(w.stack[k].parent - 1) /\ j \in 1..m
      BY <2>1, <1>2, <1>3, <1>1
    <3> QED
      BY <2>1, <3>1, <1>2, <1>3, <1>6 DEF NoCircle, n
  <2> QED
    BY <2>1 DEF NoCircle, m
<1>7. ASSUME Dated(w) PROVE Dated(x)
  <2>1. ASSUME NEW k \in 2..m, x.stack[k].ino # Nothing
        PROVE  \/ x.stack[k].time = x.stack[k].ino
               \/ \E j \in 2..(k - 1) : Entered(x, j) /\ x.stack[j].ino = x.stack[k].ino
    <3>1. \A j \in 2..(k - 1) : j \in 1..m
      BY <1>1
    <3>2. \/ w.stack[k].time = w.stack[k].ino
          \/ \E j \in 2..(k - 1) : Entered(w, j) /\ w.stack[j].ino = w.stack[k].ino
      BY <2>1, <1>2, <1>3, <1>7 DEF Dated, n
    <3> QED
      BY <3>1, <3>2, <2>1, <1>2, <1>3
  <2> QED
    BY <2>1 DEF Dated, m
<1> QED
  BY <1>5, <1>6, <1>7

(* A directory is descended into that is where it was found.               *)
LEMMA DescentPlaced ==
  ASSUME Types, Shape(t), Placed(t), NoCircle(t), t.working_dir \in Nodes, Descent
  PROVE  /\ Placed(t') /\ NoCircle(t') /\ (Dated(t) => Dated(t'))
         /\ \A i \in Nodes : Owed(t, i) => Owed(t', i)
<1> DEFINE n == Len(t.stack)
           s == t.stack
           r == t'.stack
           c == t.current
           dir == Follow(Object(t.working_dir, s[n].name))
<1>0. Current(t) /\ t \in TreeType /\ disk \in DiskType /\ t.dirname_length <= Len(t.path)
      /\ n \in Nat /\ (\A k \in 1..n : s[k] \in EntryType) /\ (\A k \in 2..n : Linked(t, k))
  BY Entries DEF Shape, Types, Current
<1>2. /\ t' \in TreeType /\ n >= 1 /\ "descent" \in s[n].needs
      /\ dir \in Nodes /\ IsDirectory(dir)
      /\ Len(r) = n /\ \A k \in 1..(n - 1) : r[k] = s[k]
      /\ r[n] = [s[n] EXCEPT !.needs = @ \ {"descent"},
                             !.symlink_parent = IF s[n].link THEN t.working_dir ELSE @]
  BY <1>0, DescentStep
<1>4. n >= 2 /\ ~Entered(t, n) /\ s[n].parent = c /\ c \in 1..(n - 1)
  BY <1>0, <1>2, TopFacts
<1>5. s[n] \in EntryType /\ n \in 2..n
  BY <1>0, <1>4
<1>6. /\ r[n].parent = c /\ r[n].link = s[n].link /\ r[n].time = s[n].time
      /\ r[n].ino = s[n].ino /\ r[n].name = s[n].name
  BY <1>2, <1>4, <1>5 DEF EntryType
<1> HIDE DEF n, s, r, c, dir
<1>7. \A k \in 1..n : k = n \/ k \in 1..(n - 1)
  BY <1>0
<1>8. \A k \in 1..n : /\ r[k].name = s[k].name /\ r[k].parent = s[k].parent
                      /\ r[k].ino = s[k].ino /\ r[k].link = s[k].link /\ r[k].time = s[k].time
  BY <1>2, <1>4, <1>6, <1>7
<1>9. (\A k \in 1..(n - 1) : Entered(t', k) <=> Entered(t, k))
  BY <1>2 DEF Entered, s, r
<1>10. \A k \in 2..n : s[k].parent \in 1..(k - 1) /\ k \in 1..n /\ 1..(k - 1) \subseteq 1..(n - 1)
  BY <1>0 DEF Linked, s
<1>11. \A k \in 1..n : Dir(t', k) = Dir(t, k)
  BY <1>8 DEF Dir, s, r
<1>12. \A k \in 2..n : Dir(t', r[k].parent) = Dir(t, s[k].parent)
  BY <1>8, <1>10, <1>11, <1>0
<1>13. /\ disk.kind[s[n].name] # "none" /\ dir = s[n].ino
       /\ s[n].name = s[n].ino \/ disk.to[s[n].name] = s[n].ino
  <2>1. LeadsTo(s[n].name, Dir(t, c), s[n].ino) /\ t.working_dir = Dir(t, c)
    BY <1>0, <1>4, <1>5 DEF Placed, Current, n, s, c
  <2>2. s[n].name \in Nodes /\ Nothing \notin Nodes
    BY <1>0, <1>5, Lookups DEF EntryType
  <2> QED
    BY <2>1, <2>2, <1>2 DEF LeadsTo, Gone, IsDirectory, Object, Follow, dir
<1>14. Placed(t')
  <2>1. ASSUME NEW k \in 1..(n - 1), k >= 2
        PROVE  LET e == r[k] IN
               /\ LeadsTo(e.name, Dir(t', e.parent), e.ino)
               /\ e.ino = Nothing => Gone(e.name) /\ ~Entered(t', k)
               /\ Entered(t', k) => /\ disk.kind[e.ino] = "dir" \/ Gone(e.ino)
                                    /\ e.name = e.ino \/ disk.to[e.name] = e.ino
               /\ e.name # e.ino => e.link
               /\ ~e.link => e.parent >= 2
    <3>1. k \in 2..n /\ k \in 1..n
      BY <2>1, <1>0
    <3> QED
      BY <3>1, <1>8, <1>9, <1>12 DEF Placed, n, s
  <2>2. LET e == r[n] IN
        /\ LeadsTo(e.name, Dir(t', e.parent), e.ino)
        /\ e.ino = Nothing => Gone(e.name) /\ ~Entered(t', n)
        /\ Entered(t', n) => /\ disk.kind[e.ino] = "dir" \/ Gone(e.ino)
                             /\ e.name = e.ino \/ disk.to[e.name] = e.ino
        /\ e.name # e.ino => e.link
        /\ ~e.link => e.parent >= 2
    <3>1. /\ LeadsTo(s[n].name, Dir(t, s[n].parent), s[n].ino)
          /\ s[n].name # s[n].ino => s[n].link
          /\ ~s[n].link => s[n].parent >= 2
      BY <1>5 DEF Placed, n, s
    <3>2. s[n].ino # Nothing /\ disk.kind[s[n].ino] = "dir"
      BY <1>2, <1>13 DEF IsDirectory
    <3>3. Dir(t', r[n].parent) = Dir(t, s[n].parent)
      BY <1>5, <1>12
    <3> QED
      BY <3>1, <3>2, <3>3, <1>4, <1>6, <1>13
  <2>3. \A k \in 2..n : k = n \/ (k \in 1..(n - 1) /\ k >= 2)
    BY <1>0
  <2> QED
    BY <2>1, <2>2, <2>3, <1>2 DEF Placed, r
<1>15. NoCircle(t')
  <2>1. ASSUME NEW k \in 2..n,
               r[k].name # r[k].ino /\ (Entered(t', k) \/ ~Gone(r[k].name)),
               NEW j \in 2..(r[k].parent - 1), Entered(t', j)
        PROVE  r[j].ino # r[k].ino
    <3>1. k \in 1..n /\ r[k].parent \in 1..(n - 1) /\ r[k].parent = s[k].parent
      BY <1>8, <1>10
    <3>2. j \in 1..(n - 1) /\ j \in 1..n /\ j \in 2..(s[k].parent - 1)
      BY <3>1, <1>0
    <3>3. s[k].name # s[k].ino /\ (Entered(t, k) \/ ~Gone(s[k].name))
      BY <2>1, <3>1, <1>7, <1>8, <1>9, <1>13 DEF Gone
    <3>4. Entered(t, j) /\ r[j].ino = s[j].ino /\ r[k].ino = s[k].ino
      BY <3>1, <3>2, <2>1, <1>8, <1>9
    <3> QED
      BY <3>2, <3>3, <3>4 DEF NoCircle, n, s
  <2> QED
    BY <2>1, <1>2 DEF NoCircle, r
<1>16. ASSUME Dated(t) PROVE Dated(t')
  <2>1. ASSUME NEW k \in 2..n, r[k].ino # Nothing
        PROVE  \/ r[k].time = r[k].ino
               \/ \E j \in 2..(k - 1) : Entered(t', j) /\ r[j].ino = r[k].ino
    <3>1. \A j \in 2..(k - 1) : j \in 1..(n - 1) /\ j \in 1..n
      BY <1>0
    <3>2. k \in 1..n
      BY <1>0
    <3>3. \/ s[k].time = s[k].ino
          \/ \E j \in 2..(k - 1) : Entered(t, j) /\ s[j].ino = s[k].ino
      BY <2>1, <3>2, <1>8, <1>16 DEF Dated, n, s
    <3> QED
      BY <3>1, <3>2, <3>3, <1>8, <1>9
  <2> QED
    BY <2>1, <1>2 DEF Dated, r
<1>17. ASSUME NEW i \in Nodes, Owed(t, i) PROVE Owed(t', i)
  <2>1. PICK k \in 2..n : Entered(t, k) /\ s[k].ino = i
    BY <1>17 DEF Owed, n, s
  <2>2. k \in 1..n /\ k # n
    BY <2>1, <1>0, <1>4
  <2>3. Entered(t', k) /\ r[k].ino = i
    BY <2>1, <2>2, <1>7, <1>8, <1>9
  <2> QED
    BY <2>3, <1>2 DEF Owed, r
<1> QED
  BY <1>14, <1>15, <1>16, <1>17

(* What is pushed leads to where the client may descend.                   *)
LEMMA PushedPlaced ==
  ASSUME NEW w \in TreeType, Shape(w), w.path # <<>>,
         w.d.on \/ (w.current = 1 /\ Len(w.stack) = 1),
         Descendable(w), w.visit = "regular", w.descend
  PROVE  LET x == Pushed(w) IN
         /\ Placed(w) => Placed(x)
         /\ NoCircle(w) => NoCircle(x)
         /\ Dated(w) /\ Remembered(w) => Dated(x)
         /\ \A i \in Nodes : Owed(w, i) => Owed(x, i)
         /\ ~Entered(x, Len(x.stack)) /\ Len(x.stack) = Len(w.stack) + 1
         /\ x.stack[Len(x.stack)].symlink_parent = Nothing
         /\ \A k \in 1..Len(w.stack) : x.stack[k] = w.stack[k]
<1> DEFINE m == Len(w.stack)
           n == m + 1
           c == w.current
           x == Pushed(w)
           s == w.stack
           r == x.stack
<1>0. Current(w) /\ Bottom(w) /\ m \in Nat /\ (\A k \in 2..m : Linked(w, k)) /\ c \in 1..m
      /\ (\A k \in 1..m : s[k] \in EntryType)
  BY PushedShape, Entries DEF Shape
<1>1. /\ x \in TreeType /\ Len(r) = n /\ \A k \in 1..(n - 1) : r[k] = s[k]
      /\ r[n].name = Last(w.path) /\ r[n].parent = c /\ r[n].ino = Chosen(w)
      /\ r[n].needs = Whole /\ r[n].time = w.time
      /\ r[n].link <=> (~IsDirectory(w.lst) \/ s[c].parent = 0)
      /\ r[n].symlink_parent = Nothing
  BY <1>0, PushedUp
<1>2. m = n - 1 /\ n \in Nat /\ n >= 2
  BY <1>0
<1>3. /\ w.lst = Last(w.path)
      /\ LeadsTo(w.lst, w.working_dir, Chosen(w))
      /\ Chosen(w) = Nothing => Gone(w.lst)
      /\ w.lst # Chosen(w) /\ ~Gone(w.lst) =>
           \A j \in 2..(c - 1) : Entered(w, j) => s[j].ino # Chosen(w)
  BY DEF Descendable
<1>4. c = 1 => s[c].parent = 0
  BY <1>0 DEF Bottom
<1> HIDE DEF m, n, s, r, x, c
<1>5. ~Entered(x, n) /\ \A k \in 1..m : Entered(x, k) <=> Entered(w, k)
  BY <1>1, <1>2 DEF Entered, Whole, s, r
<1>6. \A k \in 1..m : r[k] = s[k]
  BY <1>1, <1>2
<1>7. \A k \in 1..m : Dir(x, k) = Dir(w, k)
  BY <1>6 DEF Dir, s, r
<1>8. \A k \in 2..m : s[k].parent \in 1..m /\ k \in 1..m /\ 1..(k - 1) \subseteq 1..m
                      /\ s[k].parent \in 1..(k - 1)
  BY <1>0 DEF Linked, s
<1>9. \A k \in 2..n : k = n \/ k \in 2..m
  BY <1>2
<1>10. Dir(x, c) = w.working_dir
  BY <1>0, <1>7 DEF Current, c
<1>11. ASSUME Placed(w) PROVE Placed(x)
  <2>1. ASSUME NEW k \in 2..m
        PROVE  LET e == r[k] IN
               /\ LeadsTo(e.name, Dir(x, e.parent), e.ino)
               /\ e.ino = Nothing => Gone(e.name) /\ ~Entered(x, k)
               /\ Entered(x, k) => /\ disk.kind[e.ino] = "dir" \/ Gone(e.ino)
                                   /\ e.name = e.ino \/ disk.to[e.name] = e.ino
               /\ e.name # e.ino => e.link
               /\ ~e.link => e.parent >= 2
    <3>1. r[k] = s[k] /\ (Entered(x, k) <=> Entered(w, k)) /\ Dir(x, s[k].parent) = Dir(w, s[k].parent)
      BY <1>5, <1>6, <1>7, <1>8
    <3> QED
      BY <3>1, <1>11 DEF Placed, m, s
  <2>2. LET e == r[n] IN
        /\ LeadsTo(e.name, Dir(x, e.parent), e.ino)
        /\ e.ino = Nothing => Gone(e.name) /\ ~Entered(x, n)
        /\ e.name # e.ino => e.link
        /\ ~e.link => e.parent >= 2
    <3>1. r[n].name # r[n].ino => r[n].link
      BY <1>1, <1>3 DEF Chosen
    <3>2. ~r[n].link => c # 1
      BY <1>1, <1>4
    <3> QED
      BY <3>1, <3>2, <1>0, <1>1, <1>3, <1>5, <1>10
  <2> QED
    BY <2>1, <2>2, <1>1, <1>5, <1>9 DEF Placed, r
<1>12. ASSUME NoCircle(w) PROVE NoCircle(x)
  <2>1. ASSUME NEW k \in 2..n,
               r[k].name # r[k].ino /\ (Entered(x, k) \/ ~Gone(r[k].name)),
               NEW j \in 2..(r[k].parent - 1), Entered(x, j)
        PROVE  r[j].ino # r[k].ino
    <3>1. CASE k = n
      <4>1. j \in 2..(c - 1) /\ j \in 1..m
        BY <3>1, <1>0, <1>1
      <4>2. ~Gone(w.lst) /\ w.lst # Chosen(w)
        BY <2>1, <3>1, <1>1, <1>3, <1>5
      <4> QED
        BY <3>1, <4>1, <4>2, <2>1, <1>1, <1>3, <1>5, <1>6
    <3>2. CASE k \in 2..m
      <4>1. r[k] = s[k] /\ (Entered(x, k) <=> Entered(w, k)) /\ s[k].parent \in 1..m
        BY <3>2, <1>5, <1>6, <1>8
      <4>2. j \in 2..(s[k].parent - 1) /\ j \in 1..m
        BY <4>1, <1>0
      <4> QED
        BY <3>2, <4>1, <4>2, <2>1, <1>5, <1>6, <1>12 DEF NoCircle, m, s
    <3> QED
      BY <3>1, <3>2, <1>9
  <2> QED
    BY <2>1, <1>1 DEF NoCircle, r
<1>13. ASSUME Dated(w), Remembered(w) PROVE Dated(x)
  <2>1. ASSUME NEW k \in 2..n, r[k].ino # Nothing
        PROVE  \/ r[k].time = r[k].ino
               \/ \E j \in 2..(k - 1) : Entered(x, j) /\ r[j].ino = r[k].ino
    <3>1. CASE k = n
      <4>1. w.time = Chosen(w) \/ Owed(w, Chosen(w))
        BY <2>1, <3>1, <1>1, <1>13 DEF Remembered
      <4>2. Owed(w, Chosen(w)) => \E j \in 2..m : Entered(w, j) /\ s[j].ino = Chosen(w)
        BY DEF Owed, m, s
      <4>3. \A j \in 2..m : j \in 2..(n - 1) /\ j \in 1..m
        BY <1>2
      <4> QED
        BY <3>1, <4>1, <4>2, <4>3, <1>1, <1>5, <1>6
    <3>2. CASE k \in 2..m
      <4>1. r[k] = s[k] /\ \A j \in 2..(k - 1) : j \in 1..m
        BY <3>2, <1>6, <1>8, <1>0
      <4>2. \/ s[k].time = s[k].ino
            \/ \E j \in 2..(k - 1) : Entered(w, j) /\ s[j].ino = s[k].ino
        BY <2>1, <3>2, <4>1, <1>13 DEF Dated, m, s
      <4> QED
        BY <4>1, <4>2, <1>5, <1>6
    <3> QED
      BY <3>1, <3>2, <1>9
  <2> QED
    BY <2>1, <1>1 DEF Dated, r
<1>14. ASSUME NEW i \in Nodes, Owed(w, i) PROVE Owed(x, i)
  <2>1. PICK k \in 2..m : Entered(w, k) /\ s[k].ino = i
    BY <1>14 DEF Owed, m, s
  <2>2. k \in 1..m /\ k \in 2..n
    BY <1>2
  <2> QED
    BY <2>1, <2>2, <1>1, <1>5, <1>6 DEF Owed, r
<1> QED
  BY <1>1, <1>5, <1>6, <1>11, <1>12, <1>13, <1>14 DEF r, n, m, s, x

(* Others make, remove or resize an object.                                *)
AltersObject(n) ==
  /\ n \in Nodes /\ n \notin changed /\ changed' = changed \cup {n}
  /\ disk' \in DiskType /\ disk'.up = disk.up /\ disk'.to = disk.to
  /\ \A m \in Nodes : m # n => disk'.kind[m] = disk.kind[m] /\ disk'.size[m] = disk.size[m]
  /\ \/ disk'.kind[n] = disk.kind[n]
     \/ disk'.kind[n] = "none" /\ n # Cwd /\ Names(n) = {}
     \/ disk.kind[n] = "none" /\ disk'.kind[n] = "file" /\ IsDirectory(disk.up[n])
  /\ t' \in TreeType /\ t'.d.on = t.d.on /\ t'.visit = t.visit /\ t'.working_dir = t.working_dir
  /\ t'.lst = t.lst /\ t'.st = t.st /\ t'.descend = t.descend /\ t'.time = t.time
  /\ t'.restore = t.restore /\ t'.current = t.current /\ t'.dirname_length = t.dirname_length
  /\ t'.stack = t.stack /\ t'.path = t.path
  /\ t.d.on => \A m \in t'.d.left :
       \/ m \in t.d.left
       \/ m = n /\ disk.up[n] = t.working_dir /\ disk'.kind[n] # "none" /\ disk.kind[n] = "none"
  /\ t.d.left \subseteq t'.d.left \cup {n}
  /\ (t' = Closed) <=> (t = Closed)
  /\ a' = a /\ a.state \in {"header", "data"} /\ entry' = entry /\ atime' = atime /\ fds' = fds

LEMMA OthersStep ==
  ASSUME Types, Housed(disk), Others, Alive
  PROVE  \E n \in Nodes : AltersObject(n)
<1>0. t \in TreeType /\ disk \in DiskType
  BY DEF Types
<1>1. PICK n \in Nodes : Vanish(n) \/ Appear(n) \/ Resize(n)
  BY OptionsAssumption DEF Others
<1>2. /\ n \notin changed /\ changed' = changed \cup {n} /\ a.state \in {"header", "data"}
      /\ a' = a /\ entry' = entry /\ atime' = atime /\ fds' = fds
  BY <1>1 DEF Vanish, Appear, Resize, Alter
<1>3. /\ disk' \in DiskType /\ disk'.up = disk.up /\ disk'.to = disk.to
      /\ \A m \in Nodes : m # n => disk'.kind[m] = disk.kind[m] /\ disk'.size[m] = disk.size[m]
      /\ \/ disk'.kind[n] = disk.kind[n]
         \/ disk'.kind[n] = "none" /\ n # Cwd /\ Names(n) = {}
         \/ disk.kind[n] = "none" /\ disk'.kind[n] = "file" /\ IsDirectory(disk.up[n])
  <2>1. CASE Vanish(n)
    BY <2>1, <1>0 DEF Vanish, DiskType
  <2>2. CASE Appear(n)
    BY <2>2, <1>0 DEF Appear, DiskType
  <2>3. CASE Resize(n)
    <3>1. PICK size \in 0..(disk.size[n] + 1) : disk' = [disk EXCEPT !.size[n] = size]
      BY <2>3 DEF Resize
    <3>2. disk.size[n] \in Nat
      BY <1>0 DEF DiskType
    <3>3. size \in Nat
      BY <3>1, <3>2
    <3> QED
      BY <3>1, <3>3, <1>0 DEF DiskType
  <2> QED
    BY <1>1, <2>1, <2>2, <2>3
<1>4. \/ t' = t
      \/ /\ t.d.on /\ t.working_dir = disk.up[n]
         /\ \E left \in {t.d.left \ {n}, t.d.left \cup {n}} :
              /\ t' = [t EXCEPT !.d.left = left]
              /\ n \in left => disk'.kind[n] # "none" /\ disk.kind[n] = "none"
  <2>1. CASE Vanish(n)
    BY <2>1 DEF Vanish, Noticed
  <2>2. CASE Appear(n)
    BY <2>2, <1>0 DEF Appear, Noticed, DiskType
  <2>3. CASE Resize(n)
    BY <2>3 DEF Resize
  <2> QED
    BY <1>1, <2>1, <2>2, <2>3
<1>5. CASE t' = t
  BY <1>0, <1>2, <1>3, <1>5 DEF AltersObject
<1>6. CASE t' # t
  <2>1. PICK left \in {t.d.left \ {n}, t.d.left \cup {n}} :
              /\ t' = [t EXCEPT !.d.left = left]
              /\ n \in left => disk'.kind[n] # "none" /\ disk.kind[n] = "none"
    BY <1>4, <1>6
  <2>2. left \in SUBSET Nodes
    BY <2>1, <1>0 DEF TreeType
  <2> DEFINE d == [t.d EXCEPT !.left = left]
  <2>3. t' = [t EXCEPT !.d = d]
    BY <2>1
  <2>4. d \in [on : BOOLEAN, left : SUBSET Nodes] /\ d.on = t.d.on /\ d.left = left
    BY <2>2, <1>0 DEF TreeType
  <2> HIDE DEF d
  <2>5. /\ t' \in TreeType /\ t'.d = d /\ t'.visit = t.visit /\ t'.working_dir = t.working_dir
        /\ t'.lst = t.lst /\ t'.st = t.st /\ t'.descend = t.descend /\ t'.time = t.time
        /\ t'.restore = t.restore /\ t'.current = t.current /\ t'.dirname_length = t.dirname_length
        /\ t'.stack = t.stack /\ t'.path = t.path
    BY <2>3, <2>4, <1>0 DEF TreeType
  <2>6. t' # Closed
    <3>1. t.d.on
      BY <1>4, <1>6
    <3>2. Closed.d.on = FALSE
      BY DEF Closed, NoStream
    <3> QED
      BY <3>1, <3>2, <2>4, <2>5
  <2>7. \A m \in left : m \in t.d.left \/ m = n
    BY <2>1
  <2>8. t # Closed
    BY DEF Alive
  <2>9. t.working_dir = disk.up[n]
    BY <1>4, <1>6
  <2>10. \A m \in t'.d.left :
           \/ m \in t.d.left
           \/ m = n /\ disk.up[n] = t.working_dir /\ disk'.kind[n] # "none" /\ disk.kind[n] = "none"
    BY <2>1, <2>4, <2>5, <2>7, <2>9
  <2>11. t.d.left \subseteq t'.d.left \cup {n}
    BY <2>1, <2>4, <2>5
  <2> QED
    BY <1>2, <1>3, <2>4, <2>5, <2>6, <2>8, <2>10, <2>11 DEF AltersObject
<1> QED
  BY <1>5, <1>6

LEMMA AlteredObject ==
  ASSUME Types, Housed(disk), NEW n \in Nodes, AltersObject(n)
  PROVE  /\ Housed(disk)'
         /\ \A m \in Nodes : Gone(m) => Gone(m)'
         /\ \A m \in Nodes : disk.kind[m] = "dir" => disk'.kind[m] = "dir" \/ Gone(m)'
         /\ \A m \in Nodes : disk'.kind[m] = "dir" => disk.kind[m] = "dir"
         /\ \A m \in Nodes : disk.kind[m] # "none" => disk'.kind[m] = disk.kind[m] \/ Gone(m)'
<1>1. disk \in DiskType
  BY DEF Types
<1>2. /\ \A m \in Nodes : Gone(m) => Gone(m)'
      /\ \A m \in Nodes : disk.kind[m] # "none" => disk'.kind[m] = disk.kind[m] \/ Gone(m)'
  BY DEF AltersObject, Gone
<1>3. Housed(disk)'
  <2>1. disk'.up[Cwd] = Nothing /\ disk'.kind[Cwd] = "dir"
    <3>1. disk.up[Cwd] = Nothing /\ disk.kind[Cwd] = "dir" /\ disk'.up = disk.up /\ Cwd \in Nodes
      BY NodesAssumption DEF Housed, AltersObject
    <3>2. CASE n # Cwd
      BY <3>1, <3>2 DEF AltersObject
    <3>3. CASE n = Cwd
      <4>1. disk'.kind[n] = disk.kind[n]
        BY <3>1, <3>3 DEF AltersObject
      <4> QED
        BY <4>1, <3>1, <3>3
    <3> QED
      BY <3>1, <3>2, <3>3
  <2>2. ASSUME NEW m \in Nodes, disk'.kind[m] # "none", m # Cwd
        PROVE  disk'.up[m] # Nothing /\ disk'.kind[disk'.up[m]] = "dir"
    <3>1. disk'.up[m] = disk.up[m] /\ disk.up[m] \in MaybeNode
      BY <1>1 DEF AltersObject, DiskType, MaybeNode
    <3>2. disk.up[m] # Nothing /\ disk.kind[disk.up[m]] = "dir"
      BY <2>2 DEF AltersObject, Housed, IsDirectory
    <3>3. disk.up[m] \in Nodes
      BY <3>1, <3>2 DEF MaybeNode
    <3>4. CASE disk.up[m] # n
      BY <3>1, <3>2, <3>3, <3>4 DEF AltersObject
    <3>5. CASE disk.up[m] = n
      <4>1. disk.kind[n] = "dir"
        BY <3>2, <3>5
      <4>2. disk'.kind[n] = "dir" \/ Names(n) = {}
        BY <4>1 DEF AltersObject
      <4>3. disk.kind[m] # "none"
        BY <2>2, <4>1 DEF AltersObject
      <4>4. m \in Names(n)
        BY <4>3, <3>5 DEF Names
      <4> QED
        BY <4>2, <4>4, <3>1, <3>2, <3>5
    <3> QED
      BY <3>4, <3>5
  <2> QED
    BY <2>1, <2>2 DEF Housed
<1>4. \A m \in Nodes : disk'.kind[m] = "dir" => disk.kind[m] = "dir"
  BY DEF AltersObject
<1> QED
  BY <1>2, <1>3, <1>4

LEMMA AlteredLeads ==
  ASSUME Types, Housed(disk), NEW n \in Nodes, AltersObject(n),
         NEW name \in Nodes, NEW dir \in MaybeNode, NEW i \in MaybeNode, LeadsTo(name, dir, i)
  PROVE  LeadsTo(name, dir, i)'
<1>1. disk'.up = disk.up /\ disk'.to = disk.to
  BY DEF AltersObject
<1>2. Nothing \notin Nodes
  BY NodesAssumption DEF Nothing
<1>3. CASE Gone(name)
  BY <1>1, <1>3, AlteredObject DEF LeadsTo
<1>4. CASE name = i /\ disk.kind[i] = "dir"
  BY <1>1, <1>4, AlteredObject DEF LeadsTo
<1>5. CASE /\ disk.kind[name] = "link" /\ disk.to[name] = i /\ i # Nothing
           /\ disk.kind[i] = "dir" \/ Gone(i)
  <2>1. i \in Nodes
    BY <1>5 DEF MaybeNode
  <2>2. disk'.kind[i] = "dir" \/ Gone(i)'
    BY <2>1, <1>5, AlteredObject
  <2>3. disk'.kind[name] = "link" \/ Gone(name)'
    BY <1>5, AlteredObject
  <2> QED
    BY <2>2, <2>3, <1>1, <1>5 DEF LeadsTo
<1> QED
  BY <1>3, <1>4, <1>5 DEF LeadsTo

LEMMA AlteredWalk ==
  ASSUME Types, Housed(disk), NEW n \in Nodes, AltersObject(n),
         Shape(t), Placed(t), NoCircle(t)
  PROVE  Shape(t)' /\ Placed(t)' /\ NoCircle(t)'
<1>0. t \in TreeType /\ t' \in TreeType /\ t'.stack = t.stack /\ t'.current = t.current
  BY DEF Types, AltersObject
<1>1. Shape(t)'
  <2>1. t.dirname_length <= Len(t.path)
    BY DEF Shape, Current
  <2> QED
    BY <2>1, <1>0, StillShape DEF AltersObject
<1>2. /\ \A k : (Entered(t, k)' <=> Entered(t, k)) /\ Dir(t, k)' = Dir(t, k)
      /\ Len(t.stack) \in Nat
  BY <1>0, Entries DEF Entered, Dir
<1>3. Placed(t)'
  <2>1. ASSUME NEW k \in 2..Len(t.stack)
        PROVE  LET e == t.stack[k] IN
               /\ LeadsTo(e.name, Dir(t, e.parent), e.ino)'
               /\ e.ino = Nothing => Gone(e.name)' /\ ~Entered(t, k)
               /\ Entered(t, k) => /\ disk'.kind[e.ino] = "dir" \/ Gone(e.ino)'
                                   /\ e.name = e.ino \/ disk'.to[e.name] = e.ino
               /\ e.name # e.ino => e.link
               /\ ~e.link => e.parent >= 2
    <3> DEFINE e == t.stack[k]
    <3>1. k \in 1..Len(t.stack)
      BY <1>2
    <3>2. e \in EntryType /\ Linked(t, k)
      BY <3>1, <1>0, Entries DEF Shape
    <3>3. e.name \in Nodes /\ e.ino \in MaybeNode /\ e.parent \in 1..(k - 1)
      BY <3>2 DEF EntryType, Linked
    <3>4. /\ LeadsTo(e.name, Dir(t, e.parent), e.ino)
          /\ e.ino = Nothing => Gone(e.name) /\ ~Entered(t, k)
          /\ Entered(t, k) => /\ disk.kind[e.ino] = "dir" \/ Gone(e.ino)
                              /\ e.name = e.ino \/ disk.to[e.name] = e.ino
          /\ e.name # e.ino => e.link
          /\ ~e.link => e.parent >= 2
      BY DEF Placed
    <3>5. Dir(t, e.parent) \in MaybeNode
      <4>1. CASE e.parent <= 1
        BY <4>1, NodesAssumption DEF Dir, MaybeNode
      <4>2. CASE ~(e.parent <= 1)
        <5>1. e.parent \in 1..Len(t.stack)
          BY <3>3, <3>1, <1>2
        <5>2. t.stack[e.parent] \in EntryType
          BY <5>1, <1>0, Entries
        <5> QED
          BY <5>2, <4>2 DEF Dir, EntryType
      <4> QED
        BY <4>1, <4>2
    <3> HIDE DEF e
    <3>6. LeadsTo(e.name, Dir(t, e.parent), e.ino)'
      <4> DEFINE u == e.name
                 v == Dir(t, e.parent)
                 i == e.ino
      <4>1. u' = u /\ v' = v /\ i' = i
        BY <1>0 DEF e, Dir
      <4>2. u \in Nodes /\ v \in MaybeNode /\ i \in MaybeNode /\ LeadsTo(u, v, i)
        BY <3>3, <3>4, <3>5
      <4> HIDE DEF u, v, i
      <4>3. PICK u1 \in Nodes, v1 \in MaybeNode, i1 \in MaybeNode : u1 = u /\ v1 = v /\ i1 = i
        BY <4>2
      <4>4. LeadsTo(u1, v1, i1)'
        BY <4>2, <4>3, AlteredLeads
      <4>5. LeadsTo(u, v, i)'
        BY <4>1, <4>3, <4>4 DEF LeadsTo, Gone
      <4> QED
        BY <4>5 DEF u, v, i
    <3>7. e.ino = Nothing => Gone(e.name)' /\ ~Entered(t, k)
      <4>1. PICK u \in Nodes : u = e.name
        BY <3>3
      <4>2. Gone(u) => Gone(u)'
        BY AlteredObject
      <4>3. e' = e
        BY <1>0 DEF e
      <4> QED
        BY <4>1, <4>2, <4>3, <3>4 DEF Gone
    <3>8. Entered(t, k) => /\ disk'.kind[e.ino] = "dir" \/ Gone(e.ino)'
                           /\ e.name = e.ino \/ disk'.to[e.name] = e.ino
      <4>1. SUFFICES ASSUME Entered(t, k)
                     PROVE  /\ disk'.kind[e.ino] = "dir" \/ Gone(e.ino)'
                            /\ e.name = e.ino \/ disk'.to[e.name] = e.ino
        OBVIOUS
      <4>2. e.ino \in Nodes
        BY <4>1, <3>3, <3>4 DEF MaybeNode
      <4>3. PICK i \in Nodes : i = e.ino
        BY <4>2
      <4>4. disk'.kind[i] = "dir" \/ Gone(i)'
        BY <4>1, <4>3, <3>4, AlteredObject
      <4>5. e' = e /\ disk'.to = disk.to
        BY <1>0 DEF e, AltersObject
      <4> QED
        BY <4>1, <4>3, <4>4, <4>5, <3>4 DEF Gone
    <3> QED
      BY <3>4, <3>6, <3>7, <3>8 DEF e
  <2> QED
    BY <2>1, <1>0, <1>2 DEF Placed
<1>4. NoCircle(t)'
  <2>1. ASSUME NEW k \in 2..Len(t.stack), ~Gone(t.stack[k].name)' PROVE ~Gone(t.stack[k].name)
    <3>1. k \in 1..Len(t.stack)
      BY <1>2
    <3>2. t.stack[k] \in EntryType
      BY <3>1, <1>0, Entries
    <3>3. PICK u \in Nodes : u = t.stack[k].name
      BY <3>2 DEF EntryType
    <3>4. Gone(u) => Gone(u)'
      BY AlteredObject
    <3> QED
      BY <2>1, <3>3, <3>4, <1>0 DEF Gone
  <2> QED
    BY <2>1, <1>0, <1>2 DEF NoCircle
<1> QED
  BY <1>1, <1>3, <1>4

LEMMA AlteredVisit ==
  ASSUME Types, Housed(disk), NEW n \in Nodes, AltersObject(n), Shape(t),
         Visiting(t, a.pc), Descendable(t)
  PROVE  /\ Visiting(t, a.pc)' /\ Descendable(t)'
         /\ t.restore /\ Timed(t) => Timed(t)'
<1>0. /\ t \in TreeType /\ a' = a /\ atime' = atime /\ entry' = entry /\ disk'.up = disk.up
      /\ t'.visit = t.visit /\ t'.descend = t.descend /\ t'.path = t.path /\ t'.lst = t.lst
      /\ t'.st = t.st /\ t'.stack = t.stack /\ t'.current = t.current /\ t'.time = t.time
      /\ t'.working_dir = t.working_dir /\ t'.d.on = t.d.on /\ t'.restore = t.restore
      /\ t'.dirname_length = t.dirname_length
  BY DEF Types, AltersObject
<1>1. \A m \in Nodes : disk.kind[m] # "none" \/ Gone(m) => disk'.kind[m] # "none" \/ Gone(m)'
  BY AlteredObject
<1>2. ASSUME Open(t, a.pc) PROVE t.path # <<>> /\ Last(t.path) \in Nodes /\ Len(t.path) \in Nat
  <2>1. Len(t.path) = t.dirname_length + 1 /\ t.path \in Seq(Nodes) /\ t.dirname_length \in Nat
    BY <1>0, <1>2 DEF Visiting, TreeType
  <2>2. Len(t.path) \in 1..Len(t.path)
    BY <2>1
  <2> QED
    BY <2>1, <2>2 DEF Last
<1>3. Visiting(t, a.pc)'
  <2>1. ASSUME t.d.on, NEW m \in t'.d.left
        PROVE  disk'.up[m] = t'.working_dir /\ (disk'.kind[m] # "none" \/ Gone(m)')
    <3>1. CASE m \in t.d.left
      <4>1. m \in Nodes
        BY <3>1, <1>0 DEF TreeType
      <4> QED
        BY <2>1, <3>1, <4>1, <1>0, <1>1 DEF Visiting
    <3>2. CASE m = n /\ disk.up[n] = t.working_dir /\ disk'.kind[n] # "none"
      BY <3>2, <1>0
    <3> QED
      BY <2>1, <3>1, <3>2 DEF AltersObject
  <2>2. ASSUME Open(t, a.pc), t.d.on
        PROVE  /\ disk'.up[Last(t'.path)] = t'.working_dir
               /\ disk'.kind[Last(t'.path)] # "none" \/ Gone(Last(t.path))'
    <3>1. PICK m \in Nodes : m = Last(t.path)
      BY <1>2, <2>2
    <3>2. disk.up[m] = t.working_dir /\ (disk.kind[m] # "none" \/ Gone(m))
      BY <2>2, <3>1 DEF Visiting
    <3>3. disk'.kind[m] # "none" \/ Gone(m)'
      BY <3>2, <1>1
    <3> QED
      BY <3>1, <3>2, <3>3, <1>0 DEF Gone
  <2>3. Open(t, a.pc)' <=> Open(t, a.pc)
    BY <1>0 DEF Open
  <2>4. /\ a.pc # "out" => ~t.descend
        /\ a.pc = "visit" => t.visit = "regular"
        /\ Open(t, a.pc) => /\ t.d.on \/ (t.current = 1 /\ Len(t.stack) = 1)
                            /\ Len(t.path) = t.dirname_length + 1
    BY DEF Visiting
  <2>5. /\ (a.pc # "out" => ~t.descend)' /\ (a.pc = "visit" => t.visit = "regular")'
        /\ Open(t, a.pc)' => /\ t'.d.on \/ (t'.current = 1 /\ Len(t'.stack) = 1)
                             /\ Len(t'.path) = t'.dirname_length + 1
    BY <2>3, <2>4, <1>0
  <2>6. t'.d.on => \A m \in t'.d.left :
          disk'.up[m] = t'.working_dir /\ (disk'.kind[m] # "none" \/ Gone(m)')
    BY <2>1, <1>0
  <2>7. Open(t, a.pc)' /\ t'.d.on =>
          /\ disk'.up[Last(t'.path)] = t'.working_dir
          /\ disk'.kind[Last(t'.path)] # "none" \/ Gone(Last(t.path))'
    BY <2>2, <2>3, <1>0
  <2> QED
    BY <2>5, <2>6, <2>7 DEF Visiting
<1>4. ASSUME t.visit = "regular", t.descend
      PROVE  /\ t.lst \in Nodes /\ t.st \in MaybeNode /\ t.working_dir \in MaybeNode
             /\ LeadsTo(t.lst, t.working_dir, Chosen(t))
             /\ disk'.kind[t.lst] = "dir" => disk.kind[t.lst] = "dir"
             /\ \/ Chosen(t)' = Chosen(t)
                \/ Gone(t.lst)' /\ t.lst = Chosen(t) /\ Chosen(t)' \in {Nothing, t.lst}
  <2>1. t.lst \in Nodes
    BY <1>2, <1>4 DEF Open, Descendable
  <2>2. disk'.kind[t.lst] = "dir" => disk.kind[t.lst] = "dir"
    BY <2>1, AlteredObject
  <2>3. disk.kind[t.lst] = "dir" => disk'.kind[t.lst] = "dir" \/ Gone(t.lst)'
    <3>1. PICK m \in Nodes : m = t.lst
      BY <2>1
    <3>2. disk.kind[m] = "dir" => disk'.kind[m] = "dir" \/ Gone(m)'
      BY AlteredObject
    <3> QED
      BY <3>1, <3>2, <1>0 DEF Gone
  <2>4. IsDirectory(t.lst) => t.st \in {Nothing, t.lst}
    BY <1>4 DEF Descendable
  <2>5. Nothing \notin Nodes
    BY NodesAssumption DEF Nothing
  <2>6. \/ Chosen(t)' = Chosen(t)
        \/ Gone(t.lst)' /\ t.lst = Chosen(t) /\ Chosen(t)' \in {Nothing, t.lst}
    BY <2>1, <2>2, <2>3, <2>4, <2>5, <1>0 DEF Chosen, IsDirectory
  <2> QED
    BY <2>1, <2>2, <2>6, <1>0, <1>4 DEF Descendable, TreeType
<1>5. Descendable(t)'
  <2>1. SUFFICES ASSUME t.visit = "regular", t.descend
                 PROVE  /\ t'.lst = Last(t'.path)
                        /\ LeadsTo(t.lst, t.working_dir, Chosen(t))'
                        /\ Chosen(t)' = Nothing => Gone(t.lst)'
                        /\ IsDirectory(t.lst)' => t'.st \in {Nothing, t'.lst}
                        /\ t'.lst # Chosen(t)' /\ ~Gone(t.lst)' =>
                             \A j \in 2..(t'.current - 1) :
                               Entered(t, j)' => t'.stack[j].ino # Chosen(t)'
    BY <1>0 DEF Descendable
  <2>2. PICK u \in Nodes : u = t.lst
    BY <2>1, <1>4
  <2>3. Gone(t.lst)' <=> Gone(u)'
    BY <2>2, <1>0 DEF Gone
  <2>4. Gone(t.lst) => Gone(u)'
    BY <2>2, AlteredObject
  <2>5. /\ t.lst = Last(t.path) /\ LeadsTo(t.lst, t.working_dir, Chosen(t))
        /\ Chosen(t) = Nothing => Gone(t.lst)
        /\ IsDirectory(t.lst) => t.st \in {Nothing, t.lst}
        /\ t.lst # Chosen(t) /\ ~Gone(t.lst) =>
             \A j \in 2..(t.current - 1) : Entered(t, j) => t.stack[j].ino # Chosen(t)
    BY <2>1 DEF Descendable
  <2>6. IsDirectory(t.lst)' => IsDirectory(t.lst)
    BY <2>1, <1>0, <1>4 DEF IsDirectory
  <2>7. CASE Chosen(t)' = Chosen(t)
    <3>1. Chosen(t) \in MaybeNode /\ t.working_dir \in MaybeNode
      BY <2>1, <1>4 DEF Chosen, MaybeNode
    <3>2. PICK i \in MaybeNode : i = Chosen(t)
      BY <3>1
    <3>3. PICK v \in MaybeNode : v = t.working_dir
      BY <3>1
    <3>4. LeadsTo(u, v, i)'
      BY <3>2, <3>3, <2>2, <2>5, AlteredLeads
    <3>5. LeadsTo(t.lst, t.working_dir, Chosen(t))'
      BY <3>2, <3>3, <3>4, <2>2, <2>7, <1>0 DEF LeadsTo, Gone
    <3>6. \A j : Entered(t, j)' <=> Entered(t, j)
      BY <1>0 DEF Entered
    <3> QED
      BY <3>5, <3>6, <2>3, <2>4, <2>5, <2>6, <2>7, <1>0
  <2>8. CASE Gone(t.lst)' /\ t.lst = Chosen(t) /\ Chosen(t)' \in {Nothing, t.lst}
    <3>1. LeadsTo(t.lst, t.working_dir, Chosen(t))'
      BY <2>5, <2>8, <1>0 DEF LeadsTo
    <3> QED
      BY <3>1, <2>5, <2>6, <2>8, <1>0
  <2> QED
    BY <2>1, <2>7, <2>8, <1>4
<1>6. ASSUME Timed(t) PROVE Timed(t)'
  <2>1. \A j : Entered(t, j)' <=> Entered(t, j)
    BY <1>0 DEF Entered
  <2>2. \A i : Owed(t, i)' <=> Owed(t, i)
    BY <2>1, <1>0 DEF Owed
  <2>3. Untouched(t)'
    BY <2>2, <1>0, <1>6 DEF Timed, Untouched
  <2>4. Dated(t)'
    BY <2>1, <1>0, <1>6 DEF Timed, Dated
  <2>5. Remembered(t)'
    <3>1. SUFFICES ASSUME t.visit = "regular", t.descend, Chosen(t)' # Nothing
                   PROVE  t'.time = Chosen(t)' \/ Owed(t, Chosen(t))'
      BY <1>0 DEF Remembered
    <3>2. Chosen(t)' = Chosen(t)
      BY <3>1, <1>4
    <3>3. t.time = Chosen(t) \/ Owed(t, Chosen(t))
      BY <3>1, <3>2, <1>6 DEF Timed, Remembered
    <3>4. Owed(t, Chosen(t)) => Owed(t, Chosen(t))'
      BY <3>2, <2>1, <1>0 DEF Owed
    <3> QED
      BY <3>2, <3>3, <3>4, <1>0
  <2> QED
    BY <2>3, <2>4, <2>5 DEF Timed
<1> QED
  BY <1>3, <1>5, <1>6

LEMMA AlteredData ==
  ASSUME Types, Housed(disk), NEW n \in Nodes, AltersObject(n), Described(t), Sound(entry)
  PROVE  Described(t)' /\ Sound(entry)' /\ Types'
<1>0. /\ t \in TreeType /\ t' \in TreeType /\ a' = a /\ atime' = atime /\ entry' = entry /\ fds' = fds
      /\ disk' \in DiskType /\ changed' = changed \cup {n} /\ disk'.to = disk.to
      /\ t'.path = t.path /\ t'.lst = t.lst /\ t'.st = t.st /\ t'.time = t.time
      /\ t'.restore = t.restore
      /\ \A m \in Nodes : m # n => disk'.size[m] = disk.size[m]
  BY DEF Types, AltersObject
<1>1. Types'
  BY <1>0 DEF Types
<1>2. Sound(entry)'
  BY <1>0 DEF Sound
<1>3. Described(t)'
  <2> DEFINE s == Subject(t)
             m == Last(t.path)
  <2>1. s' = s /\ m' = m
    BY <1>0 DEF Subject
  <2>2. SUFFICES ASSUME entry.size > 0
                 PROVE  /\ s # Nothing /\ t.path # <<>>
                        /\ disk'.kind[s] = "file" \/ Gone(s)'
                        /\ Gone(m)' \/ m = s \/ (disk'.kind[m] = "link" /\ disk'.to[m] = s)
                        /\ s \notin changed' => disk'.size[s] = entry.size
                        /\ entry.eof /\ s \notin changed' => entry.total = entry.size
                        /\ entry.fd \in {Nothing, s}
                        /\ t.restore => t.time = s
    <3> HIDE DEF s, m
    <3>1. (/\ a.pc # "out" \/ a.state \notin {"data", "fatal"} => entry = NoFile
           /\ entry.size = 0 => entry.fd = Nothing /\ entry.eof)'
      BY <1>0 DEF Described
    <3>3. entry'.size > 0 =>
            /\ s' # Nothing /\ t'.path # <<>>
            /\ disk'.kind[s'] = "file" \/ Gone(s)'
            /\ Gone(m)' \/ m' = s' \/ (disk'.kind[m'] = "link" /\ disk'.to[m'] = s')
            /\ s' \notin changed' => disk'.size[s'] = entry'.size
            /\ entry'.eof /\ s' \notin changed' => entry'.total = entry'.size
            /\ entry'.fd \in {Nothing, s'}
            /\ t'.restore => t'.time = s'
      BY <2>1, <2>2, <1>0
    <3> QED
      BY <3>1, <3>3 DEF Described, s, m
  <2>3. /\ s # Nothing /\ t.path # <<>>
        /\ disk.kind[s] = "file" \/ Gone(s)
        /\ Gone(m) \/ m = s \/ (disk.kind[m] = "link" /\ disk.to[m] = s)
        /\ s \notin changed => disk.size[s] = entry.size
        /\ entry.eof /\ s \notin changed => entry.total = entry.size
        /\ entry.fd \in {Nothing, s}
        /\ t.restore => t.time = s
    BY <2>2 DEF Described
  <2>4. s \in Nodes
    BY <2>3, <1>0 DEF Subject, TreeType, MaybeNode
  <2>5. m \in Nodes
    <3>1. t.path \in Seq(Nodes) /\ Len(t.path) \in 1..Len(t.path)
      BY <2>3, <1>0 DEF TreeType
    <3> QED
      BY <3>1 DEF Last
  <2> HIDE DEF s, m
  <2>6. disk'.kind[s] = "file" \/ Gone(s)'
    <3>1. PICK u \in Nodes : u = s
      BY <2>4
    <3>2. disk'.kind[u] = "file" \/ Gone(u)'
      BY <2>3, <3>1, AlteredObject
    <3> QED
      BY <3>1, <3>2, <2>1 DEF Gone
  <2>7. Gone(m)' \/ m = s \/ (disk'.kind[m] = "link" /\ disk'.to[m] = s)
    <3>1. PICK u \in Nodes : u = m
      BY <2>5
    <3>2. Gone(u)' \/ u = s \/ (disk'.kind[u] = "link" /\ disk'.to[u] = s)
      BY <2>3, <3>1, <1>0, AlteredObject
    <3> QED
      BY <3>1, <3>2, <2>1 DEF Gone
  <2>8. s \notin changed' => s \notin changed /\ disk'.size[s] = disk.size[s]
    BY <2>4, <1>0
  <2> QED
    BY <2>3, <2>6, <2>7, <2>8
<1> QED
  BY <1>1, <1>2, <1>3
-----------------------------------------------------------------------------
(* Induction over the stack.                                               *)

LEMMA LessWellFounded == IsWellFoundedOn({p \in Nat \X Nat : p[1] < p[2]}, Nat)
  BY NatLessThanWellFounded DEF OpToRel

(* A set of numbers that holds 0, and with a number the next, holds all.   *)
LEMMA SetInduction ==
  ASSUME NEW S, 0 \in S, \A n \in Nat : n \in S => n + 1 \in S
  PROVE  Nat \subseteq S
<1> DEFINE T == Nat \ S
           R == {p \in Nat \X Nat : p[1] < p[2]}
<1>1. SUFFICES ASSUME T # {} PROVE FALSE
  OBVIOUS
<1>2. IsWellFoundedOn(R, Nat)
  BY LessWellFounded
<1>3. T \subseteq Nat
  OBVIOUS
<1> HIDE DEF T, R
<1>4. \E x \in T : \A y \in T : ~(<<y, x>> \in R)
  BY <1>1, <1>2, <1>3, WFMin
<1> USE DEF T, R
<1>5. PICK x \in T : \A y \in T : ~(y < x)
  BY <1>4
<1>6. x # 0 /\ x \in Nat
  OBVIOUS
<1>7. x - 1 \in Nat
  BY <1>6
<1>8. x - 1 \notin T
  BY <1>5, <1>6, <1>7
<1>9. x - 1 \in S
  BY <1>7, <1>8
<1>10. (x - 1) + 1 \in S
  BY <1>7, <1>9
<1> QED
  BY <1>6, <1>10

(* The directories above an entry, as the recursion of Above gives them:   *)
(* there is one such function.                                             *)
LEMMA ChainExists ==
  ASSUME NEW n \in Nat, NEW s, \A k \in 1..n : s[k].parent \in 0..(k - 1)
  PROVE  \E f : f = [k \in 0..n |-> IF k = 0 THEN {} ELSE {s[k].ino} \cup f[s[k].parent]]
<1> DEFINE F(f, k) == IF k = 0 THEN {} ELSE {s[k].ino} \cup f[s[k].parent]
           S == {m \in Nat : m <= n => \E f : f = [k \in 0..m |-> F(f, k)]}
<1>1. 0 \in S
  <2> DEFINE f == [k \in 0..0 |-> {}]
  <2>1. f = [k \in 0..0 |-> F(f, k)]
    OBVIOUS
  <2> QED
    BY <2>1
<1>2. ASSUME NEW m \in Nat, m \in S PROVE m + 1 \in S
  <2>1. SUFFICES ASSUME m + 1 <= n PROVE \E f : f = [k \in 0..(m + 1) |-> F(f, k)]
    OBVIOUS
  <2>2. PICK f : f = [k \in 0..m |-> F(f, k)]
    BY <1>2, <2>1
  <2> DEFINE g == [k \in 0..(m + 1) |-> IF k = m + 1 THEN F(f, m + 1) ELSE f[k]]
  <2>3. ASSUME NEW k \in 0..(m + 1) PROVE g[k] = F(g, k)
    <3>1. k # 0 => s[k].parent \in 0..(k - 1)
      BY <2>1
    <3>2. k # 0 => s[k].parent \in 0..m
      BY <3>1
    <3>3. k # 0 => g[s[k].parent] = f[s[k].parent]
      BY <3>2
    <3>4. F(g, k) = F(f, k)
      BY <3>3
    <3>5. CASE k = m + 1
      BY <3>4, <3>5
    <3>6. CASE k # m + 1
      <4>1. k \in 0..m
        BY <3>6
      <4>2. f[k] = F(f, k)
        BY <4>1, <2>2
      <4> HIDE DEF F
      <4>3. g[k] = f[k]
        BY <3>6
      <4> QED
        BY <3>4, <4>2, <4>3
    <3> QED
      BY <3>5, <3>6
  <2> HIDE DEF F
  <2>4. g = [k \in 0..(m + 1) |-> g[k]]
    OBVIOUS
  <2>5. g = [k \in 0..(m + 1) |-> F(g, k)]
    <3> HIDE DEF g
    <3> QED
      BY <2>3, <2>4
  <2> QED
    BY <2>5
<1> HIDE DEF F, S
<1>3. Nat \subseteq S
  BY <1>1, <1>2, SetInduction
<1>4. n \in S
  BY <1>3
<1> QED
  BY <1>4 DEF S, F

LEMMA AboveIs ==
  ASSUME t \in TreeType, Shape(t)
  PROVE  \E chain :
           /\ Above = IF t.current = 0 THEN {} ELSE chain[t.stack[t.current].parent]
           /\ chain[0] = {}
           /\ \A k \in 1..Len(t.stack) :
                /\ t.stack[k].parent \in 0..(k - 1)
                /\ chain[k] = {t.stack[k].ino} \cup chain[t.stack[k].parent]
<1> DEFINE n == Len(t.stack)
           s == t.stack
           chain == CHOOSE f : f = [k \in 0..n |-> IF k = 0 THEN {}
                                                   ELSE {s[k].ino} \cup f[s[k].parent]]
<1>1. Above = IF t.current = 0 THEN {} ELSE chain[s[t.current].parent]
  BY DEF Above
<1>2. n \in Nat /\ Bottom(t) /\ Current(t) /\ (\A k \in 2..n : Linked(t, k)) /\ t.current \in Nat
  BY Entries DEF Shape, TreeType
<1> HIDE DEF n
<1>3. ASSUME NEW k \in 1..n PROVE s[k].parent \in 0..(k - 1)
  <2>1. CASE k = 1
    BY <2>1, <1>2 DEF Bottom, n
  <2>2. CASE k # 1
    <3>1. k \in 2..n
      BY <2>2, <1>2
    <3>2. s[k].parent \in 1..(k - 1)
      BY <3>1, <1>2 DEF Linked
    <3> QED
      BY <3>2
  <2> QED
    BY <2>1, <2>2
<1> HIDE DEF s
<1>4. \E f : f = [k \in 0..n |-> IF k = 0 THEN {} ELSE {s[k].ino} \cup f[s[k].parent]]
  BY <1>2, <1>3, ChainExists
<1>5. chain = [k \in 0..n |-> IF k = 0 THEN {} ELSE {s[k].ino} \cup chain[s[k].parent]]
  BY <1>4
<1> HIDE DEF chain
<1>6. ASSUME NEW k \in 1..n PROVE chain[k] = {s[k].ino} \cup chain[s[k].parent]
  <2> DEFINE F(i) == IF i = 0 THEN {} ELSE {s[i].ino} \cup chain[s[i].parent]
  <2>1. k \in 0..n /\ k # 0
    BY <1>2
  <2>2. chain = [i \in 0..n |-> F(i)]
    BY <1>5
  <2> HIDE DEF F
  <2>3. chain[k] = F(k)
    BY <2>1, <2>2
  <2> QED
    BY <2>1, <2>3 DEF F
<1>7. chain[0] = {}
  <2> DEFINE F(i) == IF i = 0 THEN {} ELSE {s[i].ino} \cup chain[s[i].parent]
  <2>1. 0 \in 0..n
    BY <1>2
  <2>2. chain = [i \in 0..n |-> F(i)]
    BY <1>5
  <2> HIDE DEF F
  <2>3. chain[0] = F(0)
    BY <2>1, <2>2
  <2> QED
    BY <2>3 DEF F
<1>8. /\ Above = IF t.current = 0 THEN {} ELSE chain[t.stack[t.current].parent]
      /\ chain[0] = {}
      /\ \A k \in 1..Len(t.stack) :
           /\ t.stack[k].parent \in 0..(k - 1)
           /\ chain[k] = {t.stack[k].ino} \cup chain[t.stack[k].parent]
  BY <1>1, <1>3, <1>6, <1>7 DEF n, s
<1> QED
  BY <1>8

(* They are all the directories that were entered below the one that is    *)
(* read.                                                                   *)
LEMMA AboveAll ==
  ASSUME t \in TreeType, Shape(t)
  PROVE  \A j \in 2..(t.current - 1) : Entered(t, j) => t.stack[j].ino \in Above
<1> DEFINE n == Len(t.stack)
           s == t.stack
<1>1. PICK chain : /\ Above = IF t.current = 0 THEN {} ELSE chain[s[t.current].parent]
                   /\ chain[0] = {}
                   /\ \A k \in 1..n : /\ s[k].parent \in 0..(k - 1)
                                       /\ chain[k] = {s[k].ino} \cup chain[s[k].parent]
  BY AboveIs
<1>2. n \in Nat /\ Bottom(t) /\ Current(t) /\ (\A k \in 2..n : Linked(t, k)) /\ t.current \in Nat
  BY Entries DEF Shape, TreeType
<1> HIDE DEF n, s
<1>6. \A k \in 1..n : chain[k] = {s[k].ino} \cup chain[s[k].parent]
  BY <1>1
<1> DEFINE S == {m \in Nat : \A k \in 2..n : k <= m /\ Entered(t, k) =>
                   \A j \in 2..k : Entered(t, j) => s[j].ino \in chain[k]}
<1>7. 0 \in S
  BY <1>2
<1>8. ASSUME NEW m \in Nat, m \in S PROVE m + 1 \in S
  <2>1. SUFFICES ASSUME NEW k \in 2..n, k <= m + 1, Entered(t, k), NEW j \in 2..k, Entered(t, j)
                 PROVE  s[j].ino \in chain[k]
    OBVIOUS
  <2>2. k \in 1..n
    BY <1>2
  <2>3. chain[k] = {s[k].ino} \cup chain[s[k].parent]
    BY <2>2, <1>6
  <2>4. CASE j = k
    BY <2>3, <2>4
  <2>5. CASE j # k
    <3>1. /\ s[k].parent \in 1..(k - 1) /\ Entered(t, s[k].parent)
          /\ \A i \in (s[k].parent + 1)..(k - 1) : ~Entered(t, i)
      BY <1>2 DEF Linked, s
    <3>2. j <= s[k].parent
      BY <3>1, <2>1, <2>5, <1>2
    <3>3. s[k].parent \in 2..n /\ s[k].parent <= m /\ j \in 2..(s[k].parent)
      BY <3>1, <3>2, <2>1, <1>2
    <3>4. s[j].ino \in chain[s[k].parent]
      BY <3>1, <3>3, <2>1, <1>8
    <3> QED
      BY <3>4, <2>3
  <2> QED
    BY <2>4, <2>5
<1> HIDE DEF S
<1>9. Nat \subseteq S
  BY <1>7, <1>8, SetInduction
<1>10. ASSUME NEW j \in 2..(t.current - 1), Entered(t, j) PROVE s[j].ino \in Above
  <2>1. t.current \in 1..n /\ Entered(t, t.current) /\ t.current \in 2..n
    <3>1. t.current # 0
      BY <1>2, <1>10
    <3>2. n >= 1 /\ "visit" \notin t.stack[1].needs
      BY <3>1, <1>2 DEF Current, n
    <3> QED
      BY <3>2, <1>2, <1>10 DEF Current, n
  <2>2. /\ s[t.current].parent \in 1..(t.current - 1) /\ Entered(t, s[t.current].parent)
        /\ \A i \in (s[t.current].parent + 1)..(t.current - 1) : ~Entered(t, i)
    BY <2>1, <1>2 DEF Linked, s
  <2>3. j <= s[t.current].parent
    BY <2>2, <1>2, <1>10
  <2>4. s[t.current].parent \in 2..n /\ j \in 2..(s[t.current].parent) /\ s[t.current].parent \in Nat
    BY <2>1, <2>2, <2>3, <1>2
  <2>5. s[t.current].parent \in S
    BY <2>4, <1>9
  <2>6. s[j].ino \in chain[s[t.current].parent]
    BY <2>2, <2>4, <2>5, <1>10 DEF S
  <2> QED
    BY <2>1, <2>6, <1>1
<1> QED
  BY <1>10 DEF s

(* And no others.                                                          *)
LEMMA AboveOnly ==
  ASSUME t \in TreeType, Shape(t)
  PROVE  \A i \in Above : i = Nothing \/ Owed(t, i)
<1> DEFINE n == Len(t.stack)
           s == t.stack
<1>1. PICK chain : /\ Above = IF t.current = 0 THEN {} ELSE chain[s[t.current].parent]
                   /\ chain[0] = {}
                   /\ \A k \in 1..n : /\ s[k].parent \in 0..(k - 1)
                                       /\ chain[k] = {s[k].ino} \cup chain[s[k].parent]
  BY AboveIs
<1>2. n \in Nat /\ Bottom(t) /\ Current(t) /\ (\A k \in 2..n : Linked(t, k)) /\ t.current \in Nat
  BY Entries DEF Shape, TreeType
<1> HIDE DEF n, s
<1>3. n >= 1 => s[1].parent = 0 /\ s[1].ino = Nothing
  BY <1>2 DEF Bottom, n, s
<1> DEFINE S == {m \in Nat : \A k \in 0..n : k <= m /\ (k >= 2 => Entered(t, k)) =>
                   \A i \in chain[k] : i = Nothing \/ Owed(t, i)}
<1>4. 0 \in S
  BY <1>1
<1>5. ASSUME NEW m \in Nat, m \in S PROVE m + 1 \in S
  <2>1. SUFFICES ASSUME NEW k \in 0..n, k <= m + 1, k >= 2 => Entered(t, k), NEW i \in chain[k]
                 PROVE  i = Nothing \/ Owed(t, i)
    OBVIOUS
  <2>2. CASE k = 0
    BY <2>1, <2>2, <1>1
  <2>3. CASE k = 1
    <3>1. n >= 1 /\ k \in 1..n
      BY <2>3, <1>2
    <3>2. chain[1] = {Nothing} \cup {}
      BY <3>1, <2>3, <1>1, <1>3
    <3> QED
      BY <3>2, <2>1, <2>3
  <2>4. CASE k >= 2
    <3>1. k \in 1..n /\ k \in 2..n
      BY <2>4, <1>2
    <3>2. chain[k] = {s[k].ino} \cup chain[s[k].parent]
      BY <3>1, <1>1
    <3>3. s[k].parent \in 1..(k - 1) /\ Entered(t, s[k].parent)
      BY <3>1, <1>2 DEF Linked, s
    <3>4. s[k].parent \in 0..n /\ s[k].parent <= m
      BY <3>1, <3>3, <2>1, <1>2
    <3>5. CASE i = s[k].ino
      BY <3>1, <3>5, <2>1, <2>4 DEF Owed, n, s
    <3>6. CASE i \in chain[s[k].parent]
      BY <3>3, <3>4, <3>6, <1>5
    <3> QED
      BY <3>2, <3>5, <3>6, <2>1
  <2> QED
    BY <2>1, <2>2, <2>3, <2>4, <1>2
<1> HIDE DEF S
<1>6. Nat \subseteq S
  BY <1>4, <1>5, SetInduction
<1>7. ASSUME NEW i \in Above PROVE i = Nothing \/ Owed(t, i)
  <2>1. t.current # 0 /\ i \in chain[s[t.current].parent]
    BY <1>1, <1>7
  <2>2. t.current \in 1..n /\ Entered(t, t.current)
    <3>1. n >= 1 /\ "visit" \notin t.stack[1].needs
      BY <2>1, <1>2 DEF Current, n
    <3> QED
      BY <3>1, <1>2 DEF Current, n
  <2>3. s[t.current].parent \in 0..n /\ (s[t.current].parent >= 2 => Entered(t, s[t.current].parent))
    <3>1. CASE t.current = 1
      <4>1. n >= 1 /\ 0 \in 0..n /\ ~(0 >= 2)
        BY <2>2, <1>2
      <4> QED
        BY <3>1, <4>1, <1>3
    <3>2. CASE t.current # 1
      <4>1. t.current \in 2..n
        BY <2>2, <3>2, <1>2
      <4>2. s[t.current].parent \in 1..(t.current - 1) /\ Entered(t, s[t.current].parent)
        BY <4>1, <1>2 DEF Linked, s
      <4>3. s[t.current].parent \in 0..n
        BY <4>1, <4>2, <1>2
      <4> QED
        BY <4>2, <4>3
    <3> QED
      BY <3>1, <3>2
  <2>4. s[t.current].parent \in Nat
    BY <2>3, <1>2
  <2>5. s[t.current].parent \in S
    BY <2>4, <1>6
  <2>6. s[t.current].parent <= s[t.current].parent
    BY <2>4
  <2> QED
    BY <2>1, <2>3, <2>5, <2>6 DEF S
<1> QED
  BY <1>7

(* The directories along a path, as the recursion of Place gives them.     *)
LEMMA PlacesExist ==
  ASSUME NEW n \in Nat, NEW p
  PROVE  \E f : f = [k \in 0..n |->
                       IF k = 0 THEN Cwd
                       ELSE IF f[k - 1] = Nothing THEN Nothing ELSE Follow(Object(f[k - 1], p[k]))]
<1> DEFINE G(i, k) == IF i = Nothing THEN Nothing ELSE Follow(Object(i, p[k]))
           F(f, k) == IF k = 0 THEN Cwd ELSE G(f[k - 1], k)
           S == {m \in Nat : \E f : f = [k \in 0..m |-> F(f, k)]}
<1> HIDE DEF G
<1>1. 0 \in S
  <2> DEFINE f == [k \in 0..0 |-> Cwd]
  <2>1. f = [k \in 0..0 |-> F(f, k)]
    OBVIOUS
  <2> QED
    BY <2>1
<1>2. ASSUME NEW m \in Nat, m \in S PROVE m + 1 \in S
  <2>2. PICK f : f = [k \in 0..m |-> F(f, k)]
    BY <1>2
  <2> DEFINE g == [k \in 0..(m + 1) |-> IF k = m + 1 THEN F(f, m + 1) ELSE f[k]]
  <2>3. ASSUME NEW k \in 0..(m + 1) PROVE g[k] = F(g, k)
    <3>1. k # 0 => k - 1 \in 0..m
      OBVIOUS
    <3>2. k # 0 => g[k - 1] = f[k - 1]
      BY <3>1
    <3>3. F(g, k) = F(f, k)
      BY <3>2
    <3>4. CASE k = m + 1
      BY <3>3, <3>4
    <3>5. CASE k # m + 1
      <4>1. k \in 0..m
        BY <3>5
      <4> HIDE DEF F
      <4>2. f[k] = F(f, k)
        BY <4>1, <2>2
      <4>3. g[k] = f[k]
        BY <3>5
      <4> QED
        BY <3>3, <4>2, <4>3
    <3> QED
      BY <3>4, <3>5
  <2> HIDE DEF F
  <2>4. g = [k \in 0..(m + 1) |-> g[k]]
    OBVIOUS
  <2>5. g = [k \in 0..(m + 1) |-> F(g, k)]
    <3> HIDE DEF g
    <3> QED
      BY <2>3, <2>4
  <2>6. m + 1 \in Nat
    OBVIOUS
  <2> QED
    BY <2>5, <2>6
<1> HIDE DEF F, S
<1>3. Nat \subseteq S
  BY <1>1, <1>2, SetInduction
<1>4. n \in S
  BY <1>3
<1> QED
  BY <1>4 DEF S, F, G

(* The path leads to where the walk is.                                    *)
LEMMA PathLeads ==
  ASSUME t \in TreeType, disk \in DiskType, Housed(disk), Shape(t), Placed(t), Visiting(t, a.pc),
         a.pc = "visit", Still(t.path)
  PROVE  Place(Front(t.path)) = t.working_dir
<1> DEFINE p == Front(t.path)
           s == t.stack
           c == t.current
           G(i, name) == IF i = Nothing THEN Nothing ELSE Follow(Object(i, name))
           dir == CHOOSE f : f = [k \in 0..Len(p) |->
                       IF k = 0 THEN Cwd
                       ELSE IF f[k - 1] = Nothing THEN Nothing ELSE Follow(Object(f[k - 1], p[k]))]
<1>1. Place(p) = dir[Len(p)]
  BY DEF Place
<1>2. /\ Open(t, a.pc) /\ (t.d.on \/ (c = 1 /\ Len(s) = 1)) /\ Len(t.path) = t.dirname_length + 1
      /\ t.d.on => /\ disk.up[Last(t.path)] = t.working_dir
                   /\ disk.kind[Last(t.path)] # "none" \/ Gone(Last(t.path))
  BY DEF Visiting, Open
<1>3. /\ t.path \in Seq(Nodes) /\ t.dirname_length \in Nat /\ c \in Nat /\ Len(s) \in Nat
      /\ Current(t) /\ (\A k \in 2..Len(s) : Linked(t, k)) /\ (\A k \in 1..Len(s) : s[k] \in EntryType)
  BY Entries DEF TreeType, Shape
<1>4. p \in Seq(Nodes) /\ Len(p) = t.dirname_length
      /\ \A i \in 1..t.dirname_length : p[i] = t.path[i]
  <2>1. p = SubSeq(t.path, 1, t.dirname_length)
    BY <1>2, <1>3 DEF Front
  <2>2. t.dirname_length <= Len(t.path)
    BY <1>2, <1>3
  <2> HIDE DEF p
  <2> QED
    BY <2>1, <2>2, <1>3, Prefix
<1> HIDE DEF p
<1>5. \E f : f = [k \in 0..Len(p) |->
                       IF k = 0 THEN Cwd
                       ELSE IF f[k - 1] = Nothing THEN Nothing ELSE Follow(Object(f[k - 1], p[k]))]
  <2>1. PICK n \in Nat : n = Len(p)
    BY <1>3, <1>4
  <2>2. \E f : f = [k \in 0..n |->
                       IF k = 0 THEN Cwd
                       ELSE IF f[k - 1] = Nothing THEN Nothing ELSE Follow(Object(f[k - 1], p[k]))]
    BY PlacesExist, Zenon
  <2> QED
    BY <2>1, <2>2, Zenon
<1>6. dir = [k \in 0..Len(p) |-> IF k = 0 THEN Cwd ELSE G(dir[k - 1], p[k])]
  BY <1>5
<1> HIDE DEF dir, G, s
<1>7. dir[0] = Cwd /\ \A k \in 1..Len(p) : dir[k] = G(dir[k - 1], p[k])
  <2> DEFINE F(k) == IF k = 0 THEN Cwd ELSE G(dir[k - 1], p[k])
  <2>1. dir = [k \in 0..Len(p) |-> F(k)]
    BY <1>6
  <2> HIDE DEF F
  <2>2. \A k \in 0..Len(p) : dir[k] = F(k)
    BY <2>1
  <2>3. 0 \in 0..Len(p) /\ \A k \in 1..Len(p) : k \in 0..Len(p) /\ k # 0
    BY <1>3, <1>4
  <2> QED
    BY <2>2, <2>3 DEF F
<1>8. \A k \in DOMAIN t.path : t.path[k] \notin changed
  BY DEF Still
<1>9. Cwd \in Nodes /\ Nothing \notin Nodes /\ disk.up[Cwd] = Nothing
  BY NodesAssumption DEF Nothing, Housed
<1>10. \A m \in Nodes : disk.kind[m] # "none" /\ disk.up[m] # Nothing => disk.kind[disk.up[m]] = "dir"
  BY <1>9 DEF Housed
<1>11. ASSUME NEW k \in 2..Len(s), Entered(t, k) PROVE s[k].ino \in Nodes
  <2>1. s[k].ino # Nothing
    BY <1>11 DEF Placed, s
  <2>2. s[k] \in EntryType
    BY <1>3
  <2> QED
    BY <2>1, <2>2 DEF EntryType, MaybeNode
<1> DEFINE S == {m \in Nat : \A k \in 2..Len(s) :
                   k <= m /\ Entered(t, k) /\ disk.kind[s[k].ino] = "dir" =>
                     dir[s[k].dirname_length + 1] = s[k].ino}
<1>12. 0 \in S
  BY <1>3
<1>13. ASSUME NEW m \in Nat, m \in S PROVE m + 1 \in S
  <2>1. SUFFICES ASSUME NEW k \in 2..Len(s), k <= m + 1, Entered(t, k),
                        disk.kind[s[k].ino] = "dir"
                 PROVE  dir[s[k].dirname_length + 1] = s[k].ino
    OBVIOUS
  <2> DEFINE e == s[k]
             b == e.parent
             l == e.dirname_length
  <2>2. e \in EntryType
    BY <1>3
  <2>3. e.name \in Nodes /\ l \in Nat /\ e.ino \in Nodes
    BY <2>1, <2>2, <1>11 DEF EntryType
  <2>4. /\ b \in 1..(k - 1) /\ Entered(t, b)
        /\ l = IF b <= 1 THEN 0 ELSE s[b].dirname_length + 1
        /\ l < t.dirname_length /\ t.path[l + 1] = e.name
    BY <2>1, <1>3 DEF Linked, s
  <2>5. l + 1 \in 1..Len(p) /\ l + 1 \in DOMAIN t.path /\ p[l + 1] = e.name /\ (l + 1) - 1 = l
    <3>1. l + 1 \in 1..Len(p) /\ l + 1 \in 1..Len(t.path) /\ (l + 1) - 1 = l
      BY SMTT(20), <2>3, <2>4, <1>2, <1>3, <1>4
    <3> QED
      BY SMTT(20), <3>1, <2>4, <1>3, <1>4
  <2>6. e.name \notin changed
    BY <2>4, <2>5, <1>8
  <2>7. LeadsTo(e.name, Dir(t, b), e.ino)
    BY DEF Placed, s
  <2>8. Dir(t, b) \in Nodes
    <3>1. CASE b <= 1
      BY <3>1, <1>9 DEF Dir
    <3>2. CASE ~(b <= 1)
      <4>1. b \in 2..Len(s)
        BY <3>2, <2>4, <1>3
      <4> QED
        BY <4>1, <3>2, <2>4, <1>11 DEF Dir, s
    <3> QED
      BY <3>1, <3>2
  <2> HIDE DEF l, b, e
  <2>9. /\ disk.up[e.name] = Dir(t, b) /\ disk.kind[e.name] # "none"
        /\ \/ e.name = e.ino /\ disk.kind[e.name] = "dir"
           \/ disk.kind[e.name] = "link" /\ disk.to[e.name] = e.ino
    BY <2>6, <2>7 DEF LeadsTo, Gone
  <2>10. disk.kind[Dir(t, b)] = "dir"
    BY <2>3, <2>8, <2>9, <1>9, <1>10
  <2>11. dir[l] = Dir(t, b)
    <3>1. CASE b <= 1
      BY <3>1, <2>4, <1>7 DEF Dir
    <3>2. CASE ~(b <= 1)
      <4>1. b \in 2..Len(s) /\ b <= m
        BY <3>2, <2>1, <2>4, <1>3
      <4>2. Dir(t, b) = s[b].ino /\ l = s[b].dirname_length + 1
        BY <3>2, <2>4 DEF Dir, s
      <4> QED
        BY <4>1, <4>2, <2>4, <2>10, <1>13
    <3> QED
      BY <3>1, <3>2
  <2>12. dir[l + 1] = G(Dir(t, b), e.name)
    BY <2>5, <2>11, <1>7
  <2>13. Object(Dir(t, b), e.name) = e.name
    BY <2>9 DEF Object
  <2>14. Follow(e.name) = e.ino
    <3>1. disk.kind[e.ino] = "dir" /\ e.ino # Nothing /\ e.name # Nothing
      BY <2>1, <2>3, <1>9 DEF e
    <3> QED
      BY <3>1, <2>9 DEF Follow
  <2>15. dir[l + 1] = e.ino
    BY <2>8, <2>12, <2>13, <2>14, <1>9 DEF G
  <2> QED
    BY <2>15 DEF l, e
<1> HIDE DEF S
<1>14. Nat \subseteq S
  BY <1>12, <1>13, SetInduction
<1>b. Place(p) = dir[t.dirname_length] /\ dir[0] = Cwd
  BY <1>1, <1>4, <1>7
<1>15. CASE c <= 1
  <2>1. t.working_dir = Cwd /\ t.dirname_length = 0
    BY <1>15, <1>3 DEF Current, Dir
  <2> QED
    BY <2>1, <1>b DEF p
<1>16. CASE ~(c <= 1)
  <2>1. t.d.on /\ c \in Nat
    BY <1>2, <1>3, <1>16
  <2>2. c \in 2..Len(s) /\ Entered(t, c) /\ c \in Nat
    <3>1. Len(s) # 0 /\ Len(s) >= 1
      BY <1>3, <1>16 DEF Current, s
    <3>2. "visit" \notin t.stack[1].needs
      BY <3>1, <1>3, <1>16 DEF Current, s
    <3> QED
      BY <3>1, <3>2, <1>3, <1>16 DEF Current, s
  <2>3. t.working_dir = s[c].ino /\ t.dirname_length = s[c].dirname_length + 1
    BY <1>3, <1>16 DEF Current, Dir, s
  <2>4. t.working_dir \in Nodes
    BY <2>2, <2>3, <1>11
  <2>5. Len(t.path) \in DOMAIN t.path /\ Last(t.path) = t.path[Len(t.path)]
    BY <1>2, <1>3 DEF Last
  <2>6. Last(t.path) \notin changed /\ Last(t.path) \in Nodes
    BY <2>5, <1>3, <1>8
  <2>7. disk.kind[Last(t.path)] # "none" /\ disk.up[Last(t.path)] = t.working_dir
    BY <2>1, <2>6, <1>2 DEF Gone
  <2>8. disk.kind[s[c].ino] = "dir"
    BY <2>3, <2>4, <2>6, <2>7, <1>9, <1>10
  <2>9. c \in S
    BY <2>2, <1>14
  <2>10. dir[s[c].dirname_length + 1] = s[c].ino
    <3>1. c <= c
      BY <1>3
    <3> QED
      BY <3>1, <2>2, <2>8, <2>9 DEF S
  <2> QED
    BY <2>3, <2>10, <1>b DEF p
<1> QED
  BY <1>15, <1>16 DEF p

-----------------------------------------------------------------------------
(* Counting entries of the stack.                                          *)

LEMMA AtMostTwo ==
  ASSUME NEW S, IsFiniteSet(S), S \subseteq Nat,
         \A i, j, k \in S : ~(i < j /\ j < k)
  PROVE  Cardinality(S) <= 2
<1>1. CASE S = {}
  BY <1>1, FS_EmptySet
<1>2. CASE S # {}
  <2>1. PICK i \in S : TRUE
    BY <1>2
  <2> DEFINE T == S \ {i}
  <2>2. IsFiniteSet(T) /\ Cardinality(T) = Cardinality(S) - 1
    BY <2>1, FS_RemoveElement
  <2>3. Cardinality(S) \in Nat
    BY FS_CardinalityType
  <2>4. CASE T = {}
    <3>1. Cardinality(T) = 0
      BY <2>4, FS_EmptySet
    <3> QED
      BY <3>1, <2>2, <2>3
  <2>5. CASE T # {}
    <3>1. PICK j \in T : TRUE
      BY <2>5
    <3> DEFINE U == T \ {j}
    <3>2. IsFiniteSet(U) /\ Cardinality(U) = Cardinality(T) - 1
      BY <3>1, <2>2, FS_RemoveElement
    <3>3. U = {}
      <4>1. SUFFICES ASSUME NEW k \in U PROVE FALSE
        OBVIOUS
      <4>2. /\ i \in S /\ j \in S /\ k \in S /\ i # j /\ j # k /\ i # k
            /\ i \in Nat /\ j \in Nat /\ k \in Nat
        BY <2>1, <3>1, <4>1
      <4>3. \/ (i < j /\ j < k) \/ (i < k /\ k < j) \/ (j < i /\ i < k)
            \/ (j < k /\ k < i) \/ (k < i /\ i < j) \/ (k < j /\ j < i)
        BY <4>2
      <4> QED
        BY <4>2, <4>3
    <3>4. Cardinality(U) = 0
      BY <3>3, FS_EmptySet
    <3> QED
      BY <3>2, <3>4, <2>2, <2>3
  <2> QED
    BY <2>4, <2>5
<1> QED
  BY <1>1, <1>2

LEMMA FiniteStack ==
  ASSUME NEW w \in TreeType, NEW S, S \subseteq 1..Len(w.stack)
  PROVE  IsFiniteSet(S) /\ S \subseteq Nat /\ Cardinality(S) \in Nat
<1>1. IsFiniteSet(1..Len(w.stack)) /\ Len(w.stack) \in Nat
  BY Entries, FS_Interval
<1>2. IsFiniteSet(S)
  BY <1>1, FS_Subset
<1> QED
  BY <1>1, <1>2, FS_CardinalityType

(* No link is followed three times on one way.                             *)
LEMMA NoThirdTime ==
  ASSUME NEW w \in TreeType, Shape(w), Placed(w), NoCircle(w)
  PROVE  \A link \in Nodes : Cardinality(TimesFollowed(w, link)) <= 2
<1> SUFFICES ASSUME NEW link \in Nodes PROVE Cardinality(TimesFollowed(w, link)) <= 2
  OBVIOUS
<1> DEFINE n == Len(w.stack)
           s == w.stack
           S == TimesFollowed(w, link)
<1>1. n \in Nat /\ Bottom(w) /\ (\A k \in 2..n : Linked(w, k)) /\ DOMAIN s = 1..n
  BY Entries DEF Shape, TreeType
<1>2. S \subseteq 1..n
  BY <1>1 DEF TimesFollowed
<1> HIDE DEF n
<1>3. ASSUME NEW k \in S
      PROVE  k \in 2..n /\ Entered(w, k) /\ s[k].name = link /\ s[k].ino # link
             /\ disk.to[link] = s[k].ino
  <2>1. k \in 1..n /\ s[k].symlink_parent # Nothing /\ s[k].name = link /\ s[k].ino # link
    BY <1>1 DEF TimesFollowed
  <2>2. k # 1
    BY <2>1, <1>1 DEF Bottom, n
  <2>3. k \in 2..n
    BY <2>1, <2>2, <1>1
  <2>4. Entered(w, k)
    BY <2>1, <2>3, <1>1 DEF Linked
  <2>5. disk.to[link] = s[k].ino
    BY <2>1, <2>3, <2>4 DEF Placed, n
  <2> QED
    BY <2>1, <2>3, <2>4, <2>5
<1> HIDE DEF S
<1>4. ASSUME NEW i \in S, NEW j \in S, NEW k \in S, i < j, j < k PROVE FALSE
  <2>1. /\ i \in 2..n /\ j \in 2..n /\ k \in 2..n
        /\ Entered(w, i) /\ Entered(w, j) /\ Entered(w, k)
        /\ s[i].ino = s[k].ino /\ s[k].name # s[k].ino
    BY <1>3
  <2>2. /\ s[k].parent \in 1..(k - 1)
        /\ \A m \in (s[k].parent + 1)..(k - 1) : ~Entered(w, m)
    BY <2>1, <1>1 DEF Linked
  <2>3. j <= s[k].parent
    BY <2>1, <2>2, <1>1, <1>4
  <2>4. i \in 2..(s[k].parent - 1)
    BY <2>1, <2>2, <2>3, <1>1, <1>4
  <2> QED
    BY <2>1, <2>4 DEF NoCircle, n
<1>5. IsFiniteSet(S) /\ S \subseteq Nat
  BY <1>2, FiniteStack DEF n
<1>6. Cardinality(S) <= 2
  BY <1>4, <1>5, AtMostTwo
<1> QED
  BY <1>6 DEF S

LEMMA FewerFollowed ==
  ASSUME t \in TreeType, t' \in TreeType, FollowedTwice, Below(t', t)
  PROVE  FollowedTwice'
<1> SUFFICES ASSUME NEW link \in Nodes PROVE Cardinality(TimesFollowed(t', link)) <= 2
  BY DEF FollowedTwice
<1>1. Len(t.stack) \in Nat /\ Len(t'.stack) \in Nat /\ DOMAIN t.stack = 1..Len(t.stack)
      /\ DOMAIN t'.stack = 1..Len(t'.stack) /\ Len(t'.stack) <= Len(t.stack)
  BY Entries DEF TreeType, Below
<1> DEFINE S == TimesFollowed(t, link)
           T == TimesFollowed(t', link)
<1>2. T \subseteq S
  BY <1>1 DEF TimesFollowed, Below
<1>3. S \subseteq 1..Len(t.stack)
  BY <1>1 DEF TimesFollowed
<1>a. Cardinality(S) <= 2
  BY DEF FollowedTwice
<1> HIDE DEF S, T
<1>4. IsFiniteSet(S) /\ Cardinality(S) \in Nat
  BY <1>3, FiniteStack
<1>5. Cardinality(T) <= Cardinality(S) /\ IsFiniteSet(T)
  BY <1>2, <1>4, FS_Subset
<1>6. Cardinality(T) \in Nat
  BY <1>5, FS_CardinalityType
<1>7. Cardinality(T) <= 2
  BY <1>a, <1>4, <1>5, <1>6
<1> QED
  BY <1>7 DEF T

(* The entries that keep the way back.                                     *)
Ways(w) == {k \in 1..Len(w.stack) : w.stack[k].symlink_parent # Nothing}

LEMMA WaysSame ==
  ASSUME NEW w \in TreeType, NEW x \in TreeType,
         Len(x.stack) = Len(w.stack)
           \/ (Len(x.stack) = Len(w.stack) + 1 /\ x.stack[Len(x.stack)].symlink_parent = Nothing)
           \/ (Len(x.stack) = Len(w.stack) - 1 /\ w.stack[Len(w.stack)].symlink_parent = Nothing),
         \A k \in 1..Len(w.stack) : k <= Len(x.stack) =>
           x.stack[k].symlink_parent = w.stack[k].symlink_parent
  PROVE  Ways(x) = Ways(w) /\ Cardinality(Ways(w)) \in Nat
<1> DEFINE m == Len(w.stack)
           n == Len(x.stack)
<1>1. m \in Nat /\ n \in Nat
  BY Entries
<1> HIDE DEF m, n
<1>2. ASSUME NEW k \in 1..n, x.stack[k].symlink_parent # Nothing
      PROVE  k \in 1..m /\ w.stack[k].symlink_parent # Nothing
  <2>1. k \in 1..m
    BY <1>1, <1>2 DEF m, n
  <2>2. k <= n
    BY <1>1
  <2> QED
    BY <2>1, <2>2, <1>2 DEF m, n
<1>3. ASSUME NEW k \in 1..m, w.stack[k].symlink_parent # Nothing
      PROVE  k \in 1..n /\ x.stack[k].symlink_parent # Nothing
  <2>1. k \in 1..n
    BY <1>1, <1>3 DEF m, n
  <2>2. k <= n
    BY <2>1, <1>1
  <2> QED
    BY <2>1, <2>2, <1>3 DEF m, n
<1>4. Ways(x) = Ways(w)
  BY <1>2, <1>3 DEF Ways, m, n
<1>5. Ways(w) \subseteq 1..Len(w.stack)
  BY DEF Ways
<1> QED
  BY <1>4, <1>5, FiniteStack

LEMMA WaysLess ==
  ASSUME NEW w \in TreeType, NEW x \in TreeType, Len(w.stack) >= 1,
         Len(x.stack) = Len(w.stack) - 1, w.stack[Len(w.stack)].symlink_parent # Nothing,
         \A k \in 1..Len(x.stack) : x.stack[k].symlink_parent = w.stack[k].symlink_parent
  PROVE  Cardinality(Ways(x)) = Cardinality(Ways(w)) - 1 /\ Cardinality(Ways(w)) \in Nat
<1> DEFINE m == Len(w.stack)
           n == Len(x.stack)
<1>1. m \in Nat /\ n \in Nat /\ m = n + 1
  BY Entries
<1> HIDE DEF m, n
<1>2. Ways(x) = Ways(w) \ {m}
  <2>1. \A k \in 1..n : k \in 1..m /\ k # m
    BY <1>1
  <2>2. \A k \in 1..m : k # m => k \in 1..n
    BY <1>1
  <2>3. \A k \in 1..n : x.stack[k].symlink_parent = w.stack[k].symlink_parent
    BY DEF n
  <2> QED
    BY <2>1, <2>2, <2>3 DEF Ways, m, n
<1>3. m \in Ways(w)
  BY <1>1 DEF Ways, m
<1>4. Ways(w) \subseteq 1..Len(w.stack)
  BY DEF Ways
<1>5. IsFiniteSet(Ways(w)) /\ Cardinality(Ways(w)) \in Nat
  BY <1>4, FiniteStack
<1> QED
  BY <1>2, <1>3, <1>5, FS_RemoveElement

LEMMA WaysMore ==
  ASSUME NEW w \in TreeType, NEW x \in TreeType, Len(w.stack) >= 1,
         Len(x.stack) = Len(w.stack), w.stack[Len(w.stack)].symlink_parent = Nothing,
         x.stack[Len(w.stack)].symlink_parent # Nothing,
         \A k \in 1..(Len(w.stack) - 1) : x.stack[k].symlink_parent = w.stack[k].symlink_parent
  PROVE  Cardinality(Ways(x)) = Cardinality(Ways(w)) + 1 /\ Cardinality(Ways(w)) \in Nat
<1> DEFINE m == Len(w.stack)
<1>1. m \in Nat /\ m >= 1
  BY Entries
<1> HIDE DEF m
<1>2. Ways(x) = Ways(w) \cup {m}
  <2>1. \A k \in 1..m : k = m \/ k \in 1..(m - 1)
    BY <1>1
  <2>2. m \in 1..m
    BY <1>1
  <2> QED
    BY <2>1, <2>2 DEF Ways, m
<1>3. m \notin Ways(w)
  BY DEF Ways, m
<1>4. Ways(w) \subseteq 1..Len(w.stack)
  BY DEF Ways
<1>5. IsFiniteSet(Ways(w)) /\ Cardinality(Ways(w)) \in Nat
  BY <1>4, FiniteStack
<1> QED
  BY <1>2, <1>3, <1>5, FS_AddElement

LEMMA StillKept ==
  ASSUME NEW w \in TreeType, NEW x \in TreeType, Shape(w), x.stack = w.stack
  PROVE  /\ Below(x, w)
         /\ Placed(w) => Placed(x)
         /\ NoCircle(w) => NoCircle(x)
         /\ Dated(w) => Dated(x)
         /\ \A i : Owed(x, i) <=> Owed(w, i)
         /\ Ways(x) = Ways(w)
<1>1. Len(w.stack) \in Nat
  BY Entries
<1>2. \A k : Entered(x, k) <=> Entered(w, k)
  BY DEF Entered
<1>3. Below(x, w)
  BY <1>1, <1>2 DEF Below
<1>4. (\A i : Owed(x, i) <=> Owed(w, i)) /\ Ways(x) = Ways(w)
  BY <1>2 DEF Owed, Ways
<1> QED
  BY <1>3, <1>4, BelowKept

-----------------------------------------------------------------------------
(* Looking at what was found.                                              *)

LEMMA FoundThere ==
  ASSUME Types, Shape(t), Visiting(t, a.pc), a.pc = "visit"
  PROVE  /\ t.path # <<>> /\ Last(t.path) \in Nodes
         /\ Found # Nothing => Found = Last(t.path) /\ disk.kind[Found] # "none"
                               /\ disk.up[Found] = t.working_dir
         /\ t.d.on \/ (t.current = 1 /\ Len(t.stack) = 1)
<1>1. /\ Len(t.path) = t.dirname_length + 1 /\ t.path \in Seq(Nodes) /\ t.dirname_length \in Nat
      /\ t.d.on \/ (t.current = 1 /\ Len(t.stack) = 1)
  BY DEF Visiting, Open, Types, TreeType
<1>2. Len(t.path) \in 1..Len(t.path)
  BY <1>1
<1> QED
  BY <1>1, <1>2 DEF Last, Found, Object

LEMMA LookedStep ==
  ASSUME Types, Shape(t), Visiting(t, a.pc), a.pc = "visit", Found # Nothing
  PROVE  LET x == Looked
             st == IF x.st # Nothing /\ x.st \notin Above THEN x.st ELSE Found IN
         /\ x \in TreeType
         /\ x.d = t.d /\ x.visit = t.visit /\ x.working_dir = t.working_dir
         /\ x.restore = t.restore /\ x.current = t.current
         /\ x.dirname_length = t.dirname_length /\ x.path = t.path /\ x.stack = t.stack
         /\ x.lst = Found /\ x.st \in {Nothing, Follow(Found)}
         /\ st \in Nodes /\ x.descend = IsDirectory(st) /\ x.time = atime[st]
<1> DEFINE x == Looked
           target == IF t.symlink_mode = "P" THEN Nothing ELSE Follow(Found)
           st == IF target # Nothing /\ target \notin Above THEN target ELSE Found
           m == IF t.symlink_mode = "H" THEN "P" ELSE t.symlink_mode
<1>1. t \in TreeType /\ disk \in DiskType /\ atime \in [Nodes -> MaybeNode]
  BY DEF Types
<1>2. Found \in Nodes /\ Nothing \notin Nodes
  BY <1>1, FoundThere, Lookups
<1>3. target \in MaybeNode /\ target \in {Nothing, Follow(Found)}
  BY <1>1, <1>2, Lookups DEF MaybeNode
<1>4. st \in Nodes
  BY <1>2, <1>3 DEF MaybeNode
<1>5. x = [t EXCEPT !.lst = Found, !.st = target, !.descend = IsDirectory(st), !.time = atime[st],
                    !.symlink_mode = m]
  BY DEF Looked, SameAsParent
<1>6. m \in {"P", "L", "H"} /\ IsDirectory(st) \in BOOLEAN /\ atime[st] \in MaybeNode
      /\ Found \in MaybeNode
  BY <1>1, <1>2, <1>4 DEF TreeType, IsDirectory, MaybeNode
<1> HIDE DEF m, st, target
<1>7. x \in TreeType
      /\ x.d = t.d /\ x.visit = t.visit /\ x.working_dir = t.working_dir
      /\ x.restore = t.restore /\ x.current = t.current
      /\ x.dirname_length = t.dirname_length /\ x.path = t.path /\ x.stack = t.stack
      /\ x.lst = Found /\ x.st = target
      /\ x.descend = IsDirectory(st) /\ x.time = atime[st]
  BY <1>1, <1>3, <1>5, <1>6 DEF TreeType
<1> HIDE DEF x
<1>8. st = IF x.st # Nothing /\ x.st \notin Above THEN x.st ELSE Found
  BY <1>7 DEF st
<1> QED
  BY <1>3, <1>4, <1>7, <1>8 DEF x

LEMMA LookedKept ==
  ASSUME Types, Housed(disk), Shape(t), Placed(t), NoCircle(t), Visiting(t, a.pc), a.pc = "visit",
         Found # Nothing
  PROVE  /\ Shape(Looked) /\ Placed(Looked) /\ NoCircle(Looked) /\ (Dated(t) => Dated(Looked))
         /\ (\A i : Owed(Looked, i) <=> Owed(t, i)) /\ Ways(Looked) = Ways(t)
         /\ Descendable(Looked)
         /\ Untouched(t) /\ entry.fd = Nothing => Remembered(Looked)
<1> DEFINE x == Looked
           st == IF x.st # Nothing /\ x.st \notin Above THEN x.st ELSE Found
<1>1. /\ x \in TreeType
      /\ x.d = t.d /\ x.visit = t.visit /\ x.working_dir = t.working_dir
      /\ x.restore = t.restore /\ x.current = t.current
      /\ x.dirname_length = t.dirname_length /\ x.path = t.path /\ x.stack = t.stack
      /\ x.lst = Found /\ x.st \in {Nothing, Follow(Found)}
      /\ st \in Nodes /\ x.descend = IsDirectory(st) /\ x.time = atime[st]
  BY LookedStep
<1>2. t \in TreeType /\ disk \in DiskType /\ t.dirname_length <= Len(t.path) /\ Nothing \notin Nodes
  BY Lookups DEF Types, Shape, Current
<1>3. /\ Last(t.path) \in Nodes /\ Found = Last(t.path)
      /\ disk.kind[Found] # "none" /\ disk.up[Found] = t.working_dir
  BY FoundThere
<1>4. \A j \in 2..(t.current - 1) : Entered(t, j) => t.stack[j].ino \in Above
  BY <1>2, AboveAll
<1> HIDE DEF x
<1>5. Shape(x)
  BY <1>1, <1>2, StillShape
<1>6. /\ Placed(x) /\ NoCircle(x) /\ (Dated(t) => Dated(x))
      /\ (\A i : Owed(x, i) <=> Owed(t, i)) /\ Ways(x) = Ways(t)
  BY <1>1, <1>2, StillKept
<1>7. \A j : Entered(x, j) <=> Entered(t, j)
  BY <1>1 DEF Entered
<1>8. x.st \in {Nothing, Follow(Found)} /\ Found # Nothing /\ Follow(Found) \in MaybeNode
  BY <1>1, <1>2, <1>3, Lookups DEF MaybeNode
<1>9. ASSUME x.descend PROVE Chosen(x) = st /\ disk.kind[st] = "dir"
  <2>1. disk.kind[st] = "dir"
    BY <1>1, <1>9 DEF IsDirectory
  <2>2. CASE disk.kind[Found] = "dir"
    <3>1. Follow(Found) = Found
      BY <2>2 DEF Follow
    <3>2. st = Found
      BY <3>1, <1>8
    <3> QED
      BY <2>1, <2>2, <3>2, <1>1, <1>8 DEF Chosen, IsDirectory
  <2>3. CASE disk.kind[Found] # "dir"
    <3>1. st # Found
      BY <2>1, <2>3
    <3>2. st = x.st
      BY <3>1
    <3> QED
      BY <2>1, <2>3, <3>2, <1>1 DEF Chosen, IsDirectory
  <2> QED
    BY <2>2, <2>3
<1>10. Descendable(x)
  <2>1. SUFFICES ASSUME x.descend
                 PROVE  /\ x.lst = Last(x.path)
                        /\ LeadsTo(x.lst, x.working_dir, Chosen(x))
                        /\ Chosen(x) = Nothing => Gone(x.lst)
                        /\ IsDirectory(x.lst) => x.st \in {Nothing, x.lst}
                        /\ x.lst # Chosen(x) /\ ~Gone(x.lst) =>
                             \A j \in 2..(x.current - 1) : Entered(x, j) => x.stack[j].ino # Chosen(x)
    BY DEF Descendable
  <2>2. Chosen(x) = st /\ disk.kind[st] = "dir"
    BY <2>1, <1>9
  <2>3. x.lst = Last(x.path) /\ Chosen(x) # Nothing
    BY <2>2, <1>1, <1>2, <1>3
  <2>4. IsDirectory(x.lst) => x.st \in {Nothing, x.lst}
    BY <1>1, <1>8 DEF IsDirectory, Follow
  <2>5. st = Found \/ (st = Follow(Found) /\ st \notin Above)
    BY <1>1, <1>8
  <2>6. LeadsTo(x.lst, x.working_dir, Chosen(x))
    <3>1. CASE st = Found
      BY <3>1, <2>2, <1>1, <1>3 DEF LeadsTo
    <3>2. CASE st # Found
      <4>1. st = Follow(Found)
        BY <3>2, <2>5
      <4>2. disk.kind[Found] = "link" /\ disk.to[Found] = st
        BY <3>2, <4>1, <1>1, <1>2 DEF Follow
      <4> QED
        BY <4>2, <2>2, <2>3, <1>1, <1>3 DEF LeadsTo
    <3> QED
      BY <3>1, <3>2
  <2>7. ASSUME x.lst # Chosen(x), NEW j \in 2..(x.current - 1), Entered(x, j)
        PROVE  x.stack[j].ino # Chosen(x)
    <3>1. st \notin Above
      BY <2>2, <2>5, <2>7, <1>1
    <3>2. x.stack[j].ino \in Above
      BY <2>7, <1>1, <1>4, <1>7
    <3> QED
      BY <3>1, <3>2, <2>2
  <2> QED
    BY <2>3, <2>4, <2>6, <2>7
<1>11. ASSUME Untouched(t), entry.fd = Nothing PROVE Remembered(x)
  <2>1. SUFFICES ASSUME x.descend PROVE x.time = Chosen(x) \/ Owed(x, Chosen(x))
    BY DEF Remembered
  <2>2. Chosen(x) = st
    BY <2>1, <1>9
  <2>3. atime[st] = st \/ Owed(t, st)
    BY <1>1, <1>2, <1>11 DEF Untouched
  <2> QED
    BY <2>2, <2>3, <1>1, <1>6
<1> QED
  BY <1>5, <1>6, <1>10, <1>11 DEF x

-----------------------------------------------------------------------------
(* The invariant, action by action.                                        *)

(* A call that is under way.                                               *)
LEMMA UnderWay ==
  ASSUME IInv, a.pc # "out"
  PROVE  /\ Alive /\ Walking /\ a.state \in {"header", "data"} /\ t # Closed
         /\ entry = NoFile /\ entry.fd = Nothing /\ ~t.descend
         /\ t.working_dir \in Nodes /\ Cardinality(Ways(t)) \in Nat
         /\ fds = 2 + (IF t.d.on THEN 1 ELSE 0) + Cardinality(Ways(t))
<1>1. Alive /\ a.state \in {"header", "data"} /\ t # Closed
  BY DEF IInv, Held, Alive, Types, CallType
<1>2. Walking /\ ~t.descend
  BY <1>1 DEF IInv, Walking, Visiting
<1>3. entry = NoFile /\ entry.fd = Nothing
  BY DEF IInv, Described, NoFile
<1>4. t.working_dir \in Nodes
  BY <1>1 DEF IInv, Held, Types, TreeType, MaybeNode
<1>5. Ways(t) \subseteq 1..Len(t.stack)
  BY DEF Ways
<1>6. Cardinality(Ways(t)) \in Nat
  BY <1>5, FiniteStack DEF IInv, Types
<1>7. fds = Descriptors + 0
  BY <1>1, <1>3 DEF IInv, Held
<1>8. Descriptors = 2 + (IF t.d.on THEN 1 ELSE 0) + Cardinality(Ways(t))
  BY DEF Descriptors, Ways
<1>9. fds = 2 + (IF t.d.on THEN 1 ELSE 0) + Cardinality(Ways(t))
  BY <1>6, <1>7, <1>8
<1> QED
  BY <1>1, <1>2, <1>3, <1>4, <1>6, <1>9

(* It goes on, with the disk as it is and no file open.                    *)
LEMMA GoesOn ==
  ASSUME IInv, a.pc # "out", disk' = disk, changed' = changed, entry' = entry,
         t' \in TreeType, a' \in CallType, atime' \in [Nodes -> MaybeNode],
         t'.working_dir # Nothing, ~t'.descend, t'.restore = t.restore,
         Cardinality(Ways(t')) \in Nat,
         fds' = 2 + (IF t'.d.on THEN 1 ELSE 0) + Cardinality(Ways(t')),
         \/ a'.state \in {"header", "data"}
         \/ a'.state = "eof" /\ a'.pc = "out" /\ t'.stack = <<>>,
         Shape(t'), Placed(t'), NoCircle(t'), Visiting(t', a'.pc),
         t.restore => Dated(t') /\ \A n \in Nodes : atime'[n] = n \/ Owed(t', n)
  PROVE  IInv'
<1>1. entry = NoFile /\ entry.fd = Nothing /\ entry.size = 0 /\ entry.eof /\ IInv
  BY UnderWay DEF NoFile
<1>2. fds' \in Int
  OBVIOUS
<1>3. Types'
  BY <1>2 DEF IInv, Types
<1>4. t' # Closed
  BY DEF Closed
<1>5. Held'
  <2>1. Descriptors' = 2 + (IF t'.d.on THEN 1 ELSE 0) + Cardinality(Ways(t'))
    BY DEF Descriptors, Ways
  <2>2. fds' = Descriptors' + (IF entry'.fd # Nothing THEN 1 ELSE 0)
    BY <2>1, <1>1
  <2> QED
    BY <2>2, <1>4 DEF Held
<1>6. Described(t)' /\ Sound(entry)'
  BY <1>1 DEF Described, Sound
<1>7. FollowedTwice'
  BY NoThirdTime DEF FollowedTwice
<1>8. Housed(disk)'
  BY DEF IInv, Housed
<1>9. Shape(t)' /\ Placed(t)' /\ NoCircle(t)' /\ Visiting(t, a.pc)'
  BY DEF Placed, NoCircle, Visiting, LeadsTo, Gone
<1>10. Descendable(t)' /\ Remembered(t)'
  BY DEF Descendable, Remembered
<1>11. t'.restore => Timed(t)'
  BY <1>1, <1>10 DEF Timed, Untouched
<1> QED
  BY <1>3, <1>5, <1>6, <1>7, <1>8, <1>9, <1>10, <1>11 DEF IInv, Walking

(* What is not a visit needs the stream only.                              *)
LEMMA NoVisit ==
  ASSUME NEW w \in TreeType, NEW pc, pc # "visit", ~w.descend,
         w.d.on => \A n \in w.d.left : disk.up[n] = w.working_dir /\ (disk.kind[n] # "none" \/ Gone(n))
  PROVE  Visiting(w, pc)
  BY DEF Visiting, Open

LEMMA GoesStep ==
  ASSUME a \in CallType
  PROVE  /\ Goes("regular") => a' \in CallType /\ a'.pc = "visit" /\ a'.state = a.state
         /\ Goes("error") => a' \in CallType /\ a'.pc = "out" /\ a'.state = a.state
         /\ Goes("fatal") => a' \in CallType /\ a'.pc = "out" /\ a'.state = "fatal"
         /\ Goes("more") \/ Goes("postdescent") \/ Goes("postascent") => a' = a
         /\ \A visit : Goes(visit) =>
              disk' = disk /\ entry' = entry /\ changed' = changed /\ seen' = seen /\ again' = again
<1>1. Goes("regular") => a' \in CallType /\ a'.pc = "visit" /\ a'.state = a.state
  BY DEF Goes, CallType
<1>2. Goes("error") => a' \in CallType /\ a'.pc = "out" /\ a'.state = a.state
  BY DEF Goes, CallType
<1>3. Goes("fatal") => a' \in CallType /\ a'.pc = "out" /\ a'.state = "fatal"
  BY DEF Goes, CallType
<1>4. Goes("more") \/ Goes("postdescent") \/ Goes("postascent") => a' = a
  BY DEF Goes
<1>5. \A visit : Goes(visit) =>
        disk' = disk /\ entry' = entry /\ changed' = changed /\ seen' = seen /\ again' = again
  BY DEF Goes
<1> QED
  BY <1>1, <1>2, <1>3, <1>4, <1>5

(* A change of what the top of the stack needs only.                       *)
LEMMA TopBelow ==
  ASSUME NEW w \in TreeType, NEW x \in TreeType, Len(w.stack) >= 1, NEW what, what # "descent",
         Len(x.stack) = Len(w.stack), \A k \in 1..(Len(w.stack) - 1) : x.stack[k] = w.stack[k],
         x.stack[Len(w.stack)] = [w.stack[Len(w.stack)] EXCEPT !.needs = @ \ {what}]
  PROVE  /\ Below(x, w) /\ Ways(x) = Ways(w) /\ \A i : Owed(w, i) => Owed(x, i)
<1> DEFINE n == Len(w.stack)
<1>1. n \in Nat /\ w.stack[n] \in EntryType
  BY Entries
<1> HIDE DEF n
<1>2. /\ x.stack[n].name = w.stack[n].name /\ x.stack[n].parent = w.stack[n].parent
      /\ x.stack[n].ino = w.stack[n].ino /\ x.stack[n].link = w.stack[n].link
      /\ x.stack[n].time = w.stack[n].time
      /\ x.stack[n].symlink_parent = w.stack[n].symlink_parent
      /\ x.stack[n].needs = w.stack[n].needs \ {what}
  BY <1>1 DEF EntryType, n
<1>3. \A k \in 1..n : k = n \/ k \in 1..(n - 1)
  BY <1>1
<1>4. \A k \in 1..n : Entered(x, k) <=> Entered(w, k)
  BY <1>2, <1>3 DEF Entered, n
<1>5. ASSUME NEW k \in 1..n
      PROVE  /\ x.stack[k].name = w.stack[k].name /\ x.stack[k].parent = w.stack[k].parent
             /\ x.stack[k].ino = w.stack[k].ino /\ x.stack[k].link = w.stack[k].link
             /\ x.stack[k].time = w.stack[k].time
             /\ x.stack[k].symlink_parent = w.stack[k].symlink_parent
  BY <1>2, <1>3 DEF n
<1>6. Below(x, w)
  BY <1>1, <1>4, <1>5 DEF Below, n
<1>7. Ways(x) = Ways(w)
  BY <1>5 DEF Ways, n
<1>8. ASSUME NEW i, Owed(w, i) PROVE Owed(x, i)
  <2>1. \A k \in 2..n : k \in 1..n
    BY <1>1
  <2> QED
    BY <2>1, <1>4, <1>5, <1>8 DEF Owed, n
<1> QED
  BY <1>6, <1>7, <1>8

LEMMA FirstVisitKept ==
  ASSUME IInv, a.pc = "next", FirstVisit, Goes("regular")
  PROVE  IInv'
<1>1. Alive /\ Walking /\ t # Closed /\ entry = NoFile /\ entry.fd = Nothing /\ ~t.descend
      /\ t.working_dir \in Nodes /\ Cardinality(Ways(t)) \in Nat /\ a.state \in {"header", "data"}
      /\ fds = 2 + (IF t.d.on THEN 1 ELSE 0) + Cardinality(Ways(t))
  BY UnderWay
<1>2. Types /\ t \in TreeType /\ a \in CallType /\ Shape(t) /\ t.dirname_length <= Len(t.path)
      /\ atime \in [Nodes -> MaybeNode] /\ Nothing \notin Nodes
  BY <1>1, Lookups DEF IInv, Types, Walking, Shape, Current
<1>3. Shape(t') /\ Len(t'.stack) = 1 /\ t'.current = 1 /\ t'.dirname_length = 0 /\ Len(t.stack) = 1
  BY <1>2, FirstVisitShape
<1>4. /\ t' \in TreeType /\ ~t.d.on
      /\ t'.d = t.d /\ t'.visit = "regular" /\ t'.working_dir = t.working_dir
      /\ t'.descend = t.descend /\ t'.restore = t.restore
      /\ Len(t'.stack) = Len(t.stack)
      /\ \A k \in 1..(Len(t.stack) - 1) : t'.stack[k] = t.stack[k]
      /\ t'.stack[Len(t.stack)] = [t.stack[Len(t.stack)] EXCEPT !.needs = @ \ {"visit"}]
      /\ Len(t'.path) = t'.dirname_length + 1
  BY <1>2, FirstVisitStep
<1>5. Below(t', t) /\ Ways(t') = Ways(t) /\ \A i : Owed(t, i) => Owed(t', i)
  <2>1. Len(t.stack) >= 1 /\ "visit" # "descent"
    BY <1>3
  <2> QED
    BY <2>1, <1>2, <1>4, TopBelow
<1>6. Placed(t') /\ NoCircle(t') /\ (t.restore => Dated(t'))
  BY <1>1, <1>2, <1>4, <1>5, BelowKept DEF Walking, Timed
<1>7. atime' = atime /\ fds' = fds
  BY DEF FirstVisit
<1>8. t.restore => \A n \in Nodes : atime'[n] = n \/ Owed(t', n)
  BY <1>1, <1>2, <1>5, <1>7 DEF Walking, Timed, Untouched
<1>9. a' \in CallType /\ a'.pc = "visit" /\ a'.state = a.state
      /\ disk' = disk /\ entry' = entry /\ changed' = changed
  BY <1>2, GoesStep
<1>10. Visiting(t', a'.pc)
  BY <1>1, <1>3, <1>4, <1>9 DEF Visiting, Open
<1>11. t'.working_dir # Nothing /\ ~t'.descend /\ Cardinality(Ways(t')) \in Nat
       /\ fds' = 2 + (IF t'.d.on THEN 1 ELSE 0) + Cardinality(Ways(t'))
  BY <1>1, <1>2, <1>4, <1>5, <1>7
<1> QED
  BY <1>2, <1>3, <1>4, <1>6, <1>7, <1>8, <1>9, <1>10, <1>11, <1>1, GoesOn

LEMMA OpenStreamKept ==
  ASSUME IInv, a.pc = "next", OpenStream, Goes("more")
  PROVE  IInv'
<1>1. Alive /\ Walking /\ t # Closed /\ entry = NoFile /\ entry.fd = Nothing /\ ~t.descend
      /\ t.working_dir \in Nodes /\ Cardinality(Ways(t)) \in Nat /\ a.state \in {"header", "data"}
      /\ fds = 2 + (IF t.d.on THEN 1 ELSE 0) + Cardinality(Ways(t))
  BY UnderWay
<1>2. Types /\ t \in TreeType /\ a \in CallType /\ Shape(t) /\ t.dirname_length <= Len(t.path)
      /\ atime \in [Nodes -> MaybeNode] /\ Nothing \notin Nodes
  BY <1>1, Lookups DEF IInv, Types, Walking, Shape, Current
<1>3. Shape(t')
  BY <1>2, OpenStreamShape
<1>a. Len(t.stack) >= 1
  <2>1. t.stack # <<>>
    BY DEF OpenStream, Needs
  <2> QED
    BY <2>1, <1>2 DEF TreeType
<1>4. /\ t' \in TreeType /\ ~t.d.on
      /\ t'.d.on /\ t'.d.left = Names(t.working_dir) /\ t'.visit = t.visit
      /\ t'.working_dir = t.working_dir
      /\ t'.descend = t.descend /\ t'.restore = t.restore
      /\ Len(t'.stack) = Len(t.stack)
      /\ \A k \in 1..(Len(t.stack) - 1) : t'.stack[k] = t.stack[k]
      /\ t'.stack[Len(t.stack)] = [t.stack[Len(t.stack)] EXCEPT !.needs = @ \ {"open"}]
  BY <1>2, <1>a, OpenStreamStep
<1>5. Below(t', t) /\ Ways(t') = Ways(t) /\ \A i : Owed(t, i) => Owed(t', i)
  <2>1. "open" # "descent"
    OBVIOUS
  <2> QED
    BY <2>1, <1>a, <1>2, <1>4, TopBelow
<1>6. Placed(t') /\ NoCircle(t') /\ (t.restore => Dated(t'))
  BY <1>1, <1>2, <1>4, <1>5, BelowKept DEF Walking, Timed
<1>7. atime' = atime /\ fds' = fds + 1
  BY DEF OpenStream
<1>8. t.restore => \A n \in Nodes : atime'[n] = n \/ Owed(t', n)
  BY <1>1, <1>2, <1>5, <1>7 DEF Walking, Timed, Untouched
<1>9. a' = a /\ disk' = disk /\ entry' = entry /\ changed' = changed
  BY <1>2, GoesStep
<1>10. Visiting(t', a'.pc)
  BY <1>1, <1>2, <1>4, <1>9, NoVisit DEF Names
<1>11. t'.working_dir # Nothing /\ ~t'.descend /\ Cardinality(Ways(t')) \in Nat
       /\ fds' = 2 + (IF t'.d.on THEN 1 ELSE 0) + Cardinality(Ways(t'))
  BY <1>1, <1>2, <1>4, <1>5, <1>7
<1> QED
  BY <1>2, <1>3, <1>4, <1>6, <1>7, <1>8, <1>9, <1>10, <1>11, <1>1, GoesOn

LEMMA DescentKept ==
  ASSUME IInv, a.pc = "next", Descent, Goes("postdescent")
  PROVE  IInv'
<1>1. Alive /\ Walking /\ t # Closed /\ entry = NoFile /\ entry.fd = Nothing /\ ~t.descend
      /\ t.working_dir \in Nodes /\ Cardinality(Ways(t)) \in Nat /\ a.state \in {"header", "data"}
      /\ fds = 2 + (IF t.d.on THEN 1 ELSE 0) + Cardinality(Ways(t))
  BY UnderWay
<1>2. Types /\ t \in TreeType /\ a \in CallType /\ Shape(t) /\ t.dirname_length <= Len(t.path)
      /\ atime \in [Nodes -> MaybeNode] /\ Nothing \notin Nodes /\ disk \in DiskType
      /\ Placed(t) /\ NoCircle(t)
  BY <1>1, Lookups DEF IInv, Types, Walking, Shape, Current
<1> DEFINE n == Len(t.stack)
<1>3. Shape(t')
  BY <1>1, <1>2, DescentShape
<1>4. /\ t' \in TreeType /\ n >= 1 /\ ~t.d.on /\ "descent" \in t.stack[n].needs
      /\ t'.d = t.d /\ t'.descend = t.descend /\ t'.restore = t.restore /\ t'.working_dir \in Nodes
      /\ Len(t'.stack) = n /\ \A k \in 1..(n - 1) : t'.stack[k] = t.stack[k]
      /\ t'.stack[n] = [t.stack[n] EXCEPT !.needs = @ \ {"descent"},
                             !.symlink_parent = IF t.stack[n].link THEN t.working_dir ELSE @]
  BY <1>1, <1>2, DescentStep
<1>5. Placed(t') /\ NoCircle(t') /\ (Dated(t) => Dated(t'))
      /\ \A i \in Nodes : Owed(t, i) => Owed(t', i)
  BY <1>1, <1>2, DescentPlaced
<1>6. atime' = atime /\ fds' = IF t.stack[n].link THEN fds + 1 ELSE fds
  BY DEF Descent, KeepsParent, TopEntry, Last
<1>7. n \in Nat /\ t.stack[n] \in EntryType /\ t.stack[n].symlink_parent = Nothing
  <2>1. n \in Nat /\ t.stack[n] \in EntryType
    BY <1>2, <1>4, Entries
  <2>2. n >= 2 /\ ~Entered(t, n)
    BY <1>2, <1>4, TopFacts
  <2>3. n \in 2..n
    BY <2>1, <2>2
  <2>4. Linked(t, n)
    BY <2>3, <1>2 DEF Shape
  <2> QED
    BY <2>1, <2>2, <2>4 DEF Linked
<1>8. Cardinality(Ways(t')) = Cardinality(Ways(t)) + (IF t.stack[n].link THEN 1 ELSE 0)
  <2>1. t'.stack[n].symlink_parent = IF t.stack[n].link THEN t.working_dir ELSE Nothing
    BY <1>4, <1>7 DEF EntryType
  <2> HIDE DEF n
  <2>2. \A k \in 1..n : k = n \/ k \in 1..(n - 1)
    BY <1>7
  <2>3. \A k \in 1..(n - 1) : t'.stack[k].symlink_parent = t.stack[k].symlink_parent
    BY <1>4
  <2>4. CASE t.stack[n].link
    <3>1. t'.stack[n].symlink_parent # Nothing
      BY <2>1, <2>4, <1>1, <1>2
    <3>2. Cardinality(Ways(t')) = Cardinality(Ways(t)) + 1
      BY <3>1, <2>3, <1>2, <1>4, <1>7, WaysMore DEF n
    <3> QED
      BY <3>2, <2>4
  <2>5. CASE ~t.stack[n].link
    <3>1. \A k \in 1..n : t'.stack[k].symlink_parent = t.stack[k].symlink_parent
      BY <2>1, <2>2, <2>3, <2>5, <1>7
    <3>2. Ways(t') = Ways(t)
      BY <3>1, <1>4 DEF Ways, n
    <3> QED
      BY <3>2, <2>5, <1>1
  <2> QED
    BY <2>4, <2>5
<1>9. t.restore => Dated(t') /\ \A i \in Nodes : atime'[i] = i \/ Owed(t', i)
  BY <1>1, <1>2, <1>5, <1>6 DEF Walking, Timed, Untouched
<1>10. a' = a /\ disk' = disk /\ entry' = entry /\ changed' = changed
  BY <1>2, GoesStep
<1>11. Visiting(t', a'.pc)
  BY <1>1, <1>2, <1>4, <1>10, NoVisit
<1> HIDE DEF n
<1>12. t'.working_dir # Nothing /\ ~t'.descend /\ Cardinality(Ways(t')) \in Nat
       /\ fds' = 2 + (IF t'.d.on THEN 1 ELSE 0) + Cardinality(Ways(t'))
  BY <1>1, <1>2, <1>4, <1>6, <1>8
<1> QED
  BY <1>1, <1>2, <1>3, <1>4, <1>5, <1>6, <1>9, <1>10, <1>11, <1>12, GoesOn

(* The top of the stack goes.                                              *)
LEMMA PopBelow ==
  ASSUME NEW w \in TreeType, NEW x \in TreeType, Len(w.stack) >= 1,
         Len(x.stack) = Len(w.stack) - 1, \A k \in 1..(Len(w.stack) - 1) : x.stack[k] = w.stack[k]
  PROVE  LET n == Len(w.stack) IN
         /\ Below(x, w)
         /\ \A i : Owed(w, i) => Owed(x, i) \/ (n >= 2 /\ Entered(w, n) /\ w.stack[n].ino = i)
         /\ w.stack[n].symlink_parent = Nothing => Ways(x) = Ways(w)
         /\ w.stack[n].symlink_parent # Nothing =>
              Cardinality(Ways(x)) = Cardinality(Ways(w)) - 1
         /\ Cardinality(Ways(x)) \in Nat
<1> DEFINE n == Len(w.stack)
           m == Len(x.stack)
<1>1. n \in Nat /\ m \in Nat /\ m = n - 1 /\ n >= 1
  BY Entries
<1>2. \A k \in 1..m : x.stack[k] = w.stack[k]
  OBVIOUS
<1> HIDE DEF n, m
<1>3. \A k \in 1..m : Entered(x, k) <=> Entered(w, k)
  BY <1>2 DEF Entered
<1>4. Below(x, w)
  BY <1>1, <1>2, <1>3 DEF Below, n, m
<1>5. ASSUME NEW i, Owed(w, i) PROVE Owed(x, i) \/ (n >= 2 /\ Entered(w, n) /\ w.stack[n].ino = i)
  <2>1. PICK k \in 2..n : Entered(w, k) /\ w.stack[k].ino = i
    BY <1>5 DEF Owed, n
  <2>2. CASE k = n
    BY <2>1, <2>2, <1>1
  <2>3. CASE k # n
    <3>1. k \in 2..m /\ k \in 1..m
      BY <2>3, <1>1
    <3> QED
      BY <3>1, <2>1, <1>2, <1>3 DEF Owed, m
  <2> QED
    BY <2>2, <2>3
<1>6. w.stack[n].symlink_parent = Nothing => Ways(x) = Ways(w)
  <2>1. \A k \in 1..n : k <= m => x.stack[k].symlink_parent = w.stack[k].symlink_parent
    <3>1. ASSUME NEW k \in 1..n, k <= m
          PROVE  x.stack[k].symlink_parent = w.stack[k].symlink_parent
      <4>1. k \in 1..m
        BY <3>1, <1>1
      <4> QED
        BY <4>1, <1>2
    <3> QED
      BY <3>1
  <2>2. SUFFICES ASSUME w.stack[n].symlink_parent = Nothing PROVE Ways(x) = Ways(w)
    OBVIOUS
  <2> QED
    BY <2>1, <2>2, <1>1, WaysSame DEF n, m
<1>7. w.stack[n].symlink_parent # Nothing => Cardinality(Ways(x)) = Cardinality(Ways(w)) - 1
  BY <1>1, <1>2, WaysLess DEF n, m
<1>8. Ways(x) \subseteq 1..Len(x.stack)
  BY DEF Ways
<1>9. Cardinality(Ways(x)) \in Nat
  BY <1>8, FiniteStack
<1> QED
  BY <1>4, <1>5, <1>6, <1>7, <1>9 DEF n

LEMMA DescentFailsKept ==
  ASSUME IInv, a.pc = "next", DescentFails, Goes("error")
  PROVE  IInv'
<1>1. Alive /\ Walking /\ t # Closed /\ entry = NoFile /\ entry.fd = Nothing /\ ~t.descend
      /\ t.working_dir \in Nodes /\ Cardinality(Ways(t)) \in Nat /\ a.state \in {"header", "data"}
      /\ fds = 2 + (IF t.d.on THEN 1 ELSE 0) + Cardinality(Ways(t))
  BY UnderWay
<1>2. Types /\ t \in TreeType /\ a \in CallType /\ Shape(t) /\ t.dirname_length <= Len(t.path)
      /\ atime \in [Nodes -> MaybeNode] /\ Nothing \notin Nodes /\ Placed(t) /\ NoCircle(t)
  BY <1>1, Lookups DEF IInv, Types, Walking, Shape, Current
<1> DEFINE n == Len(t.stack)
<1>3. Shape(t')
  BY <1>2, DescentFailsShape
<1>4. /\ t' \in TreeType /\ n >= 1 /\ ~t.d.on /\ "descent" \in t.stack[n].needs
      /\ t'.d = t.d /\ t'.descend = t.descend /\ t'.restore = t.restore
      /\ t'.working_dir = t.working_dir
      /\ Len(t'.stack) = n - 1 /\ \A k \in 1..(n - 1) : t'.stack[k] = t.stack[k]
  BY <1>2, DescentFailsStep
<1>5. ~Entered(t, n) /\ t.stack[n].symlink_parent = Nothing
  <2>1. n \in Nat
    BY <1>2, Entries
  <2>2. n >= 2 /\ ~Entered(t, n)
    BY <1>2, <1>4, TopFacts
  <2>3. n \in 2..n
    BY <2>1, <2>2
  <2>4. Linked(t, n)
    BY <2>3, <1>2 DEF Shape
  <2> QED
    BY <2>2, <2>4 DEF Linked
<1>6. Below(t', t) /\ (\A i : Owed(t, i) => Owed(t', i)) /\ Ways(t') = Ways(t)
  BY <1>2, <1>4, <1>5, PopBelow
<1>7. Placed(t') /\ NoCircle(t') /\ (Dated(t) => Dated(t'))
  BY <1>2, <1>4, <1>6, BelowKept
<1>8. atime' = atime /\ fds' = fds
  BY DEF DescentFails
<1>9. t.restore => Dated(t') /\ \A i \in Nodes : atime'[i] = i \/ Owed(t', i)
  BY <1>1, <1>2, <1>6, <1>7, <1>8 DEF Walking, Timed, Untouched
<1>10. a' \in CallType /\ a'.pc = "out" /\ a'.state = a.state
       /\ disk' = disk /\ entry' = entry /\ changed' = changed
  BY <1>2, GoesStep
<1>11. Visiting(t', a'.pc)
  BY <1>1, <1>2, <1>4, <1>10, NoVisit
<1>12. t'.working_dir # Nothing /\ ~t'.descend /\ Cardinality(Ways(t')) \in Nat
       /\ fds' = 2 + (IF t'.d.on THEN 1 ELSE 0) + Cardinality(Ways(t'))
  BY <1>1, <1>2, <1>4, <1>6, <1>8
<1> QED
  BY <1>1, <1>2, <1>3, <1>4, <1>7, <1>8, <1>9, <1>10, <1>11, <1>12, GoesOn

LEMMA DeadKept ==
  ASSUME IInv, a.pc = "next", Dead, Goes("more")
  PROVE  IInv'
<1>1. Alive /\ Walking /\ t # Closed /\ entry = NoFile /\ entry.fd = Nothing /\ ~t.descend
      /\ t.working_dir \in Nodes /\ Cardinality(Ways(t)) \in Nat /\ a.state \in {"header", "data"}
      /\ fds = 2 + (IF t.d.on THEN 1 ELSE 0) + Cardinality(Ways(t))
  BY UnderWay
<1>2. Types /\ t \in TreeType /\ a \in CallType /\ Shape(t) /\ t.dirname_length <= Len(t.path)
      /\ atime \in [Nodes -> MaybeNode] /\ Nothing \notin Nodes /\ Placed(t) /\ NoCircle(t)
      /\ Bottom(t)
  BY <1>1, Lookups DEF IInv, Types, Walking, Shape, Current
<1> DEFINE n == Len(t.stack)
<1>3. Shape(t')
  BY <1>2, DeadShape
<1>4. /\ t' \in TreeType /\ n >= 1 /\ ~t.d.on /\ t.stack[n].needs = {}
      /\ t'.d = t.d /\ t'.descend = t.descend /\ t'.restore = t.restore
      /\ t'.working_dir = t.working_dir
      /\ Len(t'.stack) = n - 1 /\ \A k \in 1..(n - 1) : t'.stack[k] = t.stack[k]
  BY <1>2, DeadStep
<1>5. n = 1 /\ t.stack[n].symlink_parent = Nothing
  <2>1. n = 1
    BY <1>2, <1>4, TopFacts
  <2> QED
    BY <2>1, <1>2 DEF Bottom
<1>6. Below(t', t) /\ (\A i : Owed(t, i) => Owed(t', i)) /\ Ways(t') = Ways(t)
  BY <1>2, <1>4, <1>5, PopBelow
<1>7. Placed(t') /\ NoCircle(t') /\ (Dated(t) => Dated(t'))
  BY <1>2, <1>4, <1>6, BelowKept
<1>8. atime' = atime /\ fds' = fds
  BY DEF Dead
<1>9. t.restore => Dated(t') /\ \A i \in Nodes : atime'[i] = i \/ Owed(t', i)
  BY <1>1, <1>2, <1>6, <1>7, <1>8 DEF Walking, Timed, Untouched
<1>10. a' = a /\ disk' = disk /\ entry' = entry /\ changed' = changed
  BY <1>2, GoesStep
<1>11. Visiting(t', a'.pc)
  BY <1>1, <1>2, <1>4, <1>10, NoVisit
<1>12. t'.working_dir # Nothing /\ ~t'.descend /\ Cardinality(Ways(t')) \in Nat
       /\ fds' = 2 + (IF t'.d.on THEN 1 ELSE 0) + Cardinality(Ways(t'))
  BY <1>1, <1>2, <1>4, <1>6, <1>8
<1> QED
  BY <1>1, <1>2, <1>3, <1>4, <1>7, <1>8, <1>9, <1>10, <1>11, <1>12, GoesOn

(* The directory that is read is on the stack, and entered.                *)
LEMMA WorksThere ==
  ASSUME t \in TreeType, Shape(t), t.d.on
  PROVE  Owed(t, t.working_dir)
<1>1. t.current \in Nat /\ Len(t.stack) \in Nat
  BY DEF TreeType
<1>2. t.current >= 2 /\ t.stack[t.current].needs = {"ascent"} /\ t.working_dir = Dir(t, t.current)
  BY DEF Shape, Current
<1>3. t.current <= Len(t.stack)
  <2>1. Len(t.stack) >= 1
    BY <1>1, <1>2 DEF Shape, Current
  <2> QED
    BY <2>1, <1>1, <1>2 DEF Shape, Current
<1>4. t.current \in 2..Len(t.stack) /\ t.current > 1
  BY <1>1, <1>2, <1>3
<1>5. t.working_dir = t.stack[t.current].ino /\ Entered(t, t.current)
  BY <1>2, <1>4 DEF Dir, Entered
<1> QED
  BY <1>4, <1>5 DEF Owed

(* The way back from the top of the stack, found or not: the directory is  *)
(* left, its time put back.                                                *)
LEMMA AscendedKept ==
  ASSUME IInv, a.pc = "next", ~t.d.on, Len(t.stack) >= 2, Entered(t, Len(t.stack)),
         t.current = Len(t.stack),
         NEW visit \in {"error", "postascent"}, Ascended(visit), Goes(visit)
  PROVE  IInv'
<1>1. Alive /\ Walking /\ t # Closed /\ entry = NoFile /\ entry.fd = Nothing /\ ~t.descend
      /\ t.working_dir \in Nodes /\ Cardinality(Ways(t)) \in Nat /\ a.state \in {"header", "data"}
      /\ fds = 2 + (IF t.d.on THEN 1 ELSE 0) + Cardinality(Ways(t))
  BY UnderWay
<1>2. Types /\ t \in TreeType /\ a \in CallType /\ Shape(t) /\ t.dirname_length <= Len(t.path)
      /\ atime \in [Nodes -> MaybeNode] /\ Nothing \notin Nodes /\ Placed(t) /\ NoCircle(t)
      /\ disk \in DiskType
  BY <1>1, Lookups DEF IInv, Types, Walking, Shape, Current
<1> DEFINE n == Len(t.stack)
<1>3. Shape(t') /\ t'.working_dir \in Nodes
  BY <1>1, <1>2, AscendedShape DEF IInv
<1>a. n \in Nat /\ n >= 1 /\ n \in 2..n /\ n # 1 /\ t.stack[n] \in EntryType
  BY <1>2, Entries
<1>4. /\ t' \in TreeType
      /\ t'.working_dir = IF t.stack[n].link THEN t.stack[n].symlink_parent
                          ELSE Up(t.working_dir)
      /\ t'.d = t.d /\ t'.descend = t.descend /\ t'.restore = t.restore
      /\ Len(t'.stack) = n - 1 /\ \A k \in 1..(n - 1) : t'.stack[k] = t.stack[k]
  BY <1>1, <1>2, <1>a, AscendedStep
<1>5. t.stack[n].symlink_parent # Nothing <=> t.stack[n].link
  <2>1. Linked(t, n)
    BY <1>a, <1>2 DEF Shape
  <2>2. CASE t.stack[n].link
    BY <2>2, <1>2, <1>3, <1>4
  <2>3. CASE ~t.stack[n].link
    BY <2>1, <2>3 DEF Linked
  <2> QED
    BY <2>2, <2>3
<1>6. t.working_dir = t.stack[n].ino
  <2>1. t.working_dir = Dir(t, n)
    BY <1>2 DEF Shape, Current
  <2> QED
    BY <2>1, <1>a DEF Dir
<1>7. /\ Below(t', t)
      /\ \A i : Owed(t, i) => Owed(t', i) \/ t.working_dir = i
      /\ t.stack[n].link => Cardinality(Ways(t')) = Cardinality(Ways(t)) - 1
      /\ ~t.stack[n].link => Ways(t') = Ways(t)
      /\ Cardinality(Ways(t')) \in Nat
  BY <1>2, <1>4, <1>5, <1>6, <1>a, PopBelow
<1>8. Placed(t') /\ NoCircle(t') /\ (Dated(t) => Dated(t'))
  BY <1>2, <1>4, <1>7, BelowKept
<1>9. atime' = Restored(t.working_dir, t.stack[n].time)
      /\ fds' = IF t.stack[n].link THEN fds - 1 ELSE fds
  BY DEF Ascended, TopEntry, Last
<1>10. atime' \in [Nodes -> MaybeNode]
  <2>1. t.stack[n].time \in MaybeNode
    BY <1>a DEF EntryType
  <2> QED
    BY <2>1, <1>9, <1>2 DEF Restored
<1>11. t.restore => Dated(t') /\ \A i \in Nodes : atime'[i] = i \/ Owed(t', i)
  <2>1. SUFFICES ASSUME t.restore PROVE Dated(t') /\ \A i \in Nodes : atime'[i] = i \/ Owed(t', i)
    OBVIOUS
  <2>2. Dated(t) /\ Untouched(t)
    BY <2>1, <1>1 DEF Walking, Timed
  <2>3. atime' = [atime EXCEPT ![t.working_dir] = t.stack[n].time]
    BY <2>1, <1>9 DEF Restored
  <2>4. ASSUME NEW i \in Nodes PROVE atime'[i] = i \/ Owed(t', i)
    <3>1. CASE i # t.working_dir
      <4>1. atime'[i] = atime[i]
        BY <2>3, <3>1, <1>2
      <4>2. atime[i] = i \/ Owed(t, i)
        BY <2>2, <1>1, <1>2 DEF Untouched
      <4> QED
        BY <4>1, <4>2, <3>1, <1>7
    <3>2. CASE i = t.working_dir
      <4>1. atime'[i] = t.stack[n].time
        BY <2>3, <3>2, <1>2
      <4>2. t.stack[n].ino = i /\ i # Nothing
        BY <3>2, <1>6, <1>2
      <4>3. t.stack[n].time = i \/ \E j \in 2..(n - 1) : Entered(t, j) /\ t.stack[j].ino = i
        BY <2>2, <1>a, <4>2 DEF Dated
      <4>4. ASSUME NEW j \in 2..(n - 1), Entered(t, j), t.stack[j].ino = i PROVE Owed(t', i)
        <5>1. j \in 1..(n - 1) /\ j \in 2..Len(t'.stack)
          BY <1>4
        <5>2. t'.stack[j] = t.stack[j]
          BY <5>1, <1>4
        <5> QED
          BY <5>1, <5>2, <4>4 DEF Owed, Entered
      <4> QED
        BY <4>1, <4>3, <4>4
    <3> QED
      BY <3>1, <3>2
  <2> QED
    BY <2>2, <2>4, <1>8
<1>12. a' \in CallType /\ a'.pc # "visit" /\ a'.state = a.state
       /\ disk' = disk /\ entry' = entry /\ changed' = changed
  <2>1. Goes("error") \/ Goes("postascent")
    OBVIOUS
  <2> QED
    BY <2>1, <1>2, GoesStep
<1>13. Visiting(t', a'.pc)
  BY <1>1, <1>2, <1>4, <1>12, NoVisit
<1> HIDE DEF n
<1>14. t'.working_dir # Nothing /\ ~t'.descend
       /\ fds' = 2 + (IF t'.d.on THEN 1 ELSE 0) + Cardinality(Ways(t'))
  BY <1>1, <1>2, <1>3, <1>4, <1>7, <1>9
<1> QED
  BY <1>1, <1>2, <1>3, <1>4, <1>7, <1>8, <1>10, <1>11, <1>12, <1>13, <1>14, GoesOn

(* A name is read from the directory that is open.                         *)
LEMMA ReadDirectoryKept ==
  ASSUME IInv, a.pc = "next", NEW m \in Nodes, ReadDirectory(m), Goes("regular")
  PROVE  IInv'
<1>1. Alive /\ Walking /\ t # Closed /\ entry = NoFile /\ entry.fd = Nothing /\ ~t.descend
      /\ t.working_dir \in Nodes /\ Cardinality(Ways(t)) \in Nat /\ a.state \in {"header", "data"}
      /\ fds = 2 + (IF t.d.on THEN 1 ELSE 0) + Cardinality(Ways(t))
  BY UnderWay
<1>2. Types /\ t \in TreeType /\ a \in CallType /\ Shape(t) /\ t.dirname_length <= Len(t.path)
      /\ atime \in [Nodes -> MaybeNode] /\ Nothing \notin Nodes /\ Placed(t) /\ NoCircle(t)
      /\ Visiting(t, a.pc)
  BY <1>1, Lookups DEF IInv, Types, Walking, Shape, Current
<1>4. /\ t' \in TreeType /\ t.d.on /\ m \in t.d.left
      /\ t'.d.on /\ t'.d.left = t.d.left \ {m} /\ t'.visit = "regular"
      /\ t'.working_dir = t.working_dir
      /\ t'.descend = t.descend /\ t'.restore = t.restore
      /\ t'.stack = t.stack /\ t'.current = t.current /\ t'.dirname_length = t.dirname_length
      /\ Len(t'.path) = t.dirname_length + 1 /\ t'.path[t.dirname_length + 1] = m
      /\ \A i \in 1..t.dirname_length : t'.path[i] = t.path[i]
  BY <1>2, ReadStep
<1>5. t.dirname_length \in Nat
  BY <1>2 DEF TreeType
<1>6. Shape(t')
  <2>1. t'.dirname_length <= Len(t'.path)
    BY <1>4, <1>5
  <2> QED
    BY <2>1, <1>2, <1>4, StillShape
<1>7. /\ Placed(t') /\ NoCircle(t') /\ (Dated(t) => Dated(t'))
      /\ (\A i : Owed(t', i) <=> Owed(t, i)) /\ Ways(t') = Ways(t)
  BY <1>2, <1>4, StillKept
<1>8. atime' = [atime EXCEPT ![t.working_dir] = 0] /\ fds' = fds
  BY DEF ReadDirectory
<1>9. Owed(t, t.working_dir)
  BY <1>2, <1>4, WorksThere
<1>10. atime' \in [Nodes -> MaybeNode]
  BY <1>2, <1>8 DEF MaybeNode, Nothing
<1>11. t.restore => Dated(t') /\ \A i \in Nodes : atime'[i] = i \/ Owed(t', i)
  BY <1>1, <1>2, <1>7, <1>8, <1>9 DEF Walking, Timed, Untouched
<1>12. a' \in CallType /\ a'.pc = "visit" /\ a'.state = a.state
       /\ disk' = disk /\ entry' = entry /\ changed' = changed
  BY <1>2, GoesStep
<1>13. Last(t'.path) = m
  BY <1>4, <1>5 DEF Last
<1>14. disk.up[m] = t.working_dir /\ (disk.kind[m] # "none" \/ Gone(m))
  BY <1>2, <1>4 DEF Visiting
<1>15. Visiting(t', a'.pc)
  BY <1>1, <1>2, <1>4, <1>12, <1>13, <1>14 DEF Visiting, Open
<1>16. t'.working_dir # Nothing /\ ~t'.descend
       /\ fds' = 2 + (IF t'.d.on THEN 1 ELSE 0) + Cardinality(Ways(t'))
       /\ Cardinality(Ways(t')) \in Nat
  BY <1>1, <1>2, <1>4, <1>7, <1>8
<1> QED
  BY <1>1, <1>2, <1>4, <1>6, <1>7, <1>10, <1>11, <1>12, <1>15, <1>16, GoesOn

(* A directory that was entered is at the top, and left.                   *)
LEMMA TopEntered ==
  ASSUME t \in TreeType, Shape(t),
         (Needs("open") /\ ~Needs("descent")) \/ (Needs("ascent") /\ ~Needs("open"))
  PROVE  /\ ~t.d.on /\ Len(t.stack) >= 2 /\ Entered(t, Len(t.stack)) /\ t.current = Len(t.stack)
         /\ t.dirname_length <= Len(t.path)
         /\ ~t.stack[Len(t.stack)].link => t.stack[Len(t.stack)].symlink_parent = Nothing
<1> DEFINE n == Len(t.stack)
           e == t.stack[n]
<1>1. n \in Nat /\ n >= 1
  BY Entries DEF Needs, TreeType
<1>2. ~t.d.on
  BY DEF Needs
<1>3. \/ "open" \in e.needs /\ "descent" \notin e.needs
      \/ "ascent" \in e.needs /\ "open" \notin e.needs
  BY <1>1, <1>2 DEF Needs, TopEntry, Last
<1>4. n >= 2 /\ Entered(t, n) /\ t.current = n
  BY <1>1, <1>3, TopFacts
<1>5. n \in 2..n
  BY <1>1, <1>4
<1>6. Linked(t, n)
  BY <1>5 DEF Shape
<1> QED
  BY <1>2, <1>4, <1>6 DEF Shape, Current, Linked

(* A step that leaves the stack and the path as they are.                  *)
LEMMA StayKept ==
  ASSUME IInv, a.pc # "out", disk' = disk, changed' = changed, entry' = entry,
         t' \in TreeType, t'.stack = t.stack, t'.current = t.current, t'.path = t.path,
         t'.dirname_length = t.dirname_length, t'.working_dir = t.working_dir,
         t'.restore = t.restore, ~t'.descend,
         \/ t'.d = t.d /\ fds' = fds
         \/ t.d.on /\ ~t'.d.on /\ fds' = fds - 1,
         \/ atime' = atime
         \/ t.d.on /\ atime' = [atime EXCEPT ![t.working_dir] = 0],
         a' \in CallType, a'.pc # "visit",
         \/ a'.state \in {"header", "data"}
         \/ a'.state = "eof" /\ a'.pc = "out" /\ t'.stack = <<>>
  PROVE  IInv'
<1>1. Alive /\ Walking /\ t # Closed /\ entry = NoFile /\ entry.fd = Nothing /\ ~t.descend
      /\ t.working_dir \in Nodes /\ Cardinality(Ways(t)) \in Nat /\ a.state \in {"header", "data"}
      /\ fds = 2 + (IF t.d.on THEN 1 ELSE 0) + Cardinality(Ways(t))
  BY UnderWay
<1>2. Types /\ t \in TreeType /\ a \in CallType /\ Shape(t) /\ t.dirname_length <= Len(t.path)
      /\ atime \in [Nodes -> MaybeNode] /\ Nothing \notin Nodes /\ Placed(t) /\ NoCircle(t)
      /\ Visiting(t, a.pc)
  BY <1>1, Lookups DEF IInv, Types, Walking, Shape, Current
<1>3. /\ Placed(t') /\ NoCircle(t') /\ (Dated(t) => Dated(t'))
      /\ (\A i : Owed(t', i) <=> Owed(t, i)) /\ Ways(t') = Ways(t)
  BY <1>2, StillKept
<1>4. Shape(t')
  BY <1>2, StillShape
<1>5. atime' \in [Nodes -> MaybeNode]
  BY <1>2 DEF MaybeNode, Nothing
<1>6. t.restore => Dated(t') /\ \A i \in Nodes : atime'[i] = i \/ Owed(t', i)
  <2>1. t.restore => Dated(t) /\ \A i \in Nodes : atime[i] = i \/ Owed(t, i)
    BY <1>1, <1>2 DEF Walking, Timed, Untouched
  <2>2. t.d.on => Owed(t, t.working_dir)
    BY <1>2, WorksThere
  <2> QED
    BY <2>1, <2>2, <1>2, <1>3
<1>7. Visiting(t', a'.pc)
  <2>1. t'.d.on => \A m \in t'.d.left :
          disk.up[m] = t'.working_dir /\ (disk.kind[m] # "none" \/ Gone(m))
    BY <1>2 DEF Visiting
  <2> QED
    BY <2>1, NoVisit
<1>8. t'.working_dir # Nothing
       /\ fds' = 2 + (IF t'.d.on THEN 1 ELSE 0) + Cardinality(Ways(t'))
       /\ Cardinality(Ways(t')) \in Nat
  BY <1>1, <1>2, <1>3
<1> QED
  BY <1>3, <1>4, <1>5, <1>6, <1>7, <1>8, GoesOn

LEMMA StreamEndsKept ==
  ASSUME IInv, a.pc = "next", StreamEnds, Goes("more")
  PROVE  IInv'
<1>1. t \in TreeType /\ a \in CallType /\ ~t.descend /\ a.state \in {"header", "data"}
  BY UnderWay DEF IInv, Types
<1>2. t' = [t EXCEPT !.d = NoStream] /\ t.d.on
      /\ atime' = [atime EXCEPT ![t.working_dir] = 0] /\ fds' = fds - 1
  BY DEF StreamEnds, EndDirectory
<1>3. /\ t' \in TreeType /\ t'.stack = t.stack /\ t'.current = t.current /\ t'.path = t.path
      /\ t'.dirname_length = t.dirname_length /\ t'.working_dir = t.working_dir
      /\ t'.restore = t.restore /\ ~t'.descend /\ ~t'.d.on
  BY <1>1, <1>2 DEF TreeType, NoStream
<1>4. a' = a /\ disk' = disk /\ entry' = entry /\ changed' = changed
  BY <1>1, GoesStep
<1> QED
  BY <1>1, <1>2, <1>3, <1>4, StayKept

LEMMA ReadDirectoryFailsKept ==
  ASSUME IInv, a.pc = "next", ReadDirectoryFails, Goes("error")
  PROVE  IInv'
<1>1. t \in TreeType /\ a \in CallType /\ ~t.descend /\ a.state \in {"header", "data"}
  BY UnderWay DEF IInv, Types
<1>2. t' = [t EXCEPT !.d = NoStream, !.visit = "error"] /\ t.d.on /\ atime' = atime /\ fds' = fds - 1
  BY DEF ReadDirectoryFails
<1>3. /\ t' \in TreeType /\ t'.stack = t.stack /\ t'.current = t.current /\ t'.path = t.path
      /\ t'.dirname_length = t.dirname_length /\ t'.working_dir = t.working_dir
      /\ t'.restore = t.restore /\ ~t'.descend /\ ~t'.d.on
  BY <1>1, <1>2 DEF TreeType, NoStream
<1>4. a' \in CallType /\ a'.pc = "out" /\ a'.state = a.state
      /\ disk' = disk /\ entry' = entry /\ changed' = changed
  BY <1>1, GoesStep
<1> QED
  BY <1>1, <1>2, <1>3, <1>4, StayKept

LEMMA WalkEndsKept ==
  ASSUME IInv, WalkEnds
  PROVE  IInv'
<1>1. t \in TreeType /\ a \in CallType /\ ~t.descend /\ a.pc = "next" /\ t.stack = <<>>
  BY UnderWay DEF IInv, Types, WalkEnds
<1>2. t' = [t EXCEPT !.visit = "none"] /\ atime' = atime /\ fds' = fds
      /\ disk' = disk /\ entry' = entry /\ changed' = changed
      /\ a' = [a EXCEPT !.pc = "out", !.state = "eof", !.reply = "eof"]
  BY DEF WalkEnds
<1>3. /\ t' \in TreeType /\ t'.stack = t.stack /\ t'.current = t.current /\ t'.path = t.path
      /\ t'.dirname_length = t.dirname_length /\ t'.working_dir = t.working_dir
      /\ t'.restore = t.restore /\ ~t'.descend /\ t'.d = t.d
  BY <1>1, <1>2 DEF TreeType
<1>4. a' \in CallType /\ a'.pc = "out" /\ a'.state = "eof"
  BY <1>1, <1>2 DEF CallType
<1> QED
  BY <1>1, <1>2, <1>3, <1>4, StayKept

LEMMA MissingKept ==
  ASSUME IInv, Missing
  PROVE  IInv'
<1>1. t \in TreeType /\ a \in CallType /\ ~t.descend /\ a.pc = "visit"
      /\ a.state \in {"header", "data"}
  BY UnderWay DEF IInv, Types, Missing
<1>2. t' = t /\ atime' = atime /\ fds' = fds /\ disk' = disk /\ entry' = entry /\ changed' = changed
  BY DEF Missing
<1>3. a' \in CallType /\ a'.pc # "visit" /\ a'.state = a.state
  BY <1>1 DEF CallType, Missing
<1> QED
  BY <1>1, <1>2, <1>3, StayKept

LEMMA PathExcludedKept ==
  ASSUME IInv, PathExcluded
  PROVE  IInv'
<1>1. t \in TreeType /\ a \in CallType /\ ~t.descend /\ a.pc = "visit"
      /\ a.state \in {"header", "data"}
  BY UnderWay DEF IInv, Types, PathExcluded
<1>2. t' = [t EXCEPT !.descend = FALSE] /\ atime' = atime /\ fds' = fds
      /\ disk' = disk /\ entry' = entry /\ changed' = changed
      /\ a' = [a EXCEPT !.pc = "next", !.delayed = FALSE]
  BY DEF PathExcluded
<1>3. /\ t' \in TreeType /\ t'.stack = t.stack /\ t'.current = t.current /\ t'.path = t.path
      /\ t'.dirname_length = t.dirname_length /\ t'.working_dir = t.working_dir
      /\ t'.restore = t.restore /\ ~t'.descend /\ t'.d = t.d
  BY <1>1, <1>2 DEF TreeType
<1>4. a' \in CallType /\ a'.pc = "next" /\ a'.state = a.state
  BY <1>1, <1>2 DEF CallType
<1> QED
  BY <1>1, <1>2, <1>3, <1>4, StayKept

(* The way back is not found: the walk is over, its directory is not left. *)
LEMMA NoWayBackKept ==
  ASSUME IInv, a.pc = "next", NoWayBack, Goes("fatal"),
         (Needs("open") /\ ~Needs("descent")) \/ (Needs("ascent") /\ ~Needs("open"))
  PROVE  IInv'
<1>1. Alive /\ Walking /\ t # Closed /\ entry = NoFile /\ entry.fd = Nothing /\ ~t.descend
      /\ t.working_dir \in Nodes /\ Cardinality(Ways(t)) \in Nat /\ a.state \in {"header", "data"}
      /\ fds = 2 + (IF t.d.on THEN 1 ELSE 0) + Cardinality(Ways(t))
  BY UnderWay
<1>2. Types /\ t \in TreeType /\ a \in CallType /\ Shape(t) /\ Nothing \notin Nodes
  BY <1>1, Lookups DEF IInv, Types, Walking
<1> DEFINE n == Len(t.stack)
<1>3. n >= 2 /\ t.dirname_length <= Len(t.path)
      /\ (~t.stack[n].link => t.stack[n].symlink_parent = Nothing)
  BY <1>2, TopEntered
<1>a. n \in Nat /\ n >= 1
  BY <1>2, <1>3, Entries
<1>4. /\ t' \in TreeType /\ ~t.stack[n].link
      /\ t'.d = t.d /\ t'.visit = "fatal" /\ t'.working_dir = t.working_dir
      /\ Len(t'.stack) = n - 1 /\ \A k \in 1..(n - 1) : t'.stack[k] = t.stack[k]
  BY <1>2, <1>3, <1>a, NoWayBackStep
<1>5. Below(t', t) /\ Ways(t') = Ways(t)
  BY <1>2, <1>3, <1>4, <1>a, PopBelow
<1>6. atime' = atime /\ fds' = fds
  BY DEF NoWayBack
<1>7. a' \in CallType /\ a'.pc = "out" /\ a'.state = "fatal"
      /\ disk' = disk /\ entry' = entry /\ changed' = changed
  BY <1>2, GoesStep
<1>8. Types'
  BY <1>2, <1>4, <1>6, <1>7 DEF Types
<1>9. t' # Closed
  BY <1>4 DEF Closed
<1>10. Held'
  <2>1. Descriptors' = 2 + (IF t'.d.on THEN 1 ELSE 0) + Cardinality(Ways(t'))
    BY DEF Descriptors, Ways
  <2>2. fds' = Descriptors' + (IF entry'.fd # Nothing THEN 1 ELSE 0)
    BY <2>1, <1>1, <1>4, <1>5, <1>6, <1>7
  <2> QED
    BY <2>2, <1>1, <1>2, <1>4, <1>7, <1>9 DEF Held
<1>11. Described(t)' /\ Sound(entry)'
  BY <1>1, <1>7 DEF Described, Sound, NoFile
<1>12. FollowedTwice'
  BY <1>2, <1>4, <1>5, FewerFollowed DEF IInv
<1>13. Housed(disk)'
  BY <1>7 DEF IInv, Housed
<1> QED
  BY <1>7, <1>8, <1>10, <1>11, <1>12, <1>13 DEF IInv, Alive

(* While the walk is alive, in a call or between two.                      *)
LEMMA Living ==
  ASSUME IInv, a.state \in {"header", "data"}
  PROVE  /\ Alive /\ Walking /\ t # Closed
         /\ t.working_dir \in Nodes /\ Cardinality(Ways(t)) \in Nat
         /\ fds = 2 + (IF t.d.on THEN 1 ELSE 0) + Cardinality(Ways(t))
                  + (IF entry.fd # Nothing THEN 1 ELSE 0)
<1>1. Alive /\ t # Closed
  BY DEF IInv, Held, Alive
<1>2. Walking
  BY <1>1 DEF IInv
<1>3. t.working_dir \in Nodes
  BY <1>1 DEF IInv, Held, Types, TreeType, MaybeNode
<1>4. Ways(t) \subseteq 1..Len(t.stack)
  BY DEF Ways
<1>5. Cardinality(Ways(t)) \in Nat
  BY <1>4, FiniteStack DEF IInv, Types
<1>6. fds = Descriptors + (IF entry.fd # Nothing THEN 1 ELSE 0)
  BY <1>1 DEF IInv, Held
<1>7. Descriptors = 2 + (IF t.d.on THEN 1 ELSE 0) + Cardinality(Ways(t))
  BY DEF Descriptors, Ways
<1> QED
  BY <1>1, <1>2, <1>3, <1>5, <1>6, <1>7

LEMMA StaysAlive ==
  ASSUME IInv, disk' = disk, changed' = changed,
         t' \in TreeType, a' \in CallType, atime' \in [Nodes -> MaybeNode], entry' \in DataType,
         t' # Closed, t'.working_dir # Nothing, a'.state \in {"header", "data"},
         Cardinality(Ways(t')) \in Nat,
         fds' = 2 + (IF t'.d.on THEN 1 ELSE 0) + Cardinality(Ways(t'))
                + (IF entry'.fd # Nothing THEN 1 ELSE 0),
         Described(t)', Sound(entry)',
         Shape(t'), Placed(t'), NoCircle(t'), Visiting(t', a'.pc), Descendable(t'),
         t'.restore => Timed(t)'
  PROVE  IInv'
<1>1. fds' \in Int
  OBVIOUS
<1>2. Types'
  BY <1>1 DEF IInv, Types
<1>3. Held'
  <2>1. Descriptors' = 2 + (IF t'.d.on THEN 1 ELSE 0) + Cardinality(Ways(t'))
    BY DEF Descriptors, Ways
  <2>2. fds' = Descriptors' + (IF entry'.fd # Nothing THEN 1 ELSE 0)
    BY <2>1
  <2> QED
    BY <2>2 DEF Held
<1>4. FollowedTwice'
  BY NoThirdTime DEF FollowedTwice
<1>5. Housed(disk)'
  BY DEF IInv, Housed
<1>6. Shape(t)' /\ Placed(t)' /\ NoCircle(t)' /\ Visiting(t, a.pc)' /\ Descendable(t)'
  <2>1. Shape(t)'
    OBVIOUS
  <2>2. Placed(t)'
    BY DEF Placed, LeadsTo, Gone
  <2>3. NoCircle(t)'
    BY DEF NoCircle, Gone
  <2>4. Visiting(t, a.pc)'
    BY DEF Visiting, Gone
  <2>5. Descendable(t)'
    BY DEF Descendable, LeadsTo, Gone, Chosen, IsDirectory
  <2> QED
    BY <2>1, <2>2, <2>3, <2>4, <2>5
<1> QED
  BY <1>2, <1>3, <1>4, <1>5, <1>6 DEF IInv, Walking

(* archive_read_disk_descend                                               *)
LEMMA DescendKept ==
  ASSUME IInv, Descend
  PROVE  IInv'
<1>1. a.pc = "out" /\ a.state \in {"header", "data"} /\ t.visit = "regular" /\ t.descend
      /\ t' = Pushed(t) /\ disk' = disk /\ atime' = atime /\ fds' = fds /\ a' = a
      /\ entry' = entry /\ changed' = changed
  BY DEF Descend
<1>2. /\ Alive /\ Walking /\ t # Closed
      /\ t.working_dir \in Nodes /\ Cardinality(Ways(t)) \in Nat
      /\ fds = 2 + (IF t.d.on THEN 1 ELSE 0) + Cardinality(Ways(t))
               + (IF entry.fd # Nothing THEN 1 ELSE 0)
  BY <1>1, Living
<1>3. Types /\ t \in TreeType /\ a \in CallType /\ atime \in [Nodes -> MaybeNode]
      /\ entry \in DataType /\ Shape(t) /\ Placed(t) /\ NoCircle(t) /\ Visiting(t, a.pc)
      /\ Descendable(t) /\ Nothing \notin Nodes
  BY <1>2, Lookups DEF IInv, Types, Walking
<1>4. Open(t, a.pc)
  BY <1>1 DEF Open
<1>5. t.path # <<>> /\ (t.d.on \/ (t.current = 1 /\ Len(t.stack) = 1))
  <2>1. Len(t.path) = t.dirname_length + 1 /\ (t.d.on \/ (t.current = 1 /\ Len(t.stack) = 1))
    BY <1>3, <1>4 DEF Visiting
  <2>2. t.dirname_length \in Nat
    BY <1>3 DEF TreeType
  <2> QED
    BY <2>1, <2>2
<1>6. Shape(t') /\ t.current \in 1..Len(t.stack)
  BY <1>1, <1>3, <1>5, PushedShape
<1>7. /\ t' \in TreeType
      /\ t'.d = t.d /\ t'.visit = t.visit /\ t'.working_dir = t.working_dir /\ t'.lst = t.lst
      /\ t'.st = t.st /\ ~t'.descend /\ t'.time = t.time /\ t'.restore = t.restore
      /\ t'.path = t.path
  BY <1>1, <1>3, <1>5, <1>6, PushedUp
<1>8. /\ Placed(t') /\ NoCircle(t') /\ (Dated(t) /\ Remembered(t) => Dated(t'))
      /\ \A i \in Nodes : Owed(t, i) => Owed(t', i)
      /\ Len(t'.stack) = Len(t.stack) + 1 /\ t'.stack[Len(t'.stack)].symlink_parent = Nothing
      /\ \A k \in 1..Len(t.stack) : t'.stack[k] = t.stack[k]
  BY <1>1, <1>3, <1>5, PushedPlaced
<1>9. Ways(t') = Ways(t)
  <2>1. \A k \in 1..Len(t.stack) : k <= Len(t'.stack) =>
          t'.stack[k].symlink_parent = t.stack[k].symlink_parent
    BY <1>8
  <2> QED
    BY <2>1, <1>3, <1>7, <1>8, WaysSame
<1>10. Visiting(t', a'.pc)
  <2>1. a'.pc # "visit"
    BY <1>1
  <2>2. t'.d.on => \A m \in t'.d.left :
          disk.up[m] = t'.working_dir /\ (disk.kind[m] # "none" \/ Gone(m))
    BY <1>3, <1>7 DEF Visiting
  <2> QED
    BY <2>1, <2>2, <1>7, NoVisit
<1>11. Descendable(t') /\ Remembered(t')
  BY <1>7 DEF Descendable, Remembered
<1>12. t'.restore => Timed(t)'
  <2>1. SUFFICES ASSUME t'.restore PROVE Timed(t)'
    OBVIOUS
  <2>2. Untouched(t) /\ Dated(t) /\ Remembered(t)
    BY <2>1, <1>2, <1>7 DEF Walking, Timed
  <2>3. Untouched(t)'
    BY <2>2, <1>1, <1>8 DEF Untouched
  <2>4. Dated(t)'
    BY <2>2, <1>8
  <2>5. Remembered(t)'
    BY <1>7 DEF Remembered
  <2> QED
    BY <2>3, <2>4, <2>5 DEF Timed
<1>13. Described(t)'
  BY <1>1, <1>7 DEF IInv, Described, Subject, Gone
<1>14. Sound(entry)'
  BY <1>1 DEF IInv, Sound
<1>15. t' # Closed
  BY <1>1, <1>7 DEF Closed
<1>16. fds' = 2 + (IF t'.d.on THEN 1 ELSE 0) + Cardinality(Ways(t'))
              + (IF entry'.fd # Nothing THEN 1 ELSE 0)
       /\ t'.working_dir # Nothing
  BY <1>1, <1>2, <1>3, <1>7, <1>9
<1> QED
  BY <1>1, <1>2, <1>3, <1>6, <1>7, <1>8, <1>9, <1>10, <1>11, <1>12, <1>13, <1>14, <1>15, <1>16,
     StaysAlive

(* A file or directory is taken, or the client may descend from its        *)
(* callback.                                                               *)
LEMMA EntryExcludedKept ==
  ASSUME IInv, EntryExcluded
  PROVE  IInv'
<1>1. a.pc = "visit" /\ Found # Nothing /\ a' = [a EXCEPT !.pc = "next", !.delayed = FALSE]
      /\ disk' = disk /\ atime' = atime /\ fds' = fds /\ entry' = entry /\ changed' = changed
      /\ (t' = [Looked EXCEPT !.descend = FALSE] \/ (Looked.descend /\ t' = Pushed(Looked)))
  BY DEF EntryExcluded
<1>2. Alive /\ Walking /\ t # Closed /\ entry = NoFile /\ entry.fd = Nothing /\ ~t.descend
      /\ t.working_dir \in Nodes /\ Cardinality(Ways(t)) \in Nat /\ a.state \in {"header", "data"}
      /\ fds = 2 + (IF t.d.on THEN 1 ELSE 0) + Cardinality(Ways(t))
  BY <1>1, UnderWay
<1>3. Types /\ Housed(disk) /\ t \in TreeType /\ a \in CallType /\ Shape(t) /\ Nothing \notin Nodes
      /\ atime \in [Nodes -> MaybeNode] /\ Placed(t) /\ NoCircle(t) /\ Visiting(t, a.pc)
  BY <1>2, Lookups DEF IInv, Types, Walking
<1>4. a' \in CallType /\ a'.pc = "next" /\ a'.state = a.state
  BY <1>1, <1>3 DEF CallType
<1> DEFINE x == Looked
<1>5. /\ x \in TreeType
      /\ x.d = t.d /\ x.visit = t.visit /\ x.working_dir = t.working_dir
      /\ x.restore = t.restore /\ x.current = t.current
      /\ x.dirname_length = t.dirname_length /\ x.path = t.path /\ x.stack = t.stack
  BY <1>1, <1>3, LookedStep
<1>6. /\ Shape(x) /\ Placed(x) /\ NoCircle(x) /\ (Dated(t) => Dated(x))
      /\ (\A i : Owed(x, i) <=> Owed(t, i)) /\ Ways(x) = Ways(t)
      /\ Descendable(x)
      /\ (Untouched(t) => Remembered(x))
  BY <1>1, <1>2, <1>3, LookedKept
<1>7. t.path # <<>> /\ (t.d.on \/ (t.current = 1 /\ Len(t.stack) = 1))
  BY <1>1, <1>3, FoundThere
<1>8. t.visit = "regular"
  BY <1>1, <1>3 DEF Visiting
<1>a. t' = [x EXCEPT !.descend = FALSE] \/ (x.descend /\ t' = Pushed(x))
  BY <1>1
<1> HIDE DEF x
<1>9. CASE t' = [x EXCEPT !.descend = FALSE]
  <2>1. /\ t' \in TreeType /\ t'.stack = t.stack /\ t'.current = t.current /\ t'.path = t.path
        /\ t'.dirname_length = t.dirname_length /\ t'.working_dir = t.working_dir
        /\ t'.restore = t.restore /\ ~t'.descend /\ t'.d = t.d
    BY <1>5, <1>9 DEF TreeType
  <2> QED
    BY <2>1, <1>1, <1>2, <1>4, StayKept
<1>10. CASE x.descend /\ t' = Pushed(x)
  <2>1. Shape(t') /\ x.current \in 1..Len(x.stack)
    BY <1>5, <1>6, <1>7, <1>10, PushedShape
  <2>2. /\ t' \in TreeType
        /\ t'.d = x.d /\ t'.working_dir = x.working_dir /\ ~t'.descend /\ t'.restore = x.restore
    BY <2>1, <1>5, <1>7, <1>10, PushedUp
  <2>3. /\ Placed(t') /\ NoCircle(t') /\ (Dated(x) /\ Remembered(x) => Dated(t'))
        /\ \A i \in Nodes : Owed(x, i) => Owed(t', i)
        /\ Len(t'.stack) = Len(x.stack) + 1 /\ t'.stack[Len(t'.stack)].symlink_parent = Nothing
        /\ \A k \in 1..Len(x.stack) : t'.stack[k] = x.stack[k]
    BY <1>5, <1>6, <1>7, <1>8, <1>10, PushedPlaced
  <2>4. Ways(t') = Ways(x)
    <3>1. \A k \in 1..Len(x.stack) : k <= Len(t'.stack) =>
            t'.stack[k].symlink_parent = x.stack[k].symlink_parent
      BY <2>3
    <3> QED
      BY <3>1, <1>5, <2>2, <2>3, WaysSame
  <2>5. t.restore => Dated(t') /\ \A i \in Nodes : atime'[i] = i \/ Owed(t', i)
    <3>1. SUFFICES ASSUME t.restore PROVE Dated(t') /\ \A i \in Nodes : atime'[i] = i \/ Owed(t', i)
      OBVIOUS
    <3>2. Untouched(t) /\ Dated(t)
      BY <3>1, <1>2 DEF Walking, Timed
    <3>3. Dated(t')
      BY <3>2, <1>6, <2>3
    <3>4. ASSUME NEW i \in Nodes PROVE atime'[i] = i \/ Owed(t', i)
      BY <3>2, <1>1, <1>2, <1>3, <1>6, <2>3 DEF Untouched
    <3> QED
      BY <3>3, <3>4
  <2>6. Visiting(t', a'.pc)
    <3>1. t'.d.on => \A m \in t'.d.left :
            disk.up[m] = t'.working_dir /\ (disk.kind[m] # "none" \/ Gone(m))
      BY <1>3, <1>5, <2>2 DEF Visiting
    <3> QED
      BY <3>1, <2>2, <1>4, NoVisit
  <2>7. t'.working_dir # Nothing /\ Cardinality(Ways(t')) \in Nat
        /\ fds' = 2 + (IF t'.d.on THEN 1 ELSE 0) + Cardinality(Ways(t'))
    BY <1>1, <1>2, <1>3, <1>5, <1>6, <2>2, <2>4
  <2> QED
    BY <1>1, <1>2, <1>3, <1>4, <1>5, <2>1, <2>2, <2>3, <2>5, <2>6, <2>7, GoesOn
<1> QED
  BY <1>9, <1>10, <1>a

(* The entry is answered, and its data described.                          *)
LEMMA VisitKept ==
  ASSUME IInv, Visit
  PROVE  IInv'
<1>1. /\ a.pc = "visit" /\ Found # Nothing /\ t' = Looked /\ EntryData(Reported(Looked))
      /\ a' = [a EXCEPT !.pc = "out", !.state = "data",
                        !.reply = IF a.delayed THEN "warn" ELSE "ok"]
      /\ disk' = disk /\ atime' = atime /\ fds' = fds /\ changed' = changed
  BY DEF Visit
<1>2. Alive /\ Walking /\ t # Closed /\ entry = NoFile /\ entry.fd = Nothing /\ ~t.descend
      /\ t.working_dir \in Nodes /\ Cardinality(Ways(t)) \in Nat /\ a.state \in {"header", "data"}
      /\ fds = 2 + (IF t.d.on THEN 1 ELSE 0) + Cardinality(Ways(t))
  BY <1>1, UnderWay
<1>3. Types /\ Housed(disk) /\ t \in TreeType /\ a \in CallType /\ Shape(t) /\ Nothing \notin Nodes
      /\ atime \in [Nodes -> MaybeNode] /\ Placed(t) /\ NoCircle(t) /\ Visiting(t, a.pc)
      /\ disk \in DiskType
  BY <1>2, Lookups DEF IInv, Types, Walking
<1>4. a' \in CallType /\ a'.pc = "out" /\ a'.state = "data"
  BY <1>1, <1>3 DEF CallType
<1> DEFINE x == Looked
           st == IF x.st # Nothing /\ x.st \notin Above THEN x.st ELSE Found
           i == Reported(x)
           s == Subject(x)
<1>5. /\ x \in TreeType
      /\ x.d = t.d /\ x.visit = t.visit /\ x.working_dir = t.working_dir
      /\ x.restore = t.restore /\ x.current = t.current
      /\ x.dirname_length = t.dirname_length /\ x.path = t.path /\ x.stack = t.stack
      /\ x.lst = Found /\ x.st \in {Nothing, Follow(Found)}
      /\ st \in Nodes /\ x.descend = IsDirectory(st) /\ x.time = atime[st]
  BY <1>1, <1>3, LookedStep
<1>6. /\ Shape(x) /\ Placed(x) /\ NoCircle(x) /\ (Dated(t) => Dated(x))
      /\ (\A k : Owed(x, k) <=> Owed(t, k)) /\ Ways(x) = Ways(t)
      /\ Descendable(x)
      /\ (Untouched(t) => Remembered(x))
  BY <1>1, <1>2, <1>3, LookedKept
<1>7. t.path # <<>> /\ Last(t.path) \in Nodes /\ Found = Last(t.path)
      /\ disk.kind[Found] # "none" /\ (t.d.on \/ (t.current = 1 /\ Len(t.stack) = 1))
  BY <1>1, <1>3, FoundThere
<1>8. t.visit = "regular"
  BY <1>1, <1>3 DEF Visiting
<1>9. t' = x /\ EntryData(i)
  BY <1>1
<1>a. i = IF x.st # Nothing /\ (IsDirectory(x.st) => x.descend) THEN x.st ELSE x.lst
  BY DEF Reported
<1>b. s = IF x.st # Nothing THEN x.st ELSE x.lst
  BY DEF Subject
<1> HIDE DEF x, i, s
<1>10. i \in Nodes
  BY <1>a, <1>5, <1>7 DEF TreeType, MaybeNode
<1>11. /\ entry' \in DataType /\ Sound(entry)' /\ entry'.fd = Nothing
       /\ entry'.size > 0 => disk.kind[i] = "file" /\ entry'.size = disk.size[i] /\ ~entry'.eof
       /\ entry'.size = 0 => entry'.eof
  BY <1>3, <1>9, <1>10, EntryDataSound
<1>12. ASSUME disk.kind[i] = "file" PROVE i = s /\ (s = Found \/ (s = Follow(Found) /\ s # Nothing))
  <2>1. CASE x.st = Nothing
    BY <2>1, <1>5, <1>a, <1>b
  <2>2. CASE x.st # Nothing
    <3>1. s = x.st /\ x.st = Follow(Found)
      BY <2>2, <1>5, <1>b
    <3>2. CASE i = x.st
      BY <3>1, <3>2, <2>2
    <3>3. CASE i # x.st
      <4>1. i = Found
        BY <3>3, <1>5, <1>a
      <4>2. Follow(Found) = Found
        BY <4>1, <1>12 DEF Follow
      <4> QED
        BY <4>1, <4>2, <3>1, <3>3
    <3> QED
      BY <3>2, <3>3
  <2> QED
    BY <2>1, <2>2
<1>13. ASSUME disk.kind[i] = "file", Untouched(t) PROVE x.time = s
  <2>1. ~Owed(t, s)
    <3>1. SUFFICES ASSUME NEW k \in 2..Len(t.stack), Entered(t, k), t.stack[k].ino = s PROVE FALSE
      BY DEF Owed
    <3>2. disk.kind[s] = "dir" \/ Gone(s)
      BY <3>1, <1>3 DEF Placed
    <3> QED
      BY <3>2, <1>12, <1>13 DEF Gone
  <2>2. s # Nothing /\ s \in Nodes
    BY <1>3, <1>10, <1>12, <1>13
  <2>3. s \notin Above
    BY <2>1, <2>2, <1>3, AboveOnly
  <2>4. st = s
    <3>1. CASE x.st = Nothing
      BY <3>1, <1>5, <1>b
    <3>2. CASE x.st # Nothing
      BY <3>2, <2>3, <1>b
    <3> QED
      BY <3>1, <3>2
  <2>5. atime[s] = s
    BY <2>1, <2>2, <1>2, <1>3, <1>13 DEF Untouched
  <2> QED
    BY <2>4, <2>5, <1>5
<1>14. t'.restore => Timed(t)'
  <2>1. SUFFICES ASSUME t'.restore PROVE Timed(t)'
    OBVIOUS
  <2>2. Untouched(t) /\ Dated(t)
    BY <2>1, <1>2, <1>5, <1>9 DEF Walking, Timed
  <2>3. Untouched(t)'
    BY <2>2, <1>1, <1>2, <1>3, <1>6, <1>9 DEF Untouched
  <2>4. Dated(t)' /\ Remembered(t)'
    <3>1. Dated(x) /\ Remembered(x)
      BY <2>2, <1>6
    <3>2. Remembered(t)' <=> Remembered(t')
      BY <1>1 DEF Remembered, Chosen, IsDirectory
    <3> QED
      BY <3>1, <3>2, <1>9
  <2> QED
    BY <2>3, <2>4 DEF Timed
<1>15. Described(t)'
  <2>1. SUFFICES ASSUME entry'.size > 0
                 PROVE  /\ s # Nothing /\ x.path # <<>>
                        /\ disk.kind[s] = "file"
                        /\ Last(x.path) = s
                           \/ (disk.kind[Last(x.path)] = "link" /\ disk.to[Last(x.path)] = s)
                        /\ disk.size[s] = entry'.size
                        /\ x.restore => x.time = s
    <3>1. Subject(t)' = s /\ Last(t.path)' = Last(x.path) /\ t'.path = x.path /\ t'.time = x.time
          /\ t'.restore = x.restore
      BY <1>9 DEF Subject, s
    <3>2. entry'.size = 0 => entry'.fd = Nothing /\ entry'.eof
      BY <1>11
    <3>3. entry'.fd = Nothing /\ (entry'.size > 0 => ~entry'.eof)
      BY <1>11
    <3> QED
      BY <2>1, <3>1, <3>2, <3>3, <1>1, <1>4 DEF Described
  <2>2. disk.kind[i] = "file" /\ entry'.size = disk.size[i]
    BY <2>1, <1>11
  <2>3. i = s /\ (s = Found \/ (s = Follow(Found) /\ s # Nothing))
    BY <2>2, <1>12
  <2>4. s # Nothing
    BY <2>3, <1>3, <1>10
  <2>5. Found = s \/ (disk.kind[Found] = "link" /\ disk.to[Found] = s)
    BY <2>3, <1>1 DEF Follow
  <2>6. x.restore => x.time = s
    BY <2>2, <1>2, <1>5, <1>13 DEF Walking, Timed
  <2> QED
    BY <2>2, <2>3, <2>4, <2>5, <2>6, <1>5, <1>7
<1>16. Visiting(t', a'.pc)
  <2>1. t.d.on => \A m \in t.d.left : disk.up[m] = t.working_dir /\ (disk.kind[m] # "none" \/ Gone(m))
    BY <1>3 DEF Visiting
  <2>2. Open(t, a.pc)
    BY <1>1, <1>8 DEF Open
  <2>3. /\ t.d.on \/ (t.current = 1 /\ Len(t.stack) = 1)
        /\ Len(t.path) = t.dirname_length + 1
        /\ t.d.on => /\ disk.up[Last(t.path)] = t.working_dir
                     /\ disk.kind[Last(t.path)] # "none" \/ Gone(Last(t.path))
    BY <2>2, <1>3 DEF Visiting
  <2>4. a'.pc = "out"
    BY <1>4
  <2> QED
    BY <2>1, <2>3, <2>4, <1>5, <1>9 DEF Visiting
<1>17. Descendable(t')
  BY <1>6, <1>9
<1>18. t' # Closed
  BY <1>5, <1>8, <1>9 DEF Closed
<1>19. fds' = 2 + (IF t'.d.on THEN 1 ELSE 0) + Cardinality(Ways(t'))
              + (IF entry'.fd # Nothing THEN 1 ELSE 0)
       /\ t'.working_dir # Nothing /\ t' \in TreeType /\ Cardinality(Ways(t')) \in Nat
  BY <1>1, <1>2, <1>3, <1>5, <1>6, <1>9, <1>11
<1>20. Shape(t') /\ Placed(t') /\ NoCircle(t') /\ atime' \in [Nodes -> MaybeNode]
  BY <1>1, <1>3, <1>6, <1>9
<1>21. a'.state \in {"header", "data"}
  BY <1>4
<1> QED
  BY <1>1, <1>4, <1>11, <1>14, <1>15, <1>16, <1>17, <1>18, <1>19, <1>20, <1>21, StaysAlive

(* The client asks for an entry: the file of the last one is closed.       *)
LEMMA NextHeaderKept ==
  ASSUME IInv, NextHeader
  PROVE  IInv'
<1>1. /\ a.pc = "out" /\ a.state \in {"header", "data"}
      /\ a' = [a EXCEPT !.pc = "next", !.delayed = FALSE]
      /\ t' = [t EXCEPT !.descend = FALSE]
      /\ atime' = IF entry.fd # Nothing THEN Restored(entry.fd, t.time) ELSE atime
      /\ fds' = IF entry.fd # Nothing THEN fds - 1 ELSE fds
      /\ entry' = NoFile /\ disk' = disk /\ changed' = changed
  BY DEF NextHeader
<1>2. /\ Alive /\ Walking /\ t # Closed
      /\ t.working_dir \in Nodes /\ Cardinality(Ways(t)) \in Nat
      /\ fds = 2 + (IF t.d.on THEN 1 ELSE 0) + Cardinality(Ways(t))
               + (IF entry.fd # Nothing THEN 1 ELSE 0)
  BY <1>1, Living
<1>3. Types /\ t \in TreeType /\ a \in CallType /\ atime \in [Nodes -> MaybeNode]
      /\ entry \in DataType /\ Shape(t) /\ Placed(t) /\ NoCircle(t) /\ Visiting(t, a.pc)
      /\ Nothing \notin Nodes /\ t.dirname_length <= Len(t.path) /\ Described(t)
  BY <1>2, Lookups DEF IInv, Types, Walking, Shape, Current
<1>4. a' \in CallType /\ a'.pc = "next" /\ a'.state = a.state
  BY <1>1, <1>3 DEF CallType
<1>5. /\ t' \in TreeType /\ t'.d = t.d /\ t'.working_dir = t.working_dir /\ ~t'.descend
      /\ t'.restore = t.restore /\ t'.current = t.current /\ t'.stack = t.stack
      /\ t'.dirname_length = t.dirname_length /\ t'.path = t.path
  BY <1>1, <1>3 DEF TreeType
<1>6. Shape(t')
  BY <1>3, <1>5, StillShape
<1>7. /\ Placed(t') /\ NoCircle(t') /\ (Dated(t) => Dated(t'))
      /\ (\A i : Owed(t', i) <=> Owed(t, i)) /\ Ways(t') = Ways(t)
  BY <1>3, <1>5, StillKept
<1>8. entry.fd # Nothing /\ t.restore => t.time = entry.fd /\ entry.fd \in Nodes
  BY <1>3 DEF Described, DataType, MaybeNode
<1>9. atime' \in [Nodes -> MaybeNode]
  BY <1>1, <1>3 DEF Restored, TreeType, DataType
<1>10. Visiting(t', a'.pc)
  <2>1. t'.d.on => \A m \in t'.d.left :
          disk.up[m] = t'.working_dir /\ (disk.kind[m] # "none" \/ Gone(m))
    BY <1>3, <1>5 DEF Visiting
  <2>2. a'.pc # "visit"
    BY <1>4
  <2> QED
    BY <2>1, <2>2, <1>5, NoVisit
<1>11. t'.restore => Timed(t)'
  <2>1. SUFFICES ASSUME t'.restore PROVE Timed(t)'
    OBVIOUS
  <2>2. Untouched(t) /\ Dated(t)
    BY <2>1, <1>2, <1>5 DEF Walking, Timed
  <2>3. ASSUME NEW i \in Nodes PROVE atime'[i] = i \/ Owed(t', i)
    BY <2>1, <2>2, <1>1, <1>3, <1>5, <1>7, <1>8 DEF Untouched, Restored
  <2>4. Untouched(t)'
    BY <2>3 DEF Untouched
  <2>5. Dated(t)' /\ Remembered(t)'
    BY <2>2, <1>5, <1>7 DEF Remembered
  <2> QED
    BY <2>4, <2>5 DEF Timed
<1>12. entry' \in DataType /\ Described(t)' /\ Sound(entry)'
  BY <1>1 DEF Described, Sound, NoFile, DataType, MaybeNode, RegionType
<1>13. Descendable(t')
  BY <1>5 DEF Descendable
<1>14. t' # Closed
  BY <1>2, <1>3, <1>5 DEF Closed
<1>15. fds' = 2 + (IF t'.d.on THEN 1 ELSE 0) + Cardinality(Ways(t'))
              + (IF entry'.fd # Nothing THEN 1 ELSE 0)
       /\ t'.working_dir # Nothing /\ Cardinality(Ways(t')) \in Nat
  <2>1. entry'.fd = Nothing
    BY <1>1 DEF NoFile
  <2> QED
    BY <2>1, <1>1, <1>2, <1>3, <1>5, <1>7
<1> QED
  BY <1>1, <1>4, <1>5, <1>6, <1>7, <1>9, <1>10, <1>11, <1>12, <1>13, <1>14, <1>15, StaysAlive

(* The data of an entry is asked for: the walk stays where it is.          *)
LEMMA DataKept ==
  ASSUME IInv, a.state \in {"header", "data"},
         t' = t, a' = a, disk' = disk, changed' = changed,
         entry' \in DataType, atime' \in [Nodes -> MaybeNode], Described(t)', Sound(entry)',
         fds' = fds - (IF entry.fd # Nothing THEN 1 ELSE 0) + (IF entry'.fd # Nothing THEN 1 ELSE 0),
         t.restore => Untouched(t)'
  PROVE  IInv'
<1>1. /\ Alive /\ Walking /\ t # Closed
      /\ t.working_dir \in Nodes /\ Cardinality(Ways(t)) \in Nat
      /\ fds = 2 + (IF t.d.on THEN 1 ELSE 0) + Cardinality(Ways(t))
               + (IF entry.fd # Nothing THEN 1 ELSE 0)
  BY Living
<1>2. t \in TreeType /\ a \in CallType /\ Nothing \notin Nodes
  BY Lookups DEF IInv, Types
<1>3. Shape(t) /\ Placed(t) /\ NoCircle(t) /\ Visiting(t, a.pc) /\ Descendable(t)
  BY <1>1 DEF Walking
<1>4. fds' = 2 + (IF t'.d.on THEN 1 ELSE 0) + Cardinality(Ways(t'))
              + (IF entry'.fd # Nothing THEN 1 ELSE 0)
  BY <1>1
<1>5. t'.restore => Timed(t)'
  <2>1. t.restore => Dated(t) /\ Remembered(t)
    BY <1>1 DEF Walking, Timed
  <2>2. Dated(t)' <=> Dated(t')
    BY DEF Dated
  <2>3. Remembered(t)' <=> Remembered(t')
    BY DEF Remembered, Chosen, IsDirectory
  <2> QED
    BY <2>1, <2>2, <2>3 DEF Timed
<1> QED
  BY <1>1, <1>2, <1>3, <1>4, <1>5, StaysAlive

LEMMA OpenFileKept ==
  ASSUME IInv, OpenFile
  PROVE  IInv'
<1> DEFINE i == Follow(Object(t.working_dir, Last(t.path)))
<1>1. /\ a.pc = "out" /\ a.state = "data" /\ ~entry.eof /\ entry.fd = Nothing
      /\ disk' = disk /\ atime' = atime /\ t' = t /\ a' = a /\ changed' = changed
      /\ \/ entry' = entry /\ fds' = fds
         \/ /\ i # Nothing /\ disk.kind[i] = "file"
            /\ entry' = [entry EXCEPT !.fd = i, !.pos = 0] /\ fds' = fds + 1
  BY DEF OpenFile, Reading
<1>2. /\ Alive /\ Walking /\ t # Closed
      /\ t.working_dir \in Nodes /\ Cardinality(Ways(t)) \in Nat
      /\ fds = 2 + (IF t.d.on THEN 1 ELSE 0) + Cardinality(Ways(t))
               + (IF entry.fd # Nothing THEN 1 ELSE 0)
  BY <1>1, Living
<1>3. /\ t \in TreeType /\ disk \in DiskType /\ entry \in DataType /\ Described(t) /\ Sound(entry)
      /\ atime \in [Nodes -> MaybeNode] /\ Nothing \notin Nodes
  BY Lookups DEF IInv, Types
<1>4. t.restore => Untouched(t)
  BY <1>2 DEF Walking, Timed
<1>5. CASE entry' = entry /\ fds' = fds
  <2>1. Described(t)' /\ Sound(entry)' /\ (t.restore => Untouched(t)')
    BY <1>1, <1>3, <1>4, <1>5 DEF Described, Subject, Gone, Sound, Untouched, Owed, Entered
  <2>2. fds' = fds - (IF entry.fd # Nothing THEN 1 ELSE 0) + (IF entry'.fd # Nothing THEN 1 ELSE 0)
    BY <1>1, <1>2, <1>5
  <2>3. entry' \in DataType
    BY <1>3, <1>5
  <2> QED
    BY <2>1, <2>2, <2>3, <1>1, <1>3, DataKept
<1>6. CASE /\ i # Nothing /\ disk.kind[i] = "file"
           /\ entry' = [entry EXCEPT !.fd = i, !.pos = 0] /\ fds' = fds + 1
  <2>1. entry.size > 0
    BY <1>1, <1>3 DEF Described, DataType
  <2> DEFINE s == Subject(t)
             n == Last(t.path)
  <2>2. /\ s # Nothing /\ t.path # <<>>
        /\ disk.kind[s] = "file" \/ Gone(s)
        /\ Gone(n) \/ n = s \/ (disk.kind[n] = "link" /\ disk.to[n] = s)
        /\ s \notin changed => disk.size[s] = entry.size
        /\ t.restore => t.time = s
    BY <2>1, <1>3 DEF Described
  <2>3. n \in Nodes
    <3>1. t.path \in Seq(Nodes) /\ Len(t.path) \in 1..Len(t.path)
      BY <2>2, <1>3 DEF TreeType
    <3> QED
      BY <3>1 DEF Last
  <2>4. i \in Nodes
    BY <2>3, <1>2, <1>3, <1>6, Lookups DEF MaybeNode
  <2>a. i = Follow(Object(t.working_dir, n))
    OBVIOUS
  <2> HIDE DEF s, n, i
  <2>5. i = s
    <3>1. Object(t.working_dir, n) # Nothing
      BY <2>a, <1>6 DEF Follow
    <3>2. Object(t.working_dir, n) = n /\ disk.kind[n] # "none" /\ n # Nothing
      BY <3>1 DEF Object
    <3>3. CASE n = s
      <4>1. disk.kind[n] = "file"
        BY <3>2, <3>3, <2>2 DEF Gone
      <4> QED
        BY <4>1, <3>2, <3>3, <2>a DEF Follow
    <3>4. CASE disk.kind[n] = "link" /\ disk.to[n] = s
      BY <3>2, <3>4, <2>a, <1>6 DEF Follow
    <3> QED
      BY <3>2, <3>3, <3>4, <2>2 DEF Gone
  <2>6. /\ entry' \in DataType /\ entry'.fd = i /\ entry'.pos = 0 /\ entry'.size = entry.size
        /\ entry'.list = entry.list /\ entry'.cur = entry.cur /\ entry'.total = entry.total
        /\ entry'.remaining = entry.remaining /\ entry'.eof = entry.eof /\ entry'.got = entry.got
    BY <2>4, <1>3, <1>6 DEF DataType, MaybeNode
  <2>7. Sound(entry)'
    <3>1. entry.total = 0
      BY <2>1, <1>1, <1>3 DEF Sound
    <3> QED
      BY <3>1, <2>1, <2>6, <1>1, <1>3 DEF Sound
  <2>8. Described(t)'
    <3>1. s' = s /\ n' = n
      BY <1>1 DEF s, n, Subject
    <3> QED
      <4>1. entry'.fd \in {Nothing, s} /\ entry'.size > 0 /\ entry'.size # 0
        BY <2>1, <2>5, <2>6
      <4> QED
        <5>1. /\ t' = t /\ a' = a /\ disk' = disk /\ changed' = changed
              /\ a.pc = "out" /\ a.state = "data" /\ entry'.size = entry.size /\ ~entry'.eof
          BY <2>6, <1>1
        <5> QED
          BY <3>1, <4>1, <2>2, <5>1 DEF Described, Gone, s, n
  <2>9. t.restore => Untouched(t)'
    BY <1>1, <1>3, <1>4 DEF Untouched, Owed, Entered
  <2>10. fds' = fds - (IF entry.fd # Nothing THEN 1 ELSE 0)
                + (IF entry'.fd # Nothing THEN 1 ELSE 0)
    BY <2>4, <2>6, <1>1, <1>2, <1>3, <1>6
  <2> QED
    BY <2>6, <2>7, <2>8, <2>9, <2>10, <1>1, <1>3, DataKept
<1> QED
  BY <1>1, <1>5, <1>6

LEMMA DataBlockKept ==
  ASSUME IInv, DataBlock
  PROVE  IInv'
<1>1. /\ a.pc = "out" /\ a.state = "data"
      /\ disk' = disk /\ t' = t /\ a' = a /\ changed' = changed
  BY DEF DataBlock, Reading
<1>2. /\ Alive /\ Walking /\ t # Closed
      /\ fds = 2 + (IF t.d.on THEN 1 ELSE 0) + Cardinality(Ways(t))
               + (IF entry.fd # Nothing THEN 1 ELSE 0)
      /\ Cardinality(Ways(t)) \in Nat
  BY <1>1, Living
<1>3. /\ t \in TreeType /\ disk \in DiskType /\ entry \in DataType /\ Described(t) /\ Sound(entry)
      /\ atime \in [Nodes -> MaybeNode] /\ Nothing \notin Nodes
  BY Lookups DEF IInv, Types
<1>4. t.restore => Untouched(t)
  BY <1>2 DEF Walking, Timed
<1>5. /\ entry' \in DataType /\ Sound(entry)' /\ entry'.size = entry.size /\ entry.fd # Nothing
      /\ entry'.eof /\ disk.size[entry.fd] = entry.size => entry'.total = entry'.size
      /\ \/ /\ entry'.fd = entry.fd /\ fds' = fds
            /\ atime' = atime \/ atime' = [atime EXCEPT ![entry.fd] = 0]
         \/ /\ entry'.fd = Nothing /\ fds' = fds - 1
            /\ atime' = Restored(entry.fd, t.time)
  BY <1>3, DataBlockSound
<1>6. entry.size > 0 /\ (t.restore => t.time = entry.fd) /\ entry.fd \in Nodes
  BY <1>3, <1>5 DEF Described, DataType, MaybeNode
<1>7. atime' \in [Nodes -> MaybeNode]
  BY <1>3, <1>5 DEF Restored, TreeType, MaybeNode, Nothing
<1>8. Described(t)'
  <2> DEFINE s == Subject(t)
             n == Last(t.path)
  <2>1. s' = s /\ n' = n
    BY <1>1 DEF Subject
  <2>2. /\ s # Nothing /\ t.path # <<>>
        /\ disk.kind[s] = "file" \/ Gone(s)
        /\ Gone(n) \/ n = s \/ (disk.kind[n] = "link" /\ disk.to[n] = s)
        /\ s \notin changed => disk.size[s] = entry.size
        /\ entry.fd \in {Nothing, s}
        /\ t.restore => t.time = s
    BY <1>3, <1>6 DEF Described
  <2> HIDE DEF s, n
  <2>3. /\ entry'.fd \in {Nothing, s} /\ entry'.size > 0 /\ entry'.size # 0
        /\ entry'.eof /\ s \notin changed => entry'.total = entry'.size
    BY <2>2, <1>5, <1>6
  <2> QED
    BY <2>1, <2>2, <2>3, <1>1, <1>5 DEF Described, Gone, s, n
<1>9. t.restore => Untouched(t)'
  <2>1. SUFFICES ASSUME t.restore, NEW i \in Nodes
                 PROVE  atime'[i] = i \/ entry'.fd = i \/ Owed(t, i)
    BY <1>1 DEF Untouched, Owed, Entered
  <2>2. atime[i] = i \/ entry.fd = i \/ Owed(t, i)
    BY <2>1, <1>4 DEF Untouched
  <2> QED
    BY <2>1, <2>2, <1>3, <1>5, <1>6 DEF Restored
<1>10. fds' = fds - (IF entry.fd # Nothing THEN 1 ELSE 0)
                + (IF entry'.fd # Nothing THEN 1 ELSE 0)
  BY <1>2, <1>5
<1> QED
  BY <1>1, <1>5, <1>7, <1>8, <1>9, <1>10, DataKept

(* A seek or a read fails: the file is closed, and no call goes on.        *)
LEMMA DataFailsKept ==
  ASSUME IInv, DataFails
  PROVE  IInv'
<1>1. /\ a.pc = "out" /\ a.state = "data" /\ ~entry.eof /\ entry.fd # Nothing
      /\ a' = [a EXCEPT !.state = "fatal", !.reply = "fatal"]
      /\ disk' = disk /\ t' = t /\ changed' = changed
      /\ CloseFile(entry) \/ CloseFile(AtRegion)
  BY DEF DataFails, Reading
<1>2. Types /\ Held /\ Described(t) /\ Sound(entry) /\ FollowedTwice /\ Housed(disk)
      /\ t \in TreeType /\ a \in CallType /\ entry \in DataType
      /\ atime \in [Nodes -> MaybeNode] /\ t # Closed /\ fds = Descriptors + 1
  BY <1>1 DEF IInv, Types, Held
<1>3. entry.size > 0
  BY <1>1, <1>2 DEF Described, DataType
<1>4. PICK x \in {entry, AtRegion} : CloseFile(x)
  BY <1>1
<1>5. AtRegion \in DataType /\ Sound(AtRegion) /\ ~AtRegion.eof /\ AtRegion.fd = entry.fd
      /\ AtRegion.size = entry.size
  BY <1>1, <1>2, <1>3, AtRegionSound
<1>6. x \in DataType /\ Sound(x) /\ ~x.eof /\ x.fd = entry.fd /\ x.size = entry.size
  BY <1>1, <1>2, <1>4, <1>5
<1> HIDE DEF AtRegion
<1>7. /\ entry' = [x EXCEPT !.fd = Nothing] /\ fds' = fds - 1
      /\ atime' = Restored(entry.fd, t.time)
  BY <1>1, <1>4, <1>6 DEF CloseFile
<1>8. /\ entry' \in DataType /\ entry'.fd = Nothing /\ entry'.size = x.size /\ ~entry'.eof
      /\ entry'.list = x.list /\ entry'.cur = x.cur /\ entry'.total = x.total
      /\ entry'.remaining = x.remaining /\ entry'.got = x.got
  BY <1>6, <1>7 DEF DataType, MaybeNode
<1>9. a' \in CallType /\ a'.state = "fatal" /\ a'.pc = "out"
  BY <1>1, <1>2 DEF CallType
<1>10. atime' \in [Nodes -> MaybeNode] /\ fds' \in Int
  <2>1. t.time \in MaybeNode /\ fds \in Int
    BY <1>2 DEF Types, TreeType
  <2>2. fds' \in Int
    BY <2>1, <1>7
  <2>3. atime' \in [Nodes -> MaybeNode]
    BY <2>1, <1>2, <1>7 DEF Restored
  <2> QED
    BY <2>2, <2>3
<1>11. Types'
  BY <1>1, <1>2, <1>8, <1>9, <1>10 DEF Types
<1>12. Held'
  <2>1. fds' = Descriptors' + (IF entry'.fd # Nothing THEN 1 ELSE 0)
    <3>1. Descriptors \in Int
      <4>1. Ways(t) \subseteq 1..Len(t.stack)
        BY DEF Ways
      <4>2. Cardinality(Ways(t)) \in Nat
        BY <4>1, <1>2, FiniteStack
      <4> QED
        BY <4>2 DEF Descriptors, Ways
    <3> QED
      BY <3>1, <1>1, <1>2, <1>7, <1>8 DEF Descriptors
  <2>2. t.working_dir # Nothing
    BY <1>2 DEF Held
  <2> QED
    BY <2>1, <2>2, <1>1, <1>2, <1>8, <1>9 DEF Held
<1>13. Sound(entry)'
  BY <1>3, <1>6, <1>8, <1>9 DEF Sound
<1>14. Described(t)'
  <2>1. Subject(t)' = Subject(t)
    BY <1>1 DEF Subject
  <2> QED
    BY <2>1, <1>1, <1>2, <1>3, <1>6, <1>8, <1>9 DEF Described, Gone
<1>15. FollowedTwice' /\ Housed(disk)' /\ ~Alive'
  BY <1>1, <1>2, <1>9 DEF FollowedTwice, TimesFollowed, Housed, Alive
<1> QED
  BY <1>11, <1>12, <1>13, <1>14, <1>15 DEF IInv

LEMMA CloseKept ==
  ASSUME IInv, Close
  PROVE  IInv'
<1>1. /\ a.pc = "out" /\ t # Closed
      /\ atime' = IF entry.fd # Nothing THEN Restored(entry.fd, t.time) ELSE atime
      /\ t' = Closed /\ entry' = NoFile
      /\ fds' = fds - Descriptors - (IF entry.fd # Nothing THEN 1 ELSE 0)
      /\ a' = [a EXCEPT !.state = IF @ = "fatal" THEN @ ELSE "closed"]
      /\ disk' = disk /\ changed' = changed
  BY DEF Close
<1>2. /\ t \in TreeType /\ disk \in DiskType /\ entry \in DataType /\ a \in CallType
      /\ atime \in [Nodes -> MaybeNode] /\ fds = Descriptors + (IF entry.fd # Nothing THEN 1 ELSE 0)
      /\ Nothing \notin Nodes
  BY <1>1, Lookups DEF IInv, Types, Held
<1>3. Descriptors \in Int
  <2>1. Ways(t) \subseteq 1..Len(t.stack)
    BY DEF Ways
  <2>2. Cardinality(Ways(t)) \in Nat
    BY <2>1, <1>2, FiniteStack
  <2> QED
    BY <2>2 DEF Descriptors, Ways
<1>4. fds' = 0
  BY <1>1, <1>2, <1>3
<1>5. atime' \in [Nodes -> MaybeNode]
  BY <1>1, <1>2 DEF Restored, TreeType, DataType
<1>6. t' \in TreeType
  <2>1. <<>> \in Seq(EntryType) /\ <<>> \in Seq(Nodes)
    OBVIOUS
  <2>2. NoStream \in [on : BOOLEAN, left : SUBSET Nodes] /\ Nothing \in MaybeNode /\ 0 \in MaybeNode
    BY DEF NoStream, MaybeNode, Nothing
  <2> QED
    BY <2>1, <2>2, <1>1 DEF Closed, TreeType
<1>7. a' \in CallType /\ a'.state \in {"closed", "fatal"} /\ a'.pc = "out"
  BY <1>1, <1>2 DEF CallType
<1>8. entry' \in DataType /\ Described(t)' /\ Sound(entry)'
  BY <1>1 DEF Described, Sound, NoFile, DataType, MaybeNode, RegionType
<1>9. Types'
  BY <1>1, <1>4, <1>5, <1>6, <1>7, <1>8 DEF IInv, Types
<1>10. Held'
  BY <1>1, <1>4, <1>7 DEF Held
<1>11. FollowedTwice'
  <2>1. ASSUME NEW link \in Nodes PROVE TimesFollowed(t, link)' = {}
    <3>1. DOMAIN t'.stack = {}
      BY <1>1 DEF Closed
    <3> QED
      BY <3>1 DEF TimesFollowed
  <2> QED
    BY <2>1, FS_EmptySet DEF FollowedTwice
<1>12. Housed(disk)' /\ ~Alive'
  BY <1>1 DEF IInv, Housed, Alive
<1> QED
  BY <1>8, <1>9, <1>10, <1>11, <1>12 DEF IInv

(* Others change the disk.                                                 *)
LEMMA OthersKept ==
  ASSUME IInv, Others
  PROVE  IInv'
<1>1. a.state \in {"header", "data"}
  BY DEF Others, Vanish, Appear, Resize, Alter
<1>2. /\ Alive /\ Walking /\ t # Closed
  BY <1>1, Living
<1>3. Types /\ Housed(disk) /\ Described(t) /\ Sound(entry) /\ Held /\ FollowedTwice
      /\ Shape(t) /\ Placed(t) /\ NoCircle(t) /\ Visiting(t, a.pc) /\ Descendable(t)
      /\ (t.restore => Timed(t))
  BY <1>2 DEF IInv, Walking
<1>4. PICK n \in Nodes : AltersObject(n)
  BY <1>2, <1>3, OthersStep
<1>5. /\ t \in TreeType /\ t' \in TreeType /\ t'.d.on = t.d.on /\ t'.working_dir = t.working_dir
      /\ t'.stack = t.stack /\ t'.restore = t.restore /\ ((t' = Closed) <=> (t = Closed))
      /\ a' = a /\ entry' = entry /\ atime' = atime /\ fds' = fds
  BY <1>3, <1>4 DEF AltersObject, Types
<1>6. Shape(t)' /\ Placed(t)' /\ NoCircle(t)'
  BY <1>3, <1>4, AlteredWalk
<1>7. Visiting(t, a.pc)' /\ Descendable(t)' /\ (t.restore /\ Timed(t) => Timed(t)')
  BY <1>3, <1>4, AlteredVisit
<1>8. Described(t)' /\ Sound(entry)' /\ Types'
  BY <1>3, <1>4, AlteredData
<1>9. Housed(disk)'
  BY <1>3, <1>4, AlteredObject
<1>10. Held'
  <2>1. Descriptors' = Descriptors
    BY <1>5 DEF Descriptors
  <2> QED
    BY <2>1, <1>2, <1>3, <1>5 DEF Held
<1>11. FollowedTwice'
  BY <1>3, <1>5 DEF FollowedTwice, TimesFollowed
<1>12. Walking'
  BY <1>3, <1>5, <1>6, <1>7 DEF Walking
<1> QED
  BY <1>8, <1>9, <1>10, <1>11, <1>12 DEF IInv

-----------------------------------------------------------------------------
(* The theorems.                                                           *)

LEMMA IInvInit == Init => IInv
<1> SUFFICES ASSUME Init PROVE IInv
  OBVIOUS
<1>1. PICK mode \in Modes, restore \in Restores : t = Reopened(mode, restore)
  BY DEF Init
<1>2. /\ disk \in Disks /\ atime = [n \in Nodes |-> n] /\ fds = 2
      /\ a = [state |-> "header", pc |-> "out", delayed |-> FALSE, reply |-> "ok"]
      /\ entry = NoFile /\ changed = {}
  BY DEF Init
<1>3. disk \in DiskType /\ Housed(disk)
  BY <1>2, DisksAssumption
<1>4. Cwd \in Nodes /\ Top \in Nodes /\ Nothing \notin Nodes /\ 0 \in MaybeNode /\ Nothing \in MaybeNode
      /\ Cwd \in MaybeNode /\ Nothing = 0
  BY <1>3, Lookups, NodesAssumption DEF MaybeNode, Nothing
<1>5. mode \in {"P", "L", "H"} /\ restore \in BOOLEAN
  BY OptionsAssumption
<1> DEFINE e == [TreeEntry(Top, 0, Nothing, FALSE, 0, 0) EXCEPT !.needs = {"visit"}]
<1>7. t = [stack |-> <<e>>, current |-> 0, d |-> NoStream, visit |-> "none", path |-> <<>>,
           dirname_length |-> 0, depth |-> 0, working_dir |-> Cwd, lst |-> Nothing,
           st |-> Nothing, descend |-> FALSE, time |-> 0, symlink_mode |-> mode,
           restore |-> restore]
  BY <1>1 DEF Reopened, Closed
<1>8. e \in EntryType
  BY <1>4 DEF EntryType, TreeEntry
<1>9. e.parent = 0 /\ e.ino = Nothing /\ e.needs = {"visit"} /\ e.dirname_length = 0
      /\ e.symlink_parent = Nothing
  BY DEF TreeEntry
<1> HIDE DEF e
<1>10. <<e>> \in Seq(EntryType) /\ Len(<<e>>) = 1 /\ <<e>>[1] = e /\ <<>> \in Seq(Nodes)
       /\ Len(<<>>) = 0
  BY <1>8
<1>11. NoStream \in [on : BOOLEAN, left : SUBSET Nodes] /\ ~NoStream.on
  BY DEF NoStream
<1>12. t \in TreeType
  BY <1>4, <1>5, <1>7, <1>10, <1>11 DEF TreeType
<1>13. /\ t.stack = <<e>> /\ t.current = 0 /\ t.d = NoStream /\ t.visit = "none"
       /\ t.path = <<>> /\ t.dirname_length = 0 /\ t.working_dir = Cwd /\ ~t.descend
  BY <1>7
<1>14. Len(t.stack) = 1 /\ t.stack[1] = e /\ Len(t.path) = 0
  BY <1>10, <1>13
<1>15. atime \in [Nodes -> MaybeNode] /\ \A n \in Nodes : atime[n] = n
  BY <1>2 DEF MaybeNode
<1>16. a \in CallType /\ a.pc = "out" /\ a.state = "header" /\ entry \in DataType
       /\ entry.fd = Nothing /\ entry.size = 0 /\ entry.eof
  BY <1>2 DEF CallType, NoFile, DataType, MaybeNode, RegionType
<1>17. Types
  BY <1>2, <1>3, <1>12, <1>15, <1>16 DEF Types
<1>18. Ways(t) = {}
  BY <1>9, <1>14 DEF Ways
<1>19. fds = Descriptors
  <2>1. Descriptors = 2 + (IF t.d.on THEN 1 ELSE 0) + Cardinality(Ways(t))
    BY DEF Descriptors, Ways
  <2>2. Cardinality(Ways(t)) = 0
    BY <1>18, FS_EmptySet
  <2> QED
    BY <2>1, <2>2, <1>2, <1>11, <1>13
<1>20. t # Closed
  BY <1>4, <1>13 DEF Closed
<1>21. Held
  BY <1>2, <1>4, <1>13, <1>16, <1>19, <1>20 DEF Held
<1>22. Described(t) /\ Sound(entry)
  BY <1>2, <1>16 DEF Described, Sound
<1>23. FollowedTwice
  <2>1. ASSUME NEW link \in Nodes PROVE TimesFollowed(t, link) = {}
    <3>1. DOMAIN t.stack = 1..1
      BY <1>12, <1>14 DEF TreeType
    <3> QED
      BY <3>1, <1>9, <1>14 DEF TimesFollowed
  <2> QED
    BY <2>1, FS_EmptySet DEF FollowedTwice
<1>24. Shape(t)
  <2>1. Bottom(t)
    BY <1>9, <1>14 DEF Bottom
  <2>2. Current(t)
    BY <1>9, <1>11, <1>13, <1>14 DEF Current, Dir
  <2>3. 2..Len(t.stack) = {}
    BY <1>14
  <2> QED
    BY <2>1, <2>2, <2>3 DEF Shape
<1>25. Placed(t) /\ NoCircle(t) /\ Dated(t)
  BY <1>14 DEF Placed, NoCircle, Dated
<1>26. Visiting(t, a.pc) /\ Descendable(t) /\ Remembered(t)
  BY <1>11, <1>13, <1>16 DEF Visiting, Open, Descendable, Remembered
<1>27. Timed(t)
  BY <1>15, <1>25, <1>26 DEF Timed, Untouched
<1> QED
  BY <1>3, <1>17, <1>21, <1>22, <1>23, <1>24, <1>25, <1>26, <1>27 DEF IInv, Walking

(* Nothing moves.                                                          *)
LEMMA Stutters ==
  ASSUME IInv, UNCHANGED vars
  PROVE  IInv'
<1>1. /\ disk' = disk /\ atime' = atime /\ t' = t /\ fds' = fds /\ a' = a /\ entry' = entry
      /\ changed' = changed
  BY DEF vars
<1>2. Types' /\ Housed(disk)' /\ Sound(entry)' /\ (Alive' <=> Alive)
  BY <1>1 DEF IInv, Types, Housed, Sound, Alive
<1>3. Held'
  BY <1>1 DEF IInv, Held, Descriptors
<1>4. Described(t)'
  BY <1>1 DEF IInv, Described, Subject, Gone
<1>5. FollowedTwice'
  BY <1>1 DEF IInv, FollowedTwice, TimesFollowed
<1>6. Walking <=> Walking'
  <2>1. Shape(t)' <=> Shape(t)
    BY <1>1
  <2>2. (Placed(t)' <=> Placed(t)) /\ (NoCircle(t)' <=> NoCircle(t))
    BY <1>1 DEF Placed, NoCircle, LeadsTo, Gone
  <2>3. (Visiting(t, a.pc)' <=> Visiting(t, a.pc)) /\ (Descendable(t)' <=> Descendable(t))
    BY <1>1 DEF Visiting, Descendable, Chosen, IsDirectory, LeadsTo, Gone
  <2>4. Timed(t)' <=> Timed(t)
    BY <1>1 DEF Timed, Untouched, Dated, Remembered, Chosen, IsDirectory
  <2> QED
    BY <2>1, <2>2, <2>3, <2>4, <1>1 DEF Walking
<1> QED
  BY <1>2, <1>3, <1>4, <1>5, <1>6 DEF IInv

LEMMA WalksKept ==
  ASSUME IInv, Walks
  PROVE  IInv'
<1>1. a.pc = "next"
  BY DEF Walks
<1>2. t \in TreeType /\ Shape(t) /\ t.working_dir \in Nodes /\ disk \in DiskType
  BY <1>1, UnderWay DEF IInv, Types, Walking
<1>3. CASE FirstVisit /\ Goes("regular")
  BY <1>1, <1>3, FirstVisitKept
<1>4. CASE Descent /\ Goes("postdescent")
  BY <1>1, <1>4, DescentKept
<1>5. CASE DescentFails /\ Goes("error")
  BY <1>1, <1>5, DescentFailsKept
<1>6. CASE OpenStream /\ Goes("more")
  BY <1>1, <1>6, OpenStreamKept
<1>7. CASE \E n \in Nodes : ReadDirectory(n) /\ Goes("regular")
  BY <1>1, <1>7, ReadDirectoryKept
<1>8. CASE StreamEnds /\ Goes("more")
  BY <1>1, <1>8, StreamEndsKept
<1>9. CASE Ascent /\ Goes("postascent")
  <2>1. Needs("ascent") /\ ~Needs("open") /\ Ascended("postascent")
    BY <1>9 DEF Ascent
  <2>2. ~t.d.on /\ Len(t.stack) >= 2 /\ Entered(t, Len(t.stack)) /\ t.current = Len(t.stack)
    BY <2>1, <1>2, TopEntered
  <2> QED
    BY <2>1, <2>2, <1>1, <1>9, AscendedKept
<1>10. CASE Dead /\ Goes("more")
  BY <1>1, <1>10, DeadKept
<1> QED
  BY <1>3, <1>4, <1>5, <1>6, <1>7, <1>8, <1>9, <1>10 DEF Walks

LEMMA WalkFailsKept ==
  ASSUME IInv, WalkFails
  PROVE  IInv'
<1>1. a.pc = "next"
  BY DEF WalkFails
<1>2. t \in TreeType /\ Shape(t) /\ t.working_dir \in Nodes /\ disk \in DiskType
  BY <1>1, UnderWay DEF IInv, Types, Walking
<1>3. CASE NoStreamOpens /\ Goes(t'.visit)
  <2>1. Needs("open") /\ ~Needs("descent") /\ (Ascended("error") \/ NoWayBack)
    BY <1>3 DEF NoStreamOpens
  <2>2. ~t.d.on /\ Len(t.stack) >= 2 /\ Entered(t, Len(t.stack)) /\ t.current = Len(t.stack)
        /\ t.dirname_length <= Len(t.path)
    BY <2>1, <1>2, TopEntered
  <2>3. Len(t.stack) >= 1
    BY <2>2, <1>2, Entries
  <2>4. CASE Ascended("error")
    <3>1. t'.visit = "error"
      BY <2>2, <2>3, <2>4, <1>2, AscendedStep
    <3> QED
      BY <3>1, <2>2, <2>4, <1>1, <1>3, AscendedKept
  <2>5. CASE NoWayBack
    <3>1. t'.visit = "fatal"
      BY <2>2, <2>3, <2>5, <1>2, NoWayBackStep
    <3> QED
      BY <3>1, <2>1, <2>5, <1>1, <1>3, NoWayBackKept
  <2> QED
    BY <2>1, <2>4, <2>5
<1>4. CASE ReadDirectoryFails /\ Goes("error")
  BY <1>1, <1>4, ReadDirectoryFailsKept
<1>5. CASE AscentFails /\ Goes("fatal")
  BY <1>1, <1>5, NoWayBackKept DEF AscentFails
<1> QED
  BY <1>3, <1>4, <1>5 DEF WalkFails, DuplicateFails, OpenStreamFails

LEMMA IInvNext ==
  ASSUME Movable = {}, IInv, [Next]_vars
  PROVE  IInv'
<1>1. CASE NextHeader
  BY <1>1, NextHeaderKept
<1>2. CASE Walks
  BY <1>2, WalksKept
<1>3. CASE WalkEnds
  BY <1>3, WalkEndsKept
<1>4. CASE Missing
  BY <1>4, MissingKept
<1>5. CASE PathExcluded
  BY <1>5, PathExcludedKept
<1>6. CASE EntryExcluded
  BY <1>6, EntryExcludedKept
<1>7. CASE Visit
  BY <1>7, VisitKept
<1>8. CASE WalkFails
  BY <1>8, WalkFailsKept
<1>9. CASE Descend
  BY <1>9, DescendKept
<1>10. CASE OpenFile
  BY <1>10, OpenFileKept
<1>11. CASE DataBlock
  BY <1>11, DataBlockKept
<1>12. CASE Close
  BY <1>12, CloseKept
<1>13. CASE Others
  BY <1>13, OthersKept
<1>14. CASE UNCHANGED vars
  BY <1>14, Stutters
<1>15. CASE DataFails
  BY <1>15, DataFailsKept
<1>16. ~Displace
  BY DEF Displace
<1> QED
  BY <1>1, <1>2, <1>3, <1>4, <1>5, <1>6, <1>7, <1>8, <1>9, <1>10, <1>11, <1>12, <1>13, <1>14,
     <1>15, <1>16 DEF Next, Call

LEMMA IInvAlways ==
  ASSUME Movable = {}
  PROVE  Spec => []IInv
<1>1. IInv /\ [Next]_vars => IInv'
  BY IInvNext
<1> QED
  BY <1>1, IInvInit, PTL DEF Spec

(* Whatever the tree and whatever others remove, make or resize in it, as  *)
(* long as they move no directory and put no link in its place, the        *)
(* directory the walk works in is the one its path names when it looks at  *)
(* an entry, and no link is followed a third time below itself, however    *)
(* many of them lead in circles (tree_next, tree_ascend, tree_pop,         *)
(* tree_target_is_same_as_parent).                                         *)
THEOREM WalkIsWhereItsPathIs ==
  ASSUME Movable = {}
  PROVE  Spec => []PathIsTrue
<1>1. IInv => PathIsTrue
  <2>1. SUFFICES ASSUME IInv PROVE PathIsTrue
    OBVIOUS
  <2>2. ASSUME a.pc = "visit", Still(t.path) PROVE Place(Front(t.path)) = t.working_dir
    <3>1. Walking
      BY <2>1, <2>2, UnderWay
    <3> QED
      BY <2>1, <2>2, <3>1, PathLeads DEF IInv, Types, Walking
  <2>3. ASSUME NEW n \in Nodes PROVE Cardinality(Followed(n)) <= 2
    <3>1. Followed(n) = TimesFollowed(t, n)
      BY DEF Followed, TimesFollowed
    <3> QED
      BY <2>1, <3>1 DEF IInv, FollowedTwice
  <2> QED
    BY <2>2, <2>3 DEF PathIsTrue
<1> QED
  BY <1>1, IInvAlways, PTL

LostAreDuplicates == leaked # 0 => "fdopendir" \in Faults

(* What nothing knows of any more are duplicates that fdopendir refused.   *)
LEMMA LostAreDuplicatesAlways == Spec => []LostAreDuplicates
<1>1. Init => LostAreDuplicates
  BY DEF Init, LostAreDuplicates
<1>2. LostAreDuplicates /\ [Next]_vars => LostAreDuplicates'
  BY DEF LostAreDuplicates, Next, vars, NextHeader, Call, WalkFails, DuplicateFails
<1> QED
  BY <1>1, <1>2, PTL DEF Spec

(* As long as others move no directory and put no link in its place, no    *)
(* descriptor that the walk knows of is kept or closed twice on any way    *)
(* through tree and failures, none is lost but the duplicates that         *)
(* fdopendir refused, and a walk that ended has put back every access time *)
(* (tree_descent, tree_ascend, tree_close, close_and_restore_time).        *)
THEOREM WalkLeavesNoTrace ==
  ASSUME Movable = {}
  PROVE  Spec => []NoTrace
<1>1. IInv /\ LostAreDuplicates => NoTrace
  <2>1. SUFFICES ASSUME IInv, LostAreDuplicates, a.state = "eof", t # Closed
                 PROVE  fds = 2 /\ (t.restore => \A n \in Nodes : atime[n] = n)
    BY DEF IInv, Held, NoTrace, LostAreDuplicates
  <2>2. t.stack = <<>> /\ a.pc = "out" /\ Alive /\ Walking /\ entry = NoFile /\ t \in TreeType
    BY <2>1 DEF IInv, Held, Alive, Described, Types
  <2>3. entry.fd = Nothing /\ Len(t.stack) = 0
    BY <2>2 DEF NoFile
  <2>4. ~t.d.on
    BY <2>2, <2>3 DEF Walking, Shape, Current
  <2>5. Ways(t) = {}
    BY <2>3 DEF Ways
  <2>6. fds = 2
    BY <2>1, <2>3, <2>4, <2>5, FS_EmptySet DEF IInv, Held, Descriptors, Ways
  <2>7. ASSUME t.restore, NEW n \in Nodes PROVE atime[n] = n
    <3>1. ~Owed(t, n)
      BY <2>3 DEF Owed
    <3>2. Nothing \notin Nodes
      BY <2>1, Lookups DEF IInv, Types
    <3> QED
      BY <2>2, <2>3, <2>7, <3>1, <3>2 DEF Walking, Timed, Untouched
  <2> QED
    BY <2>6, <2>7
<1> QED
  BY <1>1, IInvAlways, LostAreDuplicatesAlways, PTL

(* The blocks a client gets are the bytes of the file, each at its offset, *)
(* with no data region left out, whatever others do to other files; when   *)
(* they resize this one, the end may come early (setup_sparse,             *)
(* _archive_read_data_block).                                              *)
THEOREM BlocksAreTheFile ==
  ASSUME Movable = {}
  PROVE  Spec => []DataComplete
<1>1. IInv => DataComplete
  <2>1. SUFFICES ASSUME IInv, entry.size > 0
                 PROVE  /\ \A g \in entry.got : g.at = g.byte
                        /\ entry.remaining = entry.size - entry.total
                        /\ entry.cur \in DOMAIN entry.list
                        /\ entry.eof /\ Subject(t) \notin changed => entry.total = entry.size
                        /\ \A k \in DOMAIN entry.list : k < entry.cur => entry.list[k].length = 0
    BY DEF DataComplete
  <2>2. entry \in DataType /\ DOMAIN entry.list = 1..Len(entry.list) /\ entry.cur \in Nat
    BY <2>1 DEF IInv, Types, DataType
  <2>3. \A k \in 1..(entry.cur - 1) : entry.list[k].length = 0
    BY <2>1 DEF IInv, Sound
  <2>4. \A k \in DOMAIN entry.list : k < entry.cur => entry.list[k].length = 0
    BY <2>2, <2>3
  <2>5. entry.eof /\ Subject(t) \notin changed => entry.total = entry.size
    BY <2>1 DEF IInv, Described
  <2> QED
    BY <2>1, <2>2, <2>4, <2>5 DEF IInv, Sound
<1> QED
  BY <1>1, IInvAlways, PTL

-----------------------------------------------------------------------------
(***************************************************************************)
(* No path is reported twice.  The paths below what is still to be read    *)
(* were not reported, and nothing that is still to be read is there twice. *)
(***************************************************************************)

(* The path q leads through the name n in the directory that the first d   *)
(* names of the walk's path lead to.                                       *)
Through(w, d, n, q) == Len(q) >= d + 1 /\ (\A i \in 1..d : q[i] = w.path[i]) /\ q[d + 1] = n

(* What was not there yet and may still come.                              *)
Unborn(n) == disk.kind[n] = "none" /\ n \notin changed

(* A directory on the stack that was not read yet.                         *)
Waits(w, k) == w.stack[k].needs \in {Whole, {"open", "ascent"}}

Born(w, s) ==
  /\ s \subseteq Seq(Nodes)
  /\ \A q \in s : \A i \in 1..Len(q) : ~Unborn(q[i])
  /\ \A i \in 1..w.dirname_length : ~Unborn(w.path[i])

(* Below a directory that waits nothing was reported; it is not one the    *)
(* walk is in, and it waits once.                                          *)
Fresh(w, k, s) ==
  LET e == w.stack[k]   d == e.dirname_length IN
  /\ Waits(w, k) => \A q \in s : Through(w, d, e.name, q) => Len(q) = d + 1
  /\ ~Entered(w, k) =>
       /\ d < w.dirname_length => w.path[d + 1] # e.name
       /\ \A j \in 2..(k - 1) :
            ~Entered(w, j) /\ w.stack[j].dirname_length = d => w.stack[j].name # e.name

(* No directory with this name waits in the one that is read.              *)
Strange(w, n) ==
  \A k \in 2..Len(w.stack) :
    ~Entered(w, k) /\ w.stack[k].dirname_length = w.dirname_length => w.stack[k].name # n

Unread(w, s) ==
  w.d.on => \A n \in w.d.left :
              Strange(w, n) /\ \A q \in s : ~Through(w, w.dirname_length, n, q)

Unseen(w, pc, s) ==
  Open(w, pc) =>
    LET n == Last(w.path) IN
    /\ Strange(w, n) /\ (w.d.on => n \notin w.d.left)
    /\ \A q \in s : Through(w, w.dirname_length, n, q) =>
                      pc # "visit" /\ Len(q) = w.dirname_length + 1

Once(w, pc, s) ==
  /\ Born(w, s) /\ (\A k \in 2..Len(w.stack) : Fresh(w, k, s))
  /\ Unread(w, s) /\ Unseen(w, pc, s)
  /\ Len(w.stack) >= 1 /\ "visit" \in w.stack[1].needs => s = {}

OnceInv == ~again /\ (Alive => Once(t, a.pc, seen))

(* An entry was found on the way the walk is on.                           *)
LEMMA OnTheWay ==
  ASSUME NEW w \in TreeType, Shape(w), NEW k \in 2..Len(w.stack)
  PROVE  /\ w.stack[k] \in EntryType /\ w.dirname_length \in Nat
         /\ w.stack[k].dirname_length \in Nat
         /\ w.stack[k].dirname_length <= w.dirname_length
         /\ ~Entered(w, k) /\ k < w.current => w.stack[k].dirname_length < w.dirname_length
<1> DEFINE e == w.stack[k]
           p == e.parent
<1>1. /\ Len(w.stack) \in Nat /\ k \in Nat /\ k >= 2 /\ Linked(w, k) /\ Current(w)
      /\ e \in EntryType /\ w.dirname_length \in Nat /\ w.current \in Nat
  BY Entries DEF Shape, TreeType
<1>2. e.dirname_length \in Nat /\ p \in 1..(k - 1) /\ Entered(w, p) /\ p \in Nat
      /\ e.dirname_length = IF p <= 1 THEN 0 ELSE w.stack[p].dirname_length + 1
  BY <1>1 DEF Linked, EntryType
<1>3. p >= 2 => /\ Linked(w, p) /\ w.stack[p].dirname_length \in Nat
                /\ w.stack[p].dirname_length < w.dirname_length
  <2>1. ASSUME p >= 2 PROVE p \in 2..Len(w.stack)
    BY <2>1, <1>1, <1>2
  <2>2. ASSUME p >= 2 PROVE w.stack[p] \in EntryType /\ Linked(w, p)
    BY <2>1, <2>2, Entries DEF Shape
  <2> QED
    BY <2>2, <1>2 DEF Linked, EntryType
<1>4. e.dirname_length <= w.dirname_length
  BY <1>1, <1>2, <1>3
<1>5. ASSUME ~Entered(w, k), k < w.current PROVE e.dirname_length < w.dirname_length
  <2>1. w.current \in 2..Len(w.stack) /\ Entered(w, w.current)
    BY <1>1, <1>5 DEF Current
  <2>2. Linked(w, w.current) /\ w.stack[w.current] \in EntryType
    BY <2>1, Entries DEF Shape
  <2>3. w.dirname_length = w.stack[w.current].dirname_length + 1
        /\ w.stack[w.current].dirname_length \in Nat
    BY <2>1, <2>2, <1>1 DEF Current, EntryType
  <2>4. p >= 2 => w.stack[p].dirname_length < w.stack[w.current].dirname_length
    <3>1. p >= 2 => p \in 2..(w.current - 1)
      BY <1>1, <1>2, <1>5
    <3>2. \A j \in 2..(w.current - 1) :
            Entered(w, j) => w.stack[j].dirname_length < w.stack[w.current].dirname_length
      BY <2>2 DEF Linked
    <3> HIDE DEF p
    <3> QED
      BY <3>1, <3>2, <1>2, Zenon
  <2>5. CASE p <= 1
    BY <2>3, <2>5, <1>2
  <2>6. CASE p >= 2
    <3> DEFINE x == w.stack[p].dirname_length
               y == w.stack[w.current].dirname_length
    <3>1. x \in Nat /\ y \in Nat /\ x < y /\ w.dirname_length = y + 1 /\ e.dirname_length = x + 1
      BY <2>3, <2>4, <2>6, <1>2, <1>3
    <3> HIDE DEF x, y
    <3> QED
      BY <3>1
  <2> QED
    BY <2>5, <2>6, <1>2
<1> QED
  BY <1>1, <1>2, <1>4, <1>5

LEMMA SameWay ==
  ASSUME NEW w, NEW x, NEW m \in Nat, \A i \in 1..m : x.path[i] = w.path[i], NEW d \in Nat, d <= m
  PROVE  \A n, q : Through(x, d, n, q) <=> Through(w, d, n, q)
<1>1. \A i \in 1..d : i \in 1..m
  OBVIOUS
<1> QED
  BY <1>1 DEF Through

(* What is left of the stack is as it was.                                 *)
LEMMA LeftFresh ==
  ASSUME NEW w \in TreeType, NEW x \in TreeType, Shape(w), NEW s,
         \A k \in 2..Len(w.stack) : Fresh(w, k, s), Len(x.stack) <= Len(w.stack),
         \A k \in 2..Len(x.stack) :
           /\ x.stack[k].name = w.stack[k].name
           /\ x.stack[k].dirname_length = w.stack[k].dirname_length
           /\ Waits(x, k) => Waits(w, k)
           /\ ~Entered(x, k) => ~Entered(w, k),
         x.dirname_length <= w.dirname_length,
         \A i \in 1..w.dirname_length : x.path[i] = w.path[i]
  PROVE  /\ \A k \in 2..Len(x.stack) : Fresh(x, k, s)
         /\ Born(w, s) => Born(x, s)
         /\ x.dirname_length = w.dirname_length => \A n : Strange(w, n) => Strange(x, n)
<1>1. Len(w.stack) \in Nat /\ Len(x.stack) \in Nat /\ w.dirname_length \in Nat
      /\ x.dirname_length \in Nat
  BY Entries DEF TreeType
<1>2. \A k \in 2..Len(x.stack) : k \in 2..Len(w.stack)
  BY <1>1
<1>3. ASSUME NEW k \in 2..Len(x.stack) PROVE Fresh(x, k, s)
  <2> DEFINE d == w.stack[k].dirname_length
             n == w.stack[k].name
  <2>1. /\ x.stack[k].name = n /\ x.stack[k].dirname_length = d
        /\ (Waits(x, k) => Waits(w, k)) /\ (~Entered(x, k) => ~Entered(w, k))
    OBVIOUS
  <2>2. d \in Nat /\ d <= w.dirname_length /\ Fresh(w, k, s) /\ k \in 2..Len(w.stack)
    BY <1>2, OnTheWay
  <2>3. \A q : Through(x, d, n, q) <=> Through(w, d, n, q)
    BY <2>2, <1>1, SameWay
  <2>4. Waits(w, k) => \A q \in s : Through(w, d, n, q) => Len(q) = d + 1
    BY <2>2 DEF Fresh
  <2>5. ~Entered(w, k) => (d < w.dirname_length => w.path[d + 1] # n)
    BY <2>2 DEF Fresh
  <2>6. ~Entered(w, k) => \A j \in 2..(k - 1) :
          ~Entered(w, j) /\ w.stack[j].dirname_length = d => w.stack[j].name # n
    BY <2>2 DEF Fresh
  <2>7. \A j \in 2..(k - 1) : j \in 2..Len(x.stack)
    BY <1>1
  <2> HIDE DEF d, n
  <2>8. d < x.dirname_length => d < w.dirname_length /\ x.path[d + 1] = w.path[d + 1]
    BY <2>2, <1>1
  <2>9. ~Entered(x, k) => \A j \in 2..(k - 1) :
          ~Entered(x, j) /\ x.stack[j].dirname_length = d => x.stack[j].name # n
    BY <2>1, <2>6, <2>7
  <2> QED
    BY <2>1, <2>3, <2>4, <2>5, <2>8, <2>9 DEF Fresh
<1>4. Born(w, s) => Born(x, s)
  BY <1>1 DEF Born
<1>5. ASSUME x.dirname_length = w.dirname_length, NEW n, Strange(w, n) PROVE Strange(x, n)
  BY <1>2, <1>5 DEF Strange
<1> QED
  BY <1>3, <1>4, <1>5

(* Nothing is looked at now, and no directory is new.                      *)
LEMMA LowerOnce ==
  ASSUME NEW w \in TreeType, NEW x \in TreeType, Shape(w), NEW s, NEW pc, Once(w, pc, s),
         Len(x.stack) <= Len(w.stack),
         \A k \in 2..Len(x.stack) :
           /\ x.stack[k].name = w.stack[k].name
           /\ x.stack[k].dirname_length = w.stack[k].dirname_length
           /\ Waits(x, k) => Waits(w, k)
           /\ ~Entered(x, k) => ~Entered(w, k),
         Len(x.stack) >= 1 => ("visit" \in x.stack[1].needs => "visit" \in w.stack[1].needs),
         x.dirname_length <= w.dirname_length,
         \A i \in 1..w.dirname_length : x.path[i] = w.path[i],
         x.d.on => w.d.on /\ x.d.left = w.d.left /\ x.dirname_length = w.dirname_length,
         ~x.descend, NEW xpc, xpc # "visit"
  PROVE  Once(x, xpc, s)
<1>1. Len(w.stack) \in Nat /\ Len(x.stack) \in Nat /\ w.dirname_length \in Nat
  BY Entries DEF TreeType
<1>2. /\ \A k \in 2..Len(w.stack) : Fresh(w, k, s)
      /\ Born(w, s) /\ Unread(w, s)
      /\ (Len(w.stack) >= 1 /\ "visit" \in w.stack[1].needs => s = {})
  BY DEF Once
<1>3. /\ \A k \in 2..Len(x.stack) : Fresh(x, k, s)
      /\ Born(x, s)
      /\ x.dirname_length = w.dirname_length => \A n : Strange(w, n) => Strange(x, n)
  BY <1>2, LeftFresh
<1>4. Unread(x, s)
  <2>1. SUFFICES ASSUME x.d.on, NEW n \in x.d.left
                 PROVE  Strange(x, n) /\ \A q \in s : ~Through(x, x.dirname_length, n, q)
    BY DEF Unread
  <2>2. /\ Strange(w, n) /\ (\A q \in s : ~Through(w, w.dirname_length, n, q))
        /\ x.dirname_length = w.dirname_length
    <3>1. w.d.on /\ n \in w.d.left /\ x.dirname_length = w.dirname_length
      BY <2>1
    <3> QED
      BY <3>1, <1>2, Zenon DEF Unread
  <2>3. \A q : Through(x, w.dirname_length, n, q) <=> Through(w, w.dirname_length, n, q)
    <3>1. w.dirname_length <= w.dirname_length
      BY <1>1
    <3> QED
      BY <3>1, <1>1, SameWay, Zenon
  <2> QED
    BY <2>2, <2>3, <1>3
<1>5. Unseen(x, xpc, s)
  BY DEF Unseen, Open
<1>6. Len(x.stack) >= 1 /\ "visit" \in x.stack[1].needs => s = {}
  BY <1>1, <1>2
<1> QED
  BY <1>3, <1>4, <1>5, <1>6 DEF Once

(* The same of a step that takes the top of the stack off.                 *)
LEMMA PoppedOnce ==
  ASSUME NEW w \in TreeType, NEW x \in TreeType, Shape(w), NEW s, NEW pc, Once(w, pc, s),
         Len(w.stack) >= 1, Len(x.stack) = Len(w.stack) - 1,
         \A k \in 1..(Len(w.stack) - 1) : x.stack[k] = w.stack[k],
         x.dirname_length = w.stack[Len(w.stack)].dirname_length,
         \A i \in 1..w.dirname_length : x.path[i] = w.path[i],
         ~x.d.on, ~x.descend, NEW xpc, xpc # "visit"
  PROVE  Once(x, xpc, s)
<1>1. Len(w.stack) \in Nat /\ w.dirname_length \in Nat
  BY Entries DEF TreeType
<1>2. x.dirname_length <= w.dirname_length
  <2>1. CASE Len(w.stack) = 1
    BY <2>1, <1>1 DEF Shape, Bottom
  <2>2. CASE Len(w.stack) >= 2
    <3>1. Len(w.stack) \in 2..Len(w.stack)
      BY <2>2, <1>1
    <3> QED
      BY <3>1, OnTheWay
  <2>3. Len(w.stack) = 1 \/ Len(w.stack) >= 2
    <3> DEFINE m == Len(w.stack)
    <3>1. m \in Nat /\ m >= 1
      BY <1>1
    <3> HIDE DEF m
    <3>2. m = 1 \/ m >= 2
      BY <3>1
    <3> QED
      BY <3>2 DEF m
  <2> QED
    BY <2>1, <2>2, <2>3, Zenon
<1>3. \A k \in 2..Len(x.stack) :
           /\ x.stack[k].name = w.stack[k].name
           /\ x.stack[k].dirname_length = w.stack[k].dirname_length
           /\ Waits(x, k) => Waits(w, k)
           /\ ~Entered(x, k) => ~Entered(w, k)
  BY <1>1 DEF Waits, Entered
<1>4. Len(x.stack) >= 1 => ("visit" \in x.stack[1].needs => "visit" \in w.stack[1].needs)
  BY <1>1
<1>5. Len(x.stack) <= Len(w.stack)
  BY <1>1
<1> QED
  BY <1>2, <1>3, <1>4, <1>5, LowerOnce

(* The same of a step that leaves the stack as it is.                      *)
LEMMA StillOnce ==
  ASSUME NEW w \in TreeType, NEW x \in TreeType, Shape(w), NEW s, NEW pc, Once(w, pc, s),
         x.stack = w.stack, x.dirname_length = w.dirname_length,
         \A i \in 1..w.dirname_length : x.path[i] = w.path[i],
         x.d.on => w.d.on /\ x.d.left = w.d.left, ~x.descend, NEW xpc, xpc # "visit"
  PROVE  Once(x, xpc, s)
<1>1. Len(w.stack) \in Nat /\ w.dirname_length \in Nat
  BY Entries DEF TreeType
<1>2. \A k \in 2..Len(x.stack) :
           /\ x.stack[k].name = w.stack[k].name
           /\ x.stack[k].dirname_length = w.stack[k].dirname_length
           /\ Waits(x, k) => Waits(w, k)
           /\ ~Entered(x, k) => ~Entered(w, k)
  BY DEF Waits, Entered
<1> QED
  BY <1>1, <1>2, LowerOnce

(* A directory that waited is read: nothing below it was reported.         *)
LEMMA OpenStreamOnce ==
  ASSUME t \in TreeType, Shape(t), ~t.descend, NEW pc, Once(t, pc, seen), OpenStream,
         NEW xpc, xpc # "visit"
  PROVE  Once(t', xpc, seen)
<1> DEFINE n == Len(t.stack)
           x == t'
           d == t.stack[n].dirname_length
<1>0. n \in Nat /\ n >= 1 /\ t.dirname_length \in Nat
  BY Entries DEF OpenStream, Needs, TreeType
<1>1. /\ x \in TreeType /\ ~t.d.on /\ "open" \in t.stack[n].needs
      /\ "descent" \notin t.stack[n].needs
      /\ ~x.descend /\ x.current = t.current /\ x.dirname_length = t.dirname_length
      /\ x.path = t.path /\ Len(x.stack) = n /\ \A k \in 1..(n - 1) : x.stack[k] = t.stack[k]
      /\ x.stack[n] = [t.stack[n] EXCEPT !.needs = @ \ {"open"}]
  BY <1>0, OpenStreamStep
<1>2. n >= 2 /\ t.stack[n].needs = {"open", "ascent"} /\ Entered(t, n) /\ t.current = n
  BY <1>0, <1>1, TopFacts
<1>3. n \in 2..n /\ t.stack[n] \in EntryType /\ d \in Nat
  BY <1>0, <1>2, OnTheWay
<1>4. /\ x.stack[n].name = t.stack[n].name /\ x.stack[n].dirname_length = d
      /\ x.stack[n].needs = {"ascent"}
  BY <1>1, <1>2, <1>3 DEF EntryType
<1>5. t.dirname_length = d + 1 /\ d < t.dirname_length /\ t.path[d + 1] = t.stack[n].name
  BY <1>0, <1>2, <1>3 DEF Shape, Current, Linked
<1> HIDE DEF x
<1>6. \A k \in 2..n :
           /\ x.stack[k].name = t.stack[k].name
           /\ x.stack[k].dirname_length = t.stack[k].dirname_length
           /\ Waits(x, k) => Waits(t, k)
           /\ ~Entered(x, k) => ~Entered(t, k)
  <2>1. SUFFICES ASSUME NEW k \in 2..n
                 PROVE  /\ x.stack[k].name = t.stack[k].name
                        /\ x.stack[k].dirname_length = t.stack[k].dirname_length
                        /\ Waits(x, k) => Waits(t, k)
                        /\ ~Entered(x, k) => ~Entered(t, k)
    OBVIOUS
  <2>2. CASE k = n
    BY <2>2, <1>2, <1>4 DEF Waits, Entered
  <2>3. CASE k # n
    <3>1. k \in 1..(n - 1)
      BY <2>3, <1>0
    <3> QED
      BY <3>1, <1>1, Zenon DEF Waits, Entered
  <2> QED
    BY <2>2, <2>3
<1>7. /\ \A k \in 2..Len(t.stack) : Fresh(t, k, seen)
      /\ Born(t, seen)
      /\ (Len(t.stack) >= 1 /\ "visit" \in t.stack[1].needs => seen = {})
  BY DEF Once
<1>8. (\A k \in 2..Len(x.stack) : Fresh(x, k, seen)) /\ Born(x, seen)
  <2>1. /\ Len(x.stack) <= Len(t.stack) /\ x.dirname_length <= t.dirname_length
        /\ \A i \in 1..t.dirname_length : x.path[i] = t.path[i]
    BY <1>0, <1>1
  <2>2. Len(x.stack) = n
    BY <1>1
  <2> QED
    BY <2>1, <2>2, <1>1, <1>6, <1>7, LeftFresh
<1>9. ASSUME NEW m PROVE Strange(x, m)
  <2>1. SUFFICES ASSUME NEW k \in 2..n, ~Entered(x, k), x.stack[k].dirname_length = x.dirname_length
                 PROVE  FALSE
    BY <1>1 DEF Strange
  <2>2. ~Entered(t, k) /\ t.stack[k].dirname_length = t.dirname_length
    BY <2>1, <1>1, <1>6
  <2>3. k < t.current
    BY <2>2, <1>0, <1>2
  <2>4. t.stack[k].dirname_length < t.dirname_length
    BY <2>2, <2>3, OnTheWay
  <2> QED
    BY <2>2, <2>4, <1>0
<1>10. ASSUME NEW m, NEW q \in seen, Through(x, x.dirname_length, m, q) PROVE FALSE
  <2>1. /\ Len(q) >= t.dirname_length + 1 /\ \A i \in 1..t.dirname_length : q[i] = t.path[i]
    BY <1>1, <1>10 DEF Through
  <2>2. Through(t, d, t.stack[n].name, q)
    BY <2>1, <1>3, <1>5 DEF Through
  <2>3. Len(q) = d + 1
    BY <2>2, <1>2, <1>3, <1>7 DEF Fresh, Waits
  <2> QED
    BY <2>1, <2>3, <1>3, <1>5
<1>11. Unread(x, seen)
  BY <1>9, <1>10 DEF Unread
<1>12. Unseen(x, xpc, seen)
  BY <1>1 DEF Unseen, Open
<1>13. Len(x.stack) >= 1 /\ "visit" \in x.stack[1].needs => seen = {}
  BY <1>0, <1>1, <1>2, <1>7
<1> QED
  BY <1>8, <1>11, <1>12, <1>13 DEF Once, x

(* The walk goes down into the directory at the top of the stack: those    *)
(* that wait beside it have other names.                                   *)
LEMMA DescentOnce ==
  ASSUME t \in TreeType, disk \in DiskType, t.working_dir \in Nodes, Shape(t), ~t.descend,
         NEW pc, Once(t, pc, seen), Descent, NEW xpc, xpc # "visit"
  PROVE  Once(t', xpc, seen)
<1> DEFINE n == Len(t.stack)
           x == t'
           c == t.stack[n].name
           l == t.dirname_length
<1>0. n \in Nat /\ n >= 1 /\ l \in Nat /\ l <= Len(t.path)
  BY Entries DEF Descent, Needs, TreeType, Shape, Current
<1>1. /\ x \in TreeType /\ ~t.d.on /\ "descent" \in t.stack[n].needs
      /\ IsDirectory(Follow(Object(t.working_dir, c)))
      /\ x.d = t.d /\ ~x.descend /\ x.dirname_length = l + 1
      /\ Len(x.stack) = n /\ \A k \in 1..(n - 1) : x.stack[k] = t.stack[k]
      /\ x.stack[n] = [t.stack[n] EXCEPT !.needs = @ \ {"descent"},
                          !.symlink_parent = IF t.stack[n].link THEN t.working_dir ELSE @]
      /\ x.path[l + 1] = c
      /\ \A i \in 1..l : x.path[i] = t.path[i]
  BY <1>0, DescentStep
<1>2. /\ n >= 2 /\ t.stack[n].needs = Whole /\ ~Entered(t, n)
      /\ t.stack[n].parent = t.current /\ t.current \in 1..(n - 1)
  BY <1>0, <1>1, TopFacts
<1>3. n \in 2..n /\ t.stack[n] \in EntryType /\ c \in Nodes
  BY <1>0, <1>2, OnTheWay DEF EntryType
<1>4. t.stack[n].dirname_length = l
  BY <1>0, <1>2, <1>3 DEF Shape, Current, Linked
<1>5. x.stack[n].name = c /\ x.stack[n].dirname_length = l /\ Entered(x, n)
  BY <1>1, <1>3, <1>4 DEF EntryType, Entered
<1>6. ~Unborn(c)
  BY <1>1 DEF Object, Follow, IsDirectory, Unborn
<1>7. /\ \A k \in 2..n : Fresh(t, k, seen)
      /\ Born(t, seen)
      /\ (n >= 1 /\ "visit" \in t.stack[1].needs => seen = {})
  BY DEF Once
<1> HIDE DEF x, c, l
<1>a. \A i \in 1..l : x.path[i] = t.path[i]
  BY <1>1
<1>b. ASSUME NEW d \in Nat, d <= l PROVE \A m, q : Through(x, d, m, q) <=> Through(t, d, m, q)
  BY <1>0, <1>a, <1>b, SameWay
<1>8. ASSUME NEW k \in 2..n PROVE Fresh(x, k, seen)
  <2>1. CASE k = n
    <3>1. Waits(t, n)
      BY <1>2 DEF Waits
    <3>2. \A q \in seen : Through(t, l, c, q) => Len(q) = l + 1
      BY <3>1, <1>3, <1>4, <1>7, Zenon DEF Fresh, c
    <3>3. \A q : Through(x, l, c, q) <=> Through(t, l, c, q)
      BY <1>0, <1>b
    <3> QED
      BY <2>1, <3>2, <3>3, <1>5 DEF Fresh
  <2>2. CASE k # n
    <3> DEFINE e == t.stack[k]
               d == e.dirname_length
    <3>1. k \in 1..(n - 1) /\ k \in 2..(n - 1)
      BY <2>2, <1>0
    <3>2. x.stack[k] = e
      BY <3>1, <1>1
    <3>3. (Waits(x, k) <=> Waits(t, k)) /\ (Entered(x, k) <=> Entered(t, k))
      BY <3>2 DEF Waits, Entered
    <3>4. d \in Nat /\ d <= l /\ Fresh(t, k, seen) /\ Fresh(t, n, seen)
      BY <1>3, <1>7, OnTheWay DEF l
    <3>5. \A q : Through(x, d, e.name, q) <=> Through(t, d, e.name, q)
      BY <3>4, <1>b
    <3>6. Waits(t, k) => \A q \in seen : Through(t, d, e.name, q) => Len(q) = d + 1
      BY <3>4 DEF Fresh
    <3>7. ~Entered(t, k) /\ d = l => e.name # c
      BY <3>1, <3>4, <1>2, <1>4 DEF Fresh, c
    <3>8. ~Entered(t, k) /\ d < l => x.path[d + 1] # e.name
      <4>1. ~Entered(t, k) /\ d < l => t.path[d + 1] # e.name
        BY <3>4 DEF Fresh, l
      <4>2. d < l => x.path[d + 1] = t.path[d + 1]
        <5> HIDE DEF d
        <5>1. d < l => d + 1 \in 1..l
          BY <3>4, <1>0
        <5> QED
          BY <5>1, <1>a
      <4> QED
        BY <4>1, <4>2
    <3>9. ~Entered(t, k) => x.path[d + 1] # e.name
      BY <3>4, <3>7, <3>8, <1>0, <1>1
    <3>10. ~Entered(t, k) => \A j \in 2..(k - 1) :
             ~Entered(t, j) /\ t.stack[j].dirname_length = d => t.stack[j].name # e.name
      BY <3>4 DEF Fresh
    <3>11. \A j \in 2..(k - 1) : x.stack[j] = t.stack[j] /\ (Entered(x, j) <=> Entered(t, j))
      <4>1. \A j \in 2..(k - 1) : j \in 1..(n - 1)
        BY <1>0
      <4> QED
        BY <4>1, <1>1 DEF Entered
    <3> HIDE DEF d, e
    <3> QED
      BY <3>2, <3>3, <3>5, <3>6, <3>9, <3>10, <3>11 DEF Fresh, d
  <2> QED
    BY <2>1, <2>2
<1>9. Born(x, seen)
  <2>1. \A i \in 1..(l + 1) : i \in 1..l \/ i = l + 1
    BY <1>0
  <2>2. /\ seen \subseteq Seq(Nodes) /\ \A q \in seen : \A i \in 1..Len(q) : ~Unborn(q[i])
        /\ \A i \in 1..l : ~Unborn(t.path[i])
    BY <1>7 DEF Born, l
  <2>3. \A i \in 1..(l + 1) : ~Unborn(x.path[i])
    BY <2>1, <2>2, <1>1, <1>6
  <2> QED
    BY <2>2, <2>3, <1>1 DEF Born
<1>10. Unread(x, seen) /\ Unseen(x, xpc, seen)
  BY <1>1 DEF Unread, Unseen, Open
<1>11. Len(x.stack) >= 1 /\ "visit" \in x.stack[1].needs => seen = {}
  <2>1. n >= 1 /\ 1 \in 1..(n - 1)
    BY <1>0, <1>2
  <2>2. x.stack[1] = t.stack[1]
    BY <2>1, <1>1
  <2> QED
    BY <2>1, <2>2, <1>7
<1> QED
  BY <1>1, <1>8, <1>9, <1>10, <1>11 DEF Once, x

LEMMA FirstVisitOnce ==
  ASSUME Types, Shape(t), NEW pc, Once(t, pc, seen), FirstVisit, NEW xpc
  PROVE  Once(t', xpc, seen)
<1>1. /\ t \in TreeType /\ t.dirname_length <= Len(t.path) /\ Len(t'.stack) = 1
      /\ t'.dirname_length = 0 /\ Len(t.stack) = 1
  BY FirstVisitShape DEF Types, Shape, Current
<1>2. ~t'.d.on /\ "visit" \in t.stack[1].needs
  BY <1>1, FirstVisitStep
<1>3. seen = {}
  BY <1>1, <1>2 DEF Once
<1>4. Born(t', seen) /\ Unread(t', seen)
  BY <1>1, <1>2, <1>3 DEF Born, Unread
<1>5. \A n : Strange(t', n)
  BY <1>1 DEF Strange
<1>6. Unseen(t', xpc, seen)
  BY <1>2, <1>3, <1>5 DEF Unseen
<1>7. \A k \in 2..Len(t'.stack) : Fresh(t', k, seen)
  BY <1>1
<1> QED
  BY <1>3, <1>4, <1>6, <1>7 DEF Once

LEMMA ReadDirectoryOnce ==
  ASSUME t \in TreeType, Shape(t), NEW pc, Once(t, pc, seen), NEW n \in Nodes, ReadDirectory(n),
         NEW xpc
  PROVE  Once(t', xpc, seen)
<1> DEFINE x == t'
           l == t.dirname_length
<1>1. /\ x \in TreeType /\ t.d.on /\ n \in t.d.left /\ x.d.left = t.d.left \ {n}
      /\ x.stack = t.stack /\ x.dirname_length = l
      /\ Len(x.path) = l + 1 /\ x.path[l + 1] = n
      /\ \A i \in 1..l : x.path[i] = t.path[i]
  BY ReadStep DEF Shape, Current
<1>2. l \in Nat /\ Len(t.stack) \in Nat
  BY Entries DEF TreeType
<1>3. Last(x.path) = n
  BY <1>1, <1>2 DEF Last
<1> HIDE DEF x, l
<1>4. /\ \A k \in 2..Len(t.stack) : Fresh(t, k, seen)
      /\ Born(t, seen) /\ Unread(t, seen)
      /\ (Len(t.stack) >= 1 /\ "visit" \in t.stack[1].needs => seen = {})
  BY DEF Once
<1>5. /\ \A k \in 2..Len(x.stack) : Fresh(x, k, seen)
      /\ Born(x, seen) /\ \A m : Strange(t, m) => Strange(x, m)
  <2>1. \A k \in 2..Len(x.stack) :
           /\ x.stack[k].name = t.stack[k].name
           /\ x.stack[k].dirname_length = t.stack[k].dirname_length
           /\ Waits(x, k) => Waits(t, k)
           /\ ~Entered(x, k) => ~Entered(t, k)
    BY <1>1 DEF Waits, Entered
  <2>2. /\ Len(x.stack) <= Len(t.stack) /\ x.dirname_length <= t.dirname_length
        /\ x.dirname_length = t.dirname_length
        /\ \A i \in 1..t.dirname_length : x.path[i] = t.path[i]
    BY <1>1, <1>2 DEF l
  <2> QED
    BY <2>1, <2>2, <1>1, <1>4, LeftFresh
<1>6. \A m, q : Through(x, l, m, q) <=> Through(t, l, m, q)
  <2>1. l <= l /\ \A i \in 1..l : x.path[i] = t.path[i]
    BY <1>1, <1>2
  <2> QED
    BY <2>1, <1>2, SameWay, Zenon
<1>7. \A m \in t.d.left : Strange(x, m) /\ \A q \in seen : ~Through(x, l, m, q)
  BY <1>1, <1>4, <1>5, <1>6 DEF Unread, l
<1>8. Unread(x, seen) /\ Unseen(x, xpc, seen)
  BY <1>1, <1>3, <1>7 DEF Unread, Unseen
<1> QED
  BY <1>1, <1>4, <1>5, <1>8 DEF Once, x

(* The walk is where it was and looks at nothing else.                     *)
LEMMA SameOnce ==
  ASSUME NEW w, NEW x, NEW s, NEW pc, Once(w, pc, s), NEW xpc,
         x.stack = w.stack, x.path = w.path, x.dirname_length = w.dirname_length, x.d = w.d,
         Open(x, xpc) => Open(w, pc) /\ (xpc = "visit" => pc = "visit")
  PROVE  Once(x, xpc, s)
<1>1. (\A k : Fresh(x, k, s) <=> Fresh(w, k, s)) /\ (Born(x, s) <=> Born(w, s))
  BY DEF Fresh, Born, Waits, Entered, Through
<1>2. \A n : Strange(x, n) <=> Strange(w, n)
  BY DEF Strange, Entered
<1>3. \A d, n, q : Through(x, d, n, q) <=> Through(w, d, n, q)
  BY DEF Through
<1>4. Unread(w, s) => Unread(x, s)
  BY <1>2, <1>3 DEF Unread
<1>5. Unseen(w, pc, s) => Unseen(x, xpc, s)
  BY <1>2, <1>3 DEF Unseen
<1> QED
  BY <1>1, <1>4, <1>5 DEF Once

(* What is reported: nothing that waits lies above it.                     *)
LEMMA ReportedOnce ==
  ASSUME NEW w \in TreeType, NEW x \in TreeType, Shape(w), Visiting(w, "visit"),
         NEW s, Once(w, "visit", s), ~Unborn(Last(w.path)),
         x.stack = w.stack, x.path = w.path, x.dirname_length = w.dirname_length, x.d = w.d,
         NEW xpc, xpc # "visit"
  PROVE  Once(x, xpc, s \cup {w.path}) /\ w.path \notin s
<1> DEFINE p == w.path
           l == w.dirname_length
           n == Last(p)
           r == s \cup {p}
<1>1. /\ Open(w, "visit") /\ p \in Seq(Nodes) /\ l \in Nat /\ Len(p) = l + 1
      /\ w.d.on \/ (w.current = 1 /\ Len(w.stack) = 1)
  BY DEF Visiting, Open, TreeType
<1>2. n = p[l + 1] /\ Len(w.stack) \in Nat
  BY <1>1, Entries DEF Last
<1>3. /\ \A k \in 2..Len(w.stack) : Fresh(w, k, s)
      /\ Born(w, s) /\ Unread(w, s) /\ Strange(w, n) /\ (w.d.on => n \notin w.d.left)
      /\ \A q \in s : ~Through(w, l, n, q)
  BY <1>1 DEF Once, Unseen
<1>4. Through(w, l, n, p)
  BY <1>1, <1>2 DEF Through
<1>5. p \notin s
  BY <1>3, <1>4
<1> HIDE DEF p, l, n, r
<1>6. ASSUME NEW k \in 2..Len(w.stack) PROVE Fresh(w, k, r)
  <2> DEFINE d == w.stack[k].dirname_length
             m == w.stack[k].name
  <2>1. d \in Nat /\ d <= l /\ Fresh(w, k, s)
    BY <1>3, OnTheWay DEF l
  <2>2. ASSUME Waits(w, k), Through(w, d, m, p) PROVE Len(p) = d + 1
    <3>1. CASE d = l
      BY <3>1, <1>1
    <3>2. CASE d < l
      <4>1. p[d + 1] = m
        BY <2>2 DEF Through
      <4>2. ~Entered(w, k) => w.path[d + 1] # m
        BY <2>1, <3>2 DEF Fresh, l
      <4>3. Entered(w, k)
        BY <4>1, <4>2 DEF p
      <4>4. Linked(w, k) /\ w.stack[k].needs = {"open", "ascent"}
        BY <4>3, <2>2 DEF Shape, Waits, Whole, Entered
      <4>5. k = w.current
        BY <4>4 DEF Linked
      <4>6. w.d.on => w.stack[k].needs = {"ascent"}
        BY <4>5 DEF Shape, Current
      <4>7. "open" \notin {"ascent"}
        OBVIOUS
      <4>8. ~w.d.on
        BY <4>4, <4>6, <4>7
      <4>9. k = 1
        BY <4>5, <4>8, <1>1
      <4> QED
        BY <4>9, 1 \notin 2..Len(w.stack)
    <3> QED
      BY <3>1, <3>2, <2>1, <1>1
  <2>3. \A q \in s : Waits(w, k) /\ Through(w, d, m, q) => Len(q) = d + 1
    BY <2>1 DEF Fresh
  <2>4. \A q \in r : q \in s \/ q = p
    BY DEF r
  <2>5. ~Entered(w, k) =>
          /\ d < w.dirname_length => w.path[d + 1] # m
          /\ \A j \in 2..(k - 1) :
               ~Entered(w, j) /\ w.stack[j].dirname_length = d => w.stack[j].name # m
    BY <2>1 DEF Fresh
  <2> QED
    BY <2>2, <2>3, <2>4, <2>5 DEF Fresh
<1>7. Born(w, r)
  <2>1. /\ s \subseteq Seq(Nodes) /\ \A q \in s : \A i \in 1..Len(q) : ~Unborn(q[i])
        /\ \A i \in 1..l : ~Unborn(p[i])
    BY <1>3 DEF Born, l, p
  <2>2. \A i \in 1..Len(p) : i \in 1..l \/ i = l + 1
    BY <1>1
  <2>3. ~Unborn(p[l + 1])
    BY <1>2 DEF n, p
  <2>4. \A i \in 1..Len(p) : ~Unborn(p[i])
    BY <2>1, <2>2, <2>3
  <2> QED
    BY <2>1, <2>4, <1>1 DEF Born, r, l, p
<1>8. Unread(w, r)
  <2>1. SUFFICES ASSUME w.d.on, NEW m \in w.d.left
                 PROVE  Strange(w, m) /\ \A q \in r : ~Through(w, l, m, q)
    BY DEF Unread, l
  <2>2. Strange(w, m) /\ \A q \in s : ~Through(w, l, m, q)
    BY <2>1, <1>3 DEF Unread, l
  <2>3. ~Through(w, l, m, p)
    BY <2>1, <1>2, <1>3 DEF Through
  <2> QED
    BY <2>2, <2>3 DEF r
<1>9. \A q \in r : Through(w, l, n, q) => Len(q) = l + 1
  BY <1>1, <1>3 DEF r
<1>10. Len(w.stack) >= 1 => "visit" \notin w.stack[1].needs
  <2>1. Len(w.stack) >= 1 /\ "visit" \in w.stack[1].needs => w.current = 0
    BY DEF Shape, Current
  <2>2. w.d.on => w.current >= 2
    BY DEF Shape, Current
  <2> QED
    BY <2>1, <2>2, <1>1
<1>11. /\ \A k : Fresh(x, k, r) <=> Fresh(w, k, r)
       /\ Born(x, r) <=> Born(w, r)
       /\ \A i : Strange(x, i) <=> Strange(w, i)
       /\ \A d, i, q : Through(x, d, i, q) <=> Through(w, d, i, q)
  BY DEF Fresh, Born, Waits, Entered, Through, Strange
<1>12. Unread(x, r)
  BY <1>8, <1>11 DEF Unread
<1>13. Unseen(x, xpc, r)
  BY <1>3, <1>9, <1>11 DEF Unseen, n, l, p
<1>14. \A k \in 2..Len(x.stack) : Fresh(x, k, r)
  BY <1>6, <1>11
<1>15. Born(x, r) /\ ~(Len(x.stack) >= 1 /\ "visit" \in x.stack[1].needs)
  BY <1>7, <1>10, <1>11
<1>16. Once(x, xpc, r)
  BY <1>12, <1>13, <1>14, <1>15 DEF Once
<1> QED
  BY <1>5, <1>16 DEF r, p

(* What is pushed waits in the directory that is read, for the first time. *)
LEMMA PushedOnce ==
  ASSUME NEW w \in TreeType, Shape(w), NEW pc, Visiting(w, pc), Open(w, pc),
         NEW s, Once(w, pc, s), NEW xpc, xpc # "visit"
  PROVE  Once(Pushed(w), xpc, s)
<1> DEFINE x == Pushed(w)
           N == Len(w.stack) + 1
           l == w.dirname_length
           n == Last(w.path)
<1>1. /\ l \in Nat /\ Len(w.path) = l + 1 /\ Len(w.stack) \in Nat
      /\ w.d.on \/ (w.current = 1 /\ Len(w.stack) = 1)
  BY Entries DEF Visiting, TreeType
<1>2. w.current \in 1..Len(w.stack) /\ ~(Len(w.stack) >= 1 /\ "visit" \in w.stack[1].needs)
  <2>1. Current(w) /\ w.current \in Nat
    BY DEF Shape, TreeType
  <2>2. w.current >= 1
    BY <2>1, <1>1 DEF Current
  <2> QED
    BY <2>1, <2>2, <1>1 DEF Current
<1>3. w.path # <<>>
  BY <1>1
<1>4. /\ x \in TreeType /\ x.d = w.d /\ ~x.descend /\ x.dirname_length = l /\ x.path = w.path
      /\ Len(x.stack) = N /\ \A k \in 1..(N - 1) : x.stack[k] = w.stack[k]
      /\ x.stack[N].name = n /\ x.stack[N].needs = Whole /\ x.stack[N].dirname_length = l
  BY <1>2, <1>3, PushedUp
<1>5. /\ \A k \in 2..Len(w.stack) : Fresh(w, k, s)
      /\ Born(w, s) /\ Unread(w, s) /\ Strange(w, n) /\ (w.d.on => n \notin w.d.left)
      /\ \A q \in s : Through(w, l, n, q) => Len(q) = l + 1
  BY DEF Once, Unseen
<1> HIDE DEF x, n, l
<1>6. \A d, m, q : Through(x, d, m, q) <=> Through(w, d, m, q)
  BY <1>4 DEF Through
<1>7. \A k \in 2..(N - 1) : x.stack[k] = w.stack[k] /\ (Entered(x, k) <=> Entered(w, k))
                            /\ (Waits(x, k) <=> Waits(w, k))
  BY <1>1, <1>4 DEF Entered, Waits
<1>8. ASSUME NEW k \in 2..N PROVE Fresh(x, k, s)
  <2>1. CASE k = N
    <3>1. \A q \in s : Through(x, l, n, q) => Len(q) = l + 1
      BY <1>5, <1>6
    <3>2. ~(l < l)
      BY <1>1
    <3>3. \A j \in 2..(N - 1) : ~Entered(x, j) /\ x.stack[j].dirname_length = l => x.stack[j].name # n
      BY <1>1, <1>5, <1>7 DEF Strange, l
    <3> QED
      BY <2>1, <3>1, <3>2, <3>3, <1>4 DEF Fresh
  <2>2. CASE k # N
    <3>1. k \in 2..(N - 1) /\ k \in 2..Len(w.stack) /\ \A j \in 2..(k - 1) : j \in 2..(N - 1)
      BY <2>2, <1>1
    <3>2. Fresh(w, k, s)
      BY <3>1, <1>5
    <3> QED
      BY <3>1, <3>2, <1>4, <1>6, <1>7 DEF Fresh, l
  <2> QED
    BY <2>1, <2>2
<1>9. Born(x, s)
  BY <1>4, <1>5 DEF Born, l
<1>10. ASSUME NEW m, Strange(w, m), m # n PROVE Strange(x, m)
  <2>1. \A k \in 2..N : k \in 2..(N - 1) \/ k = N
    BY <1>1
  <2>2. \A k \in 2..(N - 1) : k \in 2..Len(w.stack)
    BY <1>1
  <2>3. \A k \in 2..(N - 1) : ~Entered(x, k) /\ x.stack[k].dirname_length = l => x.stack[k].name # m
    BY <2>2, <1>7, <1>10 DEF Strange, l
  <2> QED
    BY <2>1, <2>3, <1>4, <1>10 DEF Strange
<1>11. Unread(x, s)
  <2>1. SUFFICES ASSUME w.d.on, NEW m \in w.d.left
                 PROVE  Strange(x, m) /\ \A q \in s : ~Through(x, l, m, q)
    BY <1>4 DEF Unread
  <2>2. Strange(w, m) /\ \A q \in s : ~Through(w, l, m, q)
    BY <2>1, <1>5 DEF Unread, l
  <2> QED
    BY <2>1, <2>2, <1>5, <1>6, <1>10
<1>12. Unseen(x, xpc, s)
  BY <1>4 DEF Unseen, Open
<1>13. ~(Len(x.stack) >= 1 /\ "visit" \in x.stack[1].needs)
  <2>1. 1 \in 1..(N - 1) /\ Len(w.stack) >= 1
    BY <1>1, <1>2
  <2> QED
    BY <2>1, <1>2, <1>4
<1> QED
  BY <1>4, <1>8, <1>9, <1>11, <1>12, <1>13 DEF Once, x

(* A step that leaves the disk alone.                                      *)
LEMMA OnceStep ==
  ASSUME disk' = disk, changed' = changed, ~again',
         t' # Closed /\ a'.state # "fatal" => Once(t', a'.pc, seen')
  PROVE  OnceInv'
<1>1. \A n : Unborn(n)' <=> Unborn(n)
  BY DEF Unborn
<1>2. Born(t', seen') => Born(t, seen)'
  BY <1>1 DEF Born
<1>3. Once(t', a'.pc, seen') => Once(t, a.pc, seen)'
  BY <1>2 DEF Once, Fresh, Unread, Unseen, Strange
<1> QED
  BY <1>3 DEF OnceInv, Alive

(* What comes is new to the walk: it was not reported and nothing waits    *)
(* under its name.                                                         *)
LEMMA OthersOnce ==
  ASSUME IInv, OnceInv, Others
  PROVE  OnceInv'
<1>1. a.state \in {"header", "data"} /\ seen' = seen /\ again' = again
  BY DEF Others, Vanish, Appear, Resize, Alter
<1>2. Alive /\ Walking /\ t # Closed
  BY <1>1, Living
<1>3. Types /\ Housed(disk) /\ Shape(t) /\ Placed(t) /\ Visiting(t, a.pc)
      /\ t \in TreeType /\ disk \in DiskType
  BY <1>2 DEF IInv, Walking, Types
<1>4. PICK n \in Nodes : AltersObject(n)
  BY <1>2, <1>3, OthersStep
<1>5. /\ n \notin changed /\ changed' = changed \cup {n}
      /\ \A m \in Nodes : m # n => disk'.kind[m] = disk.kind[m]
      /\ t'.d.on = t.d.on /\ t'.stack = t.stack /\ t'.path = t.path /\ t'.visit = t.visit
      /\ t'.descend = t.descend /\ t'.dirname_length = t.dirname_length /\ a' = a
      /\ t.d.on => \A m \in t'.d.left : m \in t.d.left \/ (m = n /\ disk.kind[n] = "none")
  BY <1>4 DEF AltersObject
<1>6. /\ \A k \in 2..Len(t.stack) : Fresh(t, k, seen)
      /\ Born(t, seen) /\ Unread(t, seen) /\ Unseen(t, a.pc, seen)
      /\ (Len(t.stack) >= 1 /\ "visit" \in t.stack[1].needs => seen = {})
  BY <1>2 DEF OnceInv, Once
<1>7. \A m \in Nodes : Unborn(m)' => Unborn(m)
  BY <1>5 DEF Unborn
<1>8. t.dirname_length \in Nat /\ t.path \in Seq(Nodes) /\ t.dirname_length <= Len(t.path)
  BY <1>3 DEF TreeType, Shape, Current
<1>9. Born(t, seen)'
  <2>1. \A i \in 1..t.dirname_length : t.path[i] \in Nodes
    BY <1>8
  <2>2. \A q \in seen : \A i \in 1..Len(q) : q[i] \in Nodes
    BY <1>6 DEF Born
  <2> QED
    BY <2>1, <2>2, <1>1, <1>5, <1>6, <1>7 DEF Born
<1>10. ASSUME Unborn(n)
       PROVE  Strange(t, n) /\ \A q \in seen : ~Through(t, t.dirname_length, n, q)
  <2>1. ASSUME NEW k \in 2..Len(t.stack) PROVE t.stack[k].name # n
    <3>1. LeadsTo(t.stack[k].name, Dir(t, t.stack[k].parent), t.stack[k].ino)
      BY <1>3 DEF Placed
    <3> QED
      BY <3>1, <1>10 DEF LeadsTo, Gone, Unborn
  <2>2. ASSUME NEW q \in seen, Through(t, t.dirname_length, n, q) PROVE FALSE
    <3>1. t.dirname_length + 1 \in 1..Len(q) /\ q[t.dirname_length + 1] = n
      BY <2>2, <1>6, <1>8 DEF Through, Born
    <3> QED
      BY <3>1, <1>6, <1>10 DEF Born
  <2> QED
    BY <2>1, <2>2 DEF Strange
<1>11. ASSUME t.d.on, NEW m \in t'.d.left, m \notin t.d.left PROVE m = n /\ Unborn(n)
  BY <1>5, <1>11 DEF Unborn
<1>12. /\ \A m : Strange(t', m) <=> Strange(t, m)
       /\ \A d, m, q : Through(t', d, m, q) <=> Through(t, d, m, q)
       /\ \A k, s : Fresh(t', k, s) <=> Fresh(t, k, s)
  BY <1>5 DEF Strange, Through, Fresh, Waits, Entered
<1>13. Unread(t', seen)
  <2>1. ASSUME t.d.on, NEW m \in t'.d.left
        PROVE  Strange(t, m) /\ \A q \in seen : ~Through(t, t.dirname_length, m, q)
    <3>1. CASE m \in t.d.left
      BY <2>1, <3>1, <1>6, Zenon DEF Unread
    <3>2. CASE m \notin t.d.left
      BY <2>1, <3>2, <1>10, <1>11
    <3> QED
      BY <3>1, <3>2
  <2> QED
    BY <2>1, <1>5, <1>12 DEF Unread
<1>14. Unseen(t', a.pc, seen)
  <2>1. ASSUME Open(t, a.pc), t.d.on PROVE Last(t.path) \notin t'.d.left
    <3>1. Last(t.path) \notin t.d.left
      BY <2>1, <1>6 DEF Unseen
    <3>2. disk.kind[Last(t.path)] # "none" \/ Gone(Last(t.path))
      BY <2>1, <1>3 DEF Visiting
    <3> QED
      BY <2>1, <3>1, <3>2, <1>11 DEF Unborn, Gone
  <2>2. Open(t', a.pc) <=> Open(t, a.pc)
    BY <1>5 DEF Open
  <2> QED
    BY <2>1, <2>2, <1>5, <1>6, <1>12 DEF Unseen
<1>15. Once(t, a.pc, seen)'
  <2>2. (\A k \in 2..Len(t.stack) : Fresh(t, k, seen))'
    BY <1>1, <1>5, <1>6, <1>12
  <2>3. Unread(t, seen)' /\ Unseen(t, a.pc, seen)'
    BY <1>1, <1>5, <1>13, <1>14
  <2>4. (Len(t.stack) >= 1 /\ "visit" \in t.stack[1].needs => seen = {})'
    BY <1>1, <1>5, <1>6
  <2> QED
    BY <2>2, <2>3, <2>4, <1>9 DEF Once
<1>16. again' = again /\ ~again
  BY <1>1 DEF OnceInv
<1> QED
  BY <1>15, <1>16 DEF OnceInv

LEMMA WalksOnce ==
  ASSUME IInv, OnceInv, Walks
  PROVE  OnceInv'
<1>1. a.pc = "next" /\ Types /\ t \in TreeType /\ disk \in DiskType /\ a \in CallType
  BY DEF Walks, IInv, Types
<1>2. /\ Alive /\ Shape(t) /\ ~t.descend /\ t.working_dir \in Nodes
      /\ t.dirname_length <= Len(t.path) /\ t.dirname_length \in Nat
  BY <1>1, UnderWay DEF Walking, Shape, Current, TreeType
<1>3. Once(t, "next", seen) /\ ~again
  BY <1>1, <1>2 DEF OnceInv
<1>4. disk' = disk /\ changed' = changed /\ seen' = seen /\ again' = again
  BY <1>1, GoesStep DEF Walks
<1>5. Once(t', a'.pc, seen) => OnceInv'
  BY <1>3, <1>4, OnceStep
<1>6. CASE FirstVisit /\ Goes("regular")
  BY <1>1, <1>2, <1>3, <1>5, <1>6, FirstVisitOnce
<1>7. CASE \E n \in Nodes : ReadDirectory(n) /\ Goes("regular")
  BY <1>1, <1>2, <1>3, <1>5, <1>7, ReadDirectoryOnce
<1>9. CASE Descent /\ Goes("postdescent")
  <2>1. a'.pc # "visit"
    BY <1>1, <1>9, GoesStep
  <2> QED
    BY <2>1, <1>1, <1>2, <1>3, <1>5, <1>9, DescentOnce
<1>10. CASE DescentFails /\ Goes("error")
  <2>1. a'.pc # "visit"
    BY <1>1, <1>10, GoesStep
  <2>2. /\ t' \in TreeType /\ Len(t.stack) >= 1 /\ ~t.d.on /\ t'.d = t.d /\ t'.descend = t.descend
        /\ t'.dirname_length = t.stack[Len(t.stack)].dirname_length
        /\ Len(t'.stack) = Len(t.stack) - 1
        /\ \A k \in 1..(Len(t.stack) - 1) : t'.stack[k] = t.stack[k]
        /\ \A i \in 1..t.dirname_length : t'.path[i] = t.path[i]
    BY <1>1, <1>2, <1>10, DescentFailsStep
  <2> QED
    BY <2>1, <2>2, <1>1, <1>2, <1>3, <1>5, PoppedOnce
<1>11. CASE OpenStream /\ Goes("more")
  <2>1. a'.pc # "visit"
    BY <1>1, <1>11, GoesStep
  <2> QED
    BY <2>1, <1>1, <1>2, <1>3, <1>5, <1>11, OpenStreamOnce
<1>12. CASE StreamEnds /\ Goes("more")
  <2>1. a'.pc # "visit"
    BY <1>1, <1>12, GoesStep
  <2>2. t' = [t EXCEPT !.d = NoStream]
    BY <1>12 DEF StreamEnds, EndDirectory
  <2>3. /\ t' \in TreeType /\ t'.stack = t.stack /\ t'.dirname_length = t.dirname_length
        /\ t'.path = t.path /\ ~t'.d.on /\ t'.descend = t.descend
    BY <2>2, <1>1 DEF TreeType, NoStream
  <2> QED
    BY <2>1, <2>3, <1>1, <1>2, <1>3, <1>5, StillOnce
<1>13. CASE Ascent /\ Goes("postascent")
  <2>1. a'.pc # "visit"
    BY <1>1, <1>13, GoesStep
  <2>2. Needs("ascent") /\ ~Needs("open") /\ Ascended("postascent")
    BY <1>13 DEF Ascent
  <2>3. ~t.d.on /\ Len(t.stack) >= 2
    BY <2>2, <1>1, <1>2, TopEntered
  <2>4. Len(t.stack) >= 1
    BY <2>3, <1>1, Entries
  <2>5. /\ t' \in TreeType /\ t'.d = t.d /\ t'.descend = t.descend
        /\ t'.dirname_length = t.stack[Len(t.stack)].dirname_length
        /\ Len(t'.stack) = Len(t.stack) - 1
        /\ \A k \in 1..(Len(t.stack) - 1) : t'.stack[k] = t.stack[k]
        /\ \A i \in 1..t.dirname_length : t'.path[i] = t.path[i]
    BY <2>2, <2>4, <1>1, <1>2, AscendedStep
  <2> QED
    BY <2>1, <2>3, <2>4, <2>5, <1>1, <1>2, <1>3, <1>5, PoppedOnce
<1>14. CASE Dead /\ Goes("more")
  <2>1. a'.pc # "visit"
    BY <1>1, <1>14, GoesStep
  <2>2. /\ t' \in TreeType /\ Len(t.stack) >= 1 /\ ~t.d.on /\ t'.d = t.d /\ t'.descend = t.descend
        /\ t'.dirname_length = t.stack[Len(t.stack)].dirname_length
        /\ Len(t'.stack) = Len(t.stack) - 1
        /\ \A k \in 1..(Len(t.stack) - 1) : t'.stack[k] = t.stack[k]
        /\ \A i \in 1..t.dirname_length : t'.path[i] = t.path[i]
    BY <1>1, <1>2, <1>14, DeadStep
  <2> QED
    BY <2>1, <2>2, <1>1, <1>2, <1>3, <1>5, PoppedOnce
<1> QED
  BY <1>6, <1>7, <1>9, <1>10, <1>11, <1>12, <1>13, <1>14 DEF Walks

LEMMA WalkFailsOnce ==
  ASSUME IInv, OnceInv, WalkFails
  PROVE  OnceInv'
<1>1. a.pc = "next" /\ Types /\ t \in TreeType /\ disk \in DiskType /\ a \in CallType
  BY DEF WalkFails, IInv, Types
<1>2. /\ Alive /\ Shape(t) /\ ~t.descend /\ t.working_dir \in Nodes
      /\ t.dirname_length <= Len(t.path) /\ t.dirname_length \in Nat
  BY <1>1, UnderWay DEF Walking, Shape, Current, TreeType
<1>3. Once(t, "next", seen) /\ ~again
  BY <1>1, <1>2 DEF OnceInv
<1>4. disk' = disk /\ changed' = changed /\ seen' = seen /\ again' = again
  BY <1>1, GoesStep DEF WalkFails
<1>5. a'.state = "fatal" \/ Once(t', a'.pc, seen) => OnceInv'
  BY <1>3, <1>4, OnceStep
<1>6. CASE NoStreamOpens /\ Goes(t'.visit)
  <2>1. Needs("open") /\ ~Needs("descent") /\ (Ascended("error") \/ NoWayBack)
    BY <1>6 DEF NoStreamOpens
  <2>2. ~t.d.on /\ Len(t.stack) >= 2
    BY <2>1, <1>1, <1>2, TopEntered
  <2>3. Len(t.stack) >= 1
    BY <2>2, <1>1, Entries
  <2>4. CASE Ascended("error")
    <3>1. /\ t' \in TreeType /\ t'.d = t.d /\ t'.descend = t.descend /\ t'.visit = "error"
          /\ t'.dirname_length = t.stack[Len(t.stack)].dirname_length
          /\ Len(t'.stack) = Len(t.stack) - 1
          /\ \A k \in 1..(Len(t.stack) - 1) : t'.stack[k] = t.stack[k]
          /\ \A i \in 1..t.dirname_length : t'.path[i] = t.path[i]
      BY <2>3, <2>4, <1>1, <1>2, AscendedStep
    <3>2. a'.pc # "visit"
      BY <3>1, <1>1, <1>6, GoesStep
    <3> QED
      BY <3>1, <3>2, <2>2, <2>3, <1>1, <1>2, <1>3, <1>5, PoppedOnce
  <2>5. CASE NoWayBack
    <3>1. t'.visit = "fatal"
      BY <2>3, <2>5, <1>1, <1>2, NoWayBackStep
    <3> QED
      BY <3>1, <1>1, <1>5, <1>6, GoesStep
  <2> QED
    BY <2>1, <2>4, <2>5
<1>7. CASE ReadDirectoryFails /\ Goes("error")
  <2>1. a'.pc # "visit"
    BY <1>1, <1>7, GoesStep
  <2>2. t' = [t EXCEPT !.d = NoStream, !.visit = "error"]
    BY <1>7 DEF ReadDirectoryFails
  <2>3. /\ t' \in TreeType /\ t'.stack = t.stack /\ t'.dirname_length = t.dirname_length
        /\ t'.path = t.path /\ ~t'.d.on /\ t'.descend = t.descend
    BY <2>2, <1>1 DEF TreeType, NoStream
  <2> QED
    BY <2>1, <2>3, <1>1, <1>2, <1>3, <1>5, StillOnce
<1>8. CASE AscentFails /\ Goes("fatal")
  BY <1>1, <1>5, <1>8, GoesStep
<1> QED
  BY <1>6, <1>7, <1>8 DEF WalkFails, DuplicateFails, OpenStreamFails

LEMMA WalkEndsOnce ==
  ASSUME IInv, OnceInv, WalkEnds
  PROVE  OnceInv'
<1>1. /\ a.pc = "next" /\ t' = [t EXCEPT !.visit = "none"]
      /\ a' = [a EXCEPT !.pc = "out", !.state = "eof", !.reply = "eof"]
      /\ disk' = disk /\ changed' = changed /\ seen' = seen /\ again' = again
  BY DEF WalkEnds
<1>2. /\ Alive /\ Shape(t) /\ ~t.descend /\ t \in TreeType /\ a \in CallType
  BY <1>1, UnderWay DEF Walking, IInv, Types
<1>3. /\ t' \in TreeType /\ t'.stack = t.stack /\ t'.dirname_length = t.dirname_length
      /\ t'.path = t.path /\ t'.d = t.d /\ t'.descend = t.descend
  BY <1>1, <1>2 DEF TreeType
<1>4. a'.pc # "visit"
  BY <1>1, <1>2 DEF CallType
<1>5. Once(t, a.pc, seen) /\ ~again
  BY <1>2 DEF OnceInv
<1>6. Once(t', a'.pc, seen)
  BY <1>2, <1>3, <1>4, <1>5, StillOnce
<1> QED
  BY <1>1, <1>5, <1>6, OnceStep

LEMMA MissingOnce ==
  ASSUME IInv, OnceInv, Missing
  PROVE  OnceInv'
<1>1. /\ a.pc = "visit" /\ t' = t
      /\ a' = IF t.depth > 0 THEN [a EXCEPT !.pc = "next", !.delayed = TRUE]
              ELSE [a EXCEPT !.pc = "out", !.reply = "failed"]
      /\ disk' = disk /\ changed' = changed /\ seen' = seen /\ again' = again
  BY DEF Missing
<1>2. /\ Alive /\ Shape(t) /\ ~t.descend /\ t \in TreeType /\ a \in CallType
  BY <1>1, UnderWay DEF Walking, IInv, Types
<1>3. a'.pc # "visit"
  BY <1>1, <1>2 DEF CallType
<1>4. Once(t, a.pc, seen) /\ ~again
  BY <1>2 DEF OnceInv
<1>5. Once(t', a'.pc, seen)
  BY <1>1, <1>2, <1>3, <1>4, StillOnce
<1> QED
  BY <1>1, <1>4, <1>5, OnceStep

LEMMA PathExcludedOnce ==
  ASSUME IInv, OnceInv, PathExcluded
  PROVE  OnceInv'
<1>1. /\ a.pc = "visit" /\ t' = [t EXCEPT !.descend = FALSE]
      /\ a' = [a EXCEPT !.pc = "next", !.delayed = FALSE]
      /\ disk' = disk /\ changed' = changed /\ seen' = seen /\ again' = again
  BY DEF PathExcluded
<1>2. /\ Alive /\ Shape(t) /\ ~t.descend /\ t \in TreeType /\ a \in CallType
  BY <1>1, UnderWay DEF Walking, IInv, Types
<1>3. /\ t' \in TreeType /\ t'.stack = t.stack /\ t'.dirname_length = t.dirname_length
      /\ t'.path = t.path /\ t'.d = t.d /\ ~t'.descend
  BY <1>1, <1>2 DEF TreeType
<1>4. a'.pc # "visit"
  BY <1>1, <1>2 DEF CallType
<1>5. Once(t, a.pc, seen) /\ ~again
  BY <1>2 DEF OnceInv
<1>6. Once(t', a'.pc, seen)
  BY <1>2, <1>3, <1>4, <1>5, StillOnce
<1> QED
  BY <1>1, <1>5, <1>6, OnceStep

(* The entry is looked at, to be reported or to be left out.               *)
LEMMA LookedOnce ==
  ASSUME IInv, OnceInv, a.pc = "visit", Found # Nothing
  PROVE  LET x == Looked IN
         /\ t \in TreeType /\ Shape(t) /\ Visiting(t, "visit") /\ Once(t, "visit", seen) /\ ~again
         /\ x \in TreeType /\ Shape(x) /\ x.d = t.d /\ x.visit = "regular"
         /\ x.dirname_length = t.dirname_length /\ x.path = t.path /\ x.stack = t.stack
         /\ Visiting(x, "out") /\ Once(x, "out", seen)
         /\ ~Unborn(Last(t.path))
<1> DEFINE x == Looked
<1>1. /\ Alive /\ Types /\ Housed(disk) /\ t \in TreeType /\ a \in CallType
      /\ Shape(t) /\ Placed(t) /\ NoCircle(t) /\ Visiting(t, a.pc)
  BY UnderWay DEF IInv, Types, Walking
<1>2. Once(t, "visit", seen) /\ ~again
  BY <1>1 DEF OnceInv
<1>3. /\ x \in TreeType /\ x.d = t.d /\ x.visit = t.visit /\ x.current = t.current
      /\ x.working_dir = t.working_dir
      /\ x.dirname_length = t.dirname_length /\ x.path = t.path /\ x.stack = t.stack
  BY <1>1, LookedStep
<1>4. Shape(x)
  BY <1>1, LookedKept
<1>5. t.visit = "regular"
  BY <1>1 DEF Visiting
<1>6. ~Unborn(Last(t.path))
  BY <1>1, FoundThere DEF Unborn
<1> HIDE DEF x
<1>7. Visiting(x, "out")
  BY <1>1, <1>3, <1>5 DEF Visiting, Open
<1>8. Open(x, "out") => Open(t, "visit")
  BY <1>3 DEF Open
<1>9. Once(x, "out", seen)
  BY <1>2, <1>3, <1>8, SameOnce
<1> QED
  BY <1>1, <1>2, <1>3, <1>4, <1>5, <1>6, <1>7, <1>9 DEF x

LEMMA EntryExcludedOnce ==
  ASSUME IInv, OnceInv, EntryExcluded
  PROVE  OnceInv'
<1> DEFINE x == Looked
<1>1. /\ a.pc = "visit" /\ Found # Nothing /\ a' = [a EXCEPT !.pc = "next", !.delayed = FALSE]
      /\ disk' = disk /\ changed' = changed /\ seen' = seen /\ again' = again
      /\ (t' = [x EXCEPT !.descend = FALSE] \/ (x.descend /\ t' = Pushed(x)))
  BY DEF EntryExcluded
<1>2. /\ t \in TreeType /\ Shape(t) /\ Visiting(t, "visit") /\ Once(t, "visit", seen) /\ ~again
      /\ x \in TreeType /\ Shape(x) /\ x.d = t.d /\ x.visit = "regular"
      /\ x.dirname_length = t.dirname_length /\ x.path = t.path /\ x.stack = t.stack
      /\ Visiting(x, "out") /\ Once(x, "out", seen)
  BY <1>1, LookedOnce
<1>3. a'.pc # "visit"
  BY <1>1 DEF IInv, Types, CallType
<1> HIDE DEF x
<1>4. CASE t' = [x EXCEPT !.descend = FALSE]
  <2>1. /\ t' \in TreeType /\ t'.stack = t.stack /\ t'.dirname_length = t.dirname_length
        /\ t'.path = t.path /\ t'.d = t.d /\ ~t'.descend
    BY <1>2, <1>4 DEF TreeType
  <2>2. Once(t', a'.pc, seen)
    BY <2>1, <1>2, <1>3, StillOnce
  <2> QED
    BY <2>2, <1>1, <1>2, OnceStep
<1>5. CASE x.descend /\ t' = Pushed(x)
  <2>1. Open(x, "out")
    BY <1>2, <1>5 DEF Open
  <2>2. Once(Pushed(x), a'.pc, seen)
    BY <2>1, <1>2, <1>3, PushedOnce
  <2> QED
    BY <2>2, <1>1, <1>2, <1>5, OnceStep
<1> QED
  BY <1>1, <1>4, <1>5

LEMMA VisitOnce ==
  ASSUME IInv, OnceInv, Visit
  PROVE  OnceInv'
<1>1. /\ a.pc = "visit" /\ Found # Nothing /\ t' = Looked
      /\ a' = [a EXCEPT !.pc = "out", !.state = "data",
                        !.reply = IF a.delayed THEN "warn" ELSE "ok"]
      /\ disk' = disk /\ changed' = changed /\ seen' = seen \cup {t.path}
      /\ again' = (again \/ t.path \in seen)
  BY DEF Visit
<1>2. /\ t \in TreeType /\ Shape(t) /\ Visiting(t, "visit") /\ Once(t, "visit", seen) /\ ~again
      /\ t' \in TreeType /\ t'.d = t.d
      /\ t'.dirname_length = t.dirname_length /\ t'.path = t.path /\ t'.stack = t.stack
      /\ ~Unborn(Last(t.path))
  BY <1>1, LookedOnce
<1>3. a'.pc # "visit"
  BY <1>1 DEF IInv, Types, CallType
<1>4. Once(t', a'.pc, seen \cup {t.path}) /\ t.path \notin seen
  BY <1>2, <1>3, ReportedOnce
<1>5. ~again'
  BY <1>1, <1>2, <1>4
<1> QED
  BY <1>1, <1>4, <1>5, OnceStep

LEMMA NextHeaderOnce ==
  ASSUME IInv, OnceInv, NextHeader
  PROVE  OnceInv'
<1>1. /\ a.pc = "out" /\ a.state \in {"header", "data"} /\ t' = [t EXCEPT !.descend = FALSE]
      /\ a' = [a EXCEPT !.pc = "next", !.delayed = FALSE]
      /\ disk' = disk /\ changed' = changed /\ seen' = seen /\ again' = again
  BY DEF NextHeader
<1>2. /\ Alive /\ Shape(t) /\ t \in TreeType /\ a \in CallType
  BY <1>1, Living DEF Walking, IInv, Types
<1>3. /\ t' \in TreeType /\ t'.stack = t.stack /\ t'.dirname_length = t.dirname_length
      /\ t'.path = t.path /\ t'.d = t.d /\ ~t'.descend
  BY <1>1, <1>2 DEF TreeType
<1>4. a'.pc # "visit"
  BY <1>1, <1>2 DEF CallType
<1>5. Once(t, a.pc, seen) /\ ~again
  BY <1>2 DEF OnceInv
<1>6. Once(t', a'.pc, seen)
  BY <1>2, <1>3, <1>4, <1>5, StillOnce
<1> QED
  BY <1>1, <1>5, <1>6, OnceStep

LEMMA DescendOnce ==
  ASSUME IInv, OnceInv, Descend
  PROVE  OnceInv'
<1>1. a.pc = "out" /\ a.state \in {"header", "data"} /\ t.visit = "regular" /\ t.descend
      /\ t' = Pushed(t) /\ disk' = disk /\ a' = a /\ changed' = changed /\ seen' = seen
      /\ again' = again
  BY DEF Descend
<1>2. /\ Alive /\ Shape(t) /\ Visiting(t, a.pc) /\ t \in TreeType
  BY <1>1, Living DEF Walking, IInv, Types
<1>3. Once(t, a.pc, seen) /\ ~again /\ Open(t, a.pc)
  BY <1>1, <1>2 DEF OnceInv, Open
<1>4. Once(Pushed(t), a'.pc, seen)
  BY <1>1, <1>2, <1>3, PushedOnce
<1> QED
  BY <1>1, <1>3, <1>4, OnceStep

LEMMA OnceInit == Init => OnceInv
<1> SUFFICES ASSUME Init PROVE OnceInv
  OBVIOUS
<1>1. seen = {} /\ again = FALSE /\ a.pc = "out" /\ \E mode, restore : t = Reopened(mode, restore)
  BY DEF Init
<1>2. /\ Len(t.stack) = 1 /\ t.dirname_length = 0 /\ ~t.d.on /\ t.visit = "none"
  BY <1>1 DEF Reopened, Closed, NoStream
<1>3. Once(t, a.pc, seen)
  BY <1>1, <1>2 DEF Once, Born, Unread, Unseen, Open
<1> QED
  BY <1>1, <1>3 DEF OnceInv

LEMMA OnceNext ==
  ASSUME Movable = {}, IInv, OnceInv, [Next]_vars
  PROVE  OnceInv'
<1>1. ASSUME UNCHANGED <<t, a, disk, changed, seen, again>> PROVE OnceInv'
  BY <1>1, OnceStep DEF OnceInv, Alive
<1>2. CASE NextHeader
  BY <1>2, NextHeaderOnce
<1>3. CASE Walks
  BY <1>3, WalksOnce
<1>4. CASE WalkEnds
  BY <1>4, WalkEndsOnce
<1>5. CASE Missing
  BY <1>5, MissingOnce
<1>6. CASE PathExcluded
  BY <1>6, PathExcludedOnce
<1>7. CASE EntryExcluded
  BY <1>7, EntryExcludedOnce
<1>8. CASE Visit
  BY <1>8, VisitOnce
<1>9. CASE WalkFails
  BY <1>9, WalkFailsOnce
<1>10. CASE Descend
  BY <1>10, DescendOnce
<1>11. CASE OpenFile
  BY <1>1, <1>11 DEF OpenFile
<1>12. CASE DataBlock
  BY <1>1, <1>12 DEF DataBlock
<1>13. CASE Close
  BY <1>13, OnceStep DEF Close, OnceInv
<1>14. CASE Others
  BY <1>14, OthersOnce
<1>15. CASE UNCHANGED vars
  BY <1>1, <1>15 DEF vars
<1>16. CASE DataFails
  <2>1. a'.state = "fatal"
    BY <1>16 DEF DataFails, IInv, Types, CallType
  <2> QED
    BY <2>1, <1>16, OnceStep DEF DataFails, OnceInv
<1>17. ~Displace
  BY DEF Displace
<1> QED
  BY <1>2, <1>3, <1>4, <1>5, <1>6, <1>7, <1>8, <1>9, <1>10, <1>11, <1>12, <1>13, <1>14, <1>15,
     <1>16, <1>17 DEF Next, Call

-----------------------------------------------------------------------------
(***************************************************************************)
(* Nothing is missed.  A path of directories that stay, none of them       *)
(* excluded or left out, is reported or still to come: it leads through    *)
(* the initial path, what is looked at, a directory that waits or a name   *)
(* the stream has left.                                                    *)
(***************************************************************************)

Steady(p) ==
  /\ p \in Seq(Nodes) /\ Len(p) >= 1 /\ p[1] = Top
  /\ \A k \in 1..Len(p) : p[k] \notin changed /\ disk.kind[p[k]] # "none"
  /\ \A k \in 1..(Len(p) - 1) :
       disk.up[p[k + 1]] = p[k] /\ disk.kind[p[k]] = "dir" /\ p[k] \notin Excluded
  /\ p[Len(p)] \notin Excluded \cup Unwanted

(* None of the directories above it is left out.                           *)
Free(p, s) == \A k \in 1..(Len(p) - 1) : SubSeq(p, 1, k) \notin s

Begins(w) == Len(w.stack) >= 1 /\ "visit" \in w.stack[1].needs

Looks(w, pc, p) ==
  /\ Open(w, pc) /\ Through(w, w.dirname_length, Last(w.path), p)
  /\ pc = "visit" \/ Len(p) > w.dirname_length + 1

Enters(w, k, p) ==
  /\ Waits(w, k) /\ Through(w, w.stack[k].dirname_length, w.stack[k].name, p)
  /\ Len(p) > w.stack[k].dirname_length + 1

Reads(w, p) == w.d.on /\ \E n \in w.d.left : Through(w, w.dirname_length, n, p)

Awaited(w, pc, p) ==
  Begins(w) \/ Looks(w, pc, p) \/ (\E k \in 2..Len(w.stack) : Enters(w, k, p)) \/ Reads(w, p)

(* The walk began at the top.                                              *)
Begun(w) == Len(w.stack) >= 1 => w.stack[1].name = Top

CompleteInv ==
  /\ disk.up[Top] = Cwd
  /\ Alive =>
       /\ Begun(t)
       /\ \A p \in Seq(Nodes) :
            Steady(p) /\ Free(p, skipped) => p \in seen \/ Awaited(t, a.pc, p)

(* An entry that waits goes on waiting.                                    *)
LEMMA EntersStill ==
  ASSUME NEW w \in TreeType, Shape(w), NEW x, NEW k \in 2..Len(w.stack),
         x.stack[k].name = w.stack[k].name,
         x.stack[k].dirname_length = w.stack[k].dirname_length,
         Waits(w, k) => Waits(x, k),
         \A i \in 1..w.dirname_length : x.path[i] = w.path[i]
  PROVE  \A p : Enters(w, k, p) => Enters(x, k, p)
<1> DEFINE d == w.stack[k].dirname_length
           n == w.stack[k].name
<1>1. d \in Nat /\ w.dirname_length \in Nat /\ d <= w.dirname_length
  BY OnTheWay
<1>2. \A p : Through(x, d, n, p) <=> Through(w, d, n, p)
  BY <1>1, SameWay
<1> QED
  BY <1>2 DEF Enters

(* What the walk's path begins with is the beginning of the path p.        *)
LEMMA SameBeginning ==
  ASSUME NEW q \in Seq(Nodes), NEW p \in Seq(Nodes), NEW d \in Nat, d <= Len(q), d < Len(p), d >= 1,
         \A i \in 1..d : p[i] = q[i]
  PROVE  /\ SubSeq(p, 1, d) = SubSeq(q, 1, d) /\ (Len(q) = d => SubSeq(p, 1, d) = q)
         /\ \A s : SubSeq(q, 1, d) \in s => ~Free(p, s)
<1>0. Len(q) \in Nat /\ Len(p) \in Nat /\ d \in 1..(Len(p) - 1)
  OBVIOUS
<1>1. /\ SubSeq(p, 1, d) \in Seq(Nodes) /\ Len(SubSeq(p, 1, d)) = d
      /\ \A i \in 1..d : SubSeq(p, 1, d)[i] = p[i]
  BY <1>0, Prefix
<1>2. /\ SubSeq(q, 1, d) \in Seq(Nodes) /\ Len(SubSeq(q, 1, d)) = d
      /\ \A i \in 1..d : SubSeq(q, 1, d)[i] = q[i]
  BY <1>0, Prefix
<1> DEFINE u == SubSeq(p, 1, d)
           v == SubSeq(q, 1, d)
<1>a. u \in Seq(Nodes) /\ v \in Seq(Nodes) /\ Len(u) = d /\ Len(v) = d /\ \A i \in 1..d : u[i] = v[i]
  BY <1>1, <1>2
<1>b. Len(q) = d => \A i \in 1..d : u[i] = q[i]
  BY <1>1

<1>d. \A s : u \in s => ~Free(p, s)
  BY <1>0 DEF Free
<1> HIDE DEF u, v
<1>3. u = v
  BY <1>a, SeqEqual
<1>4. Len(q) = d => u = q
  BY <1>a, <1>b, SeqEqual
<1> QED
  BY <1>3, <1>4, <1>d DEF u, v

(* A steady path that leaves the walk's path goes on in the directory the  *)
(* walk works in.                                                          *)
LEMMA GoesOnThere ==
  ASSUME t \in TreeType, Shape(t), Placed(t), disk.up[Top] = Cwd, NEW p, Steady(p),
         Len(p) >= t.dirname_length + 1, \A i \in 1..t.dirname_length : p[i] = t.path[i]
  PROVE  LET n == p[t.dirname_length + 1] IN
         n \in Nodes /\ disk.up[n] = t.working_dir /\ disk.kind[n] # "none"
<1> DEFINE l == t.dirname_length
           c == t.current
<1>1. l \in Nat /\ Len(t.stack) \in Nat /\ c \in Nat /\ Len(p) \in Nat /\ p \in Seq(Nodes)
  BY Entries DEF TreeType, Steady
<1>2. /\ t.working_dir = Dir(t, c) /\ l = IF c <= 1 THEN 0 ELSE t.stack[c].dirname_length + 1
      /\ c >= 2 => c \in 2..Len(t.stack) /\ Entered(t, c)
  <2>1. Current(t)
    BY DEF Shape
  <2>2. Len(t.stack) = 0 \/ Len(t.stack) >= 1
    BY <1>1
  <2> QED
    BY <1>1, <2>1, <2>2 DEF Current
<1>3. l + 1 \in 1..Len(p) /\ p[l + 1] \in Nodes /\ disk.kind[p[l + 1]] # "none"
  BY <1>1 DEF Steady
<1>4. CASE c <= 1
  BY <1>1, <1>2, <1>3, <1>4 DEF Dir, Steady
<1>5. CASE c >= 2
  <2> DEFINE e == t.stack[c]
  <2>1. c \in 2..Len(t.stack) /\ Linked(t, c) /\ e \in EntryType /\ Entered(t, c)
    BY <1>2, <1>5, OnTheWay DEF Shape
  <2>a. l = e.dirname_length + 1 /\ e.dirname_length \in Nat
    BY <1>1, <1>2, <1>5, <2>1 DEF EntryType
  <2>b. t.path[e.dirname_length + 1] = e.name
    BY <2>1 DEF Linked
  <2>2. l >= 1 /\ t.path[l] = e.name
    BY <2>a, <2>b
  <2>3. LeadsTo(e.name, Dir(t, e.parent), e.ino)
    BY <2>1 DEF Placed
  <2>4. l \in 1..(Len(p) - 1) /\ l \in 1..Len(p) /\ l \in 1..l
    BY <1>1, <1>3, <2>2
  <2>5. p[l] = e.name /\ disk.kind[p[l]] = "dir" /\ p[l] \notin changed /\ disk.up[p[l + 1]] = p[l]
    BY <2>2, <2>4 DEF Steady
  <2>6. e.ino = e.name
    BY <2>3, <2>5 DEF LeadsTo, Gone
  <2>7. t.working_dir = e.ino
    BY <1>1, <1>2, <1>5 DEF Dir
  <2> QED
    BY <1>3, <2>5, <2>6, <2>7
<1> QED
  BY <1>1, <1>4, <1>5

(* A step that leaves the disk alone.                                      *)
LEMMA CompleteStep ==
  ASSUME CompleteInv, Alive, disk' = disk, changed' = changed, skipped \subseteq skipped',
         seen \subseteq seen',
         t' # Closed /\ a'.state # "fatal" =>
           /\ Begun(t')
           /\ \A p \in Seq(Nodes) :
                Steady(p) /\ Free(p, skipped') /\ Awaited(t, a.pc, p) =>
                  p \in seen' \/ Awaited(t', a'.pc, p)
  PROVE  CompleteInv'
<1>1. \A p : Steady(p)' <=> Steady(p)
  BY DEF Steady
<1>2. \A p : Free(p, skipped') => Free(p, skipped)
  BY DEF Free
<1>3. ASSUME t' # Closed, a'.state # "fatal", NEW p \in Seq(Nodes), Steady(p), Free(p, skipped')
      PROVE  p \in seen' \/ Awaited(t', a'.pc, p)
  BY <1>2, <1>3 DEF CompleteInv
<1>4. \A p : Awaited(t', a'.pc, p) => Awaited(t, a.pc, p)'
  BY DEF Awaited
<1> QED
  BY <1>1, <1>3, <1>4 DEF CompleteInv, Alive, Begun

(* The top of the stack is taken off, and p is not below it.               *)
LEMMA PoppedAwaited ==
  ASSUME NEW w \in TreeType, Shape(w), Len(w.stack) >= 1, "visit" \notin w.stack[Len(w.stack)].needs,
         NEW x, Len(x.stack) = Len(w.stack) - 1,
         \A k \in 1..(Len(w.stack) - 1) : x.stack[k] = w.stack[k],
         \A i \in 1..w.dirname_length : x.path[i] = w.path[i],
         Begun(w), ~w.d.on, NEW pc, ~Open(w, pc), NEW xpc
  PROVE  /\ Begun(x)
         /\ \A p : Awaited(w, pc, p) => Awaited(x, xpc, p) \/ Enters(w, Len(w.stack), p)
<1> DEFINE n == Len(w.stack)
<1>1. n \in Nat /\ n >= 1
  BY Entries
<1>2. ~Begins(w)
  BY <1>1 DEF Begins, Shape, Current
<1>3. Begun(x)
  BY <1>1 DEF Begun
<1>4. ASSUME NEW p, Awaited(w, pc, p) PROVE Awaited(x, xpc, p) \/ Enters(w, n, p)
  <2>1. PICK k \in 2..n : Enters(w, k, p)
    BY <1>2, <1>4 DEF Awaited, Looks, Reads
  <2>2. CASE k = n
    BY <2>1, <2>2
  <2>3. CASE k # n
    <3>1. k \in 2..(n - 1) /\ k \in 1..(n - 1) /\ k \in 2..Len(x.stack)
      BY <1>1, <2>3
    <3>2. x.stack[k] = w.stack[k]
      BY <3>1
    <3>3. Waits(w, k) => Waits(x, k)
      BY <3>2 DEF Waits
    <3>4. Enters(x, k, p)
      BY <2>1, <3>2, <3>3, EntersStill
    <3> QED
      BY <3>1, <3>4 DEF Awaited
  <2> QED
    BY <2>2, <2>3
<1> QED
  BY <1>3, <1>4

(* The stack stays what it is.                                             *)
LEMMA StillAwaited ==
  ASSUME NEW w \in TreeType, Shape(w), NEW x, x.stack = w.stack,
         \A i \in 1..w.dirname_length : x.path[i] = w.path[i], Begun(w), NEW pc, NEW xpc
  PROVE  /\ Begun(x)
         /\ \A p : Awaited(w, pc, p) =>
                     Awaited(x, xpc, p) \/ Looks(w, pc, p) \/ Reads(w, p)
<1>1. Begun(x)
  BY DEF Begun
<1>2. ASSUME NEW p, NEW k \in 2..Len(w.stack), Enters(w, k, p) PROVE Enters(x, k, p)
  <2>1. Waits(w, k) => Waits(x, k)
    BY DEF Waits
  <2> QED
    BY <2>1, <1>2, EntersStill
<1>3. Begins(w) => Begins(x)
  BY DEF Begins
<1> QED
  BY <1>1, <1>2, <1>3 DEF Awaited

LEMMA FirstVisitComplete ==
  ASSUME Types, Shape(t), FirstVisit, Begun(t), a'.pc = "visit"
  PROVE  Begun(t') /\ \A p : Steady(p) => Awaited(t', a'.pc, p)
<1>1. /\ t \in TreeType /\ t.dirname_length <= Len(t.path) /\ Len(t'.stack) = 1
      /\ t'.dirname_length = 0 /\ Len(t.stack) = 1
  BY FirstVisitShape DEF Types, Shape, Current
<1>2. /\ t'.stack[1] = [t.stack[1] EXCEPT !.needs = @ \ {"visit"}]
      /\ t'.visit = "regular" /\ t'.dirname_length = t.dirname_length
      /\ Len(t'.path) = t.dirname_length + 1 /\ t'.path[t.dirname_length + 1] = t.stack[1].name
  BY <1>1, FirstVisitStep
<1>3. t.stack[1] \in EntryType /\ t.stack[1].name = Top
  BY <1>1, Entries DEF Begun
<1>4. Begun(t')
  BY <1>2, <1>3 DEF Begun, EntryType
<1>5. Last(t'.path) = Top
  BY <1>1, <1>2, <1>3 DEF Last
<1>6. ASSUME NEW p, Steady(p) PROVE Awaited(t', a'.pc, p)
  <2>1. Through(t', 0, Top, p)
    BY <1>6 DEF Through, Steady
  <2> QED
    BY <2>1, <1>1, <1>2, <1>5 DEF Awaited, Looks, Open
<1> QED
  BY <1>4, <1>6

LEMMA DescentComplete ==
  ASSUME t \in TreeType, disk \in DiskType, t.working_dir \in Nodes, Shape(t), ~t.descend,
         Descent, Begun(t), NEW pc, pc # "visit", NEW xpc
  PROVE  Begun(t') /\ \A p : Awaited(t, pc, p) => Awaited(t', xpc, p)
<1> DEFINE n == Len(t.stack)
           x == t'
           l == t.dirname_length
<1>0. n \in Nat /\ n >= 1 /\ l \in Nat /\ l <= Len(t.path)
  BY Entries DEF Descent, Needs, TreeType, Shape, Current
<1>1. /\ ~t.d.on /\ "descent" \in t.stack[n].needs
      /\ Len(x.stack) = n /\ \A k \in 1..(n - 1) : x.stack[k] = t.stack[k]
      /\ x.stack[n] = [t.stack[n] EXCEPT !.needs = @ \ {"descent"},
                          !.symlink_parent = IF t.stack[n].link THEN t.working_dir ELSE @]
      /\ \A i \in 1..l : x.path[i] = t.path[i]
  BY <1>0, DescentStep
<1>2. /\ n >= 2 /\ t.stack[n].needs = Whole
  BY <1>0, <1>1, TopFacts
<1>3. t.stack[n] \in EntryType
  BY <1>0, Entries
<1>4. /\ x.stack[n].name = t.stack[n].name
      /\ x.stack[n].dirname_length = t.stack[n].dirname_length
      /\ x.stack[n].needs = {"open", "ascent"}
  BY <1>1, <1>2, <1>3 DEF EntryType, Whole
<1> HIDE DEF x
<1>5. ASSUME NEW k \in 2..n
      PROVE  /\ x.stack[k].name = t.stack[k].name
             /\ x.stack[k].dirname_length = t.stack[k].dirname_length
             /\ Waits(t, k) => Waits(x, k)
  <2>1. CASE k = n
    BY <2>1, <1>4 DEF Waits
  <2>2. CASE k # n
    <3>1. k \in 1..(n - 1)
      BY <2>2, <1>0
    <3> QED
      BY <3>1, <1>1, Zenon DEF Waits
  <2> QED
    BY <2>1, <2>2
<1>6. ASSUME NEW p, NEW k \in 2..n, Enters(t, k, p) PROVE Enters(x, k, p)
  BY <1>1, <1>5, <1>6, EntersStill
<1>7. Begun(x)
  <2>1. 1 \in 1..(n - 1)
    BY <1>0, <1>2
  <2> QED
    BY <2>1, <1>0, <1>1 DEF Begun
<1>8. ~Begins(t)
  BY <1>0, <1>2 DEF Begins, Shape, Current
<1> QED
  BY <1>1, <1>6, <1>7, <1>8 DEF Awaited, Looks, Reads, Open, x

(* The stream has the name of the path: it was there and it stays.         *)
LEMMA OpenStreamComplete ==
  ASSUME t \in TreeType, Shape(t), Placed(t), disk.up[Top] = Cwd, ~t.descend,
         OpenStream, Begun(t), NEW pc, pc # "visit", NEW xpc
  PROVE  Begun(t') /\ \A p : Steady(p) /\ Awaited(t, pc, p) => Awaited(t', xpc, p)
<1> DEFINE n == Len(t.stack)
           x == t'
           l == t.dirname_length
           d == t.stack[n].dirname_length
<1>0. n \in Nat /\ n >= 1 /\ l \in Nat
  BY Entries DEF OpenStream, Needs, TreeType
<1>1. /\ ~t.d.on /\ "open" \in t.stack[n].needs /\ "descent" \notin t.stack[n].needs
      /\ x.d.on /\ x.d.left = Names(t.working_dir)
      /\ x.dirname_length = l /\ x.path = t.path
      /\ Len(x.stack) = n /\ \A k \in 1..(n - 1) : x.stack[k] = t.stack[k]
  BY <1>0, OpenStreamStep
<1>2. n >= 2 /\ t.stack[n].needs = {"open", "ascent"} /\ Entered(t, n) /\ t.current = n
  BY <1>0, <1>1, TopFacts
<1>3. n \in 2..n /\ t.stack[n] \in EntryType /\ d \in Nat
  BY <1>0, <1>2, OnTheWay
<1>4. l = d + 1 /\ t.path[d + 1] = t.stack[n].name
  BY <1>0, <1>2, <1>3 DEF Shape, Current, Linked
<1> HIDE DEF x
<1>5. ~Begins(t)
  BY <1>0, <1>2 DEF Begins, Shape, Current
<1>6. Begun(x)
  <2>1. 1 \in 1..(n - 1)
    BY <1>0, <1>2
  <2> QED
    BY <2>1, <1>0, <1>1 DEF Begun
<1>7. ASSUME NEW p, Steady(p), Enters(t, n, p) PROVE Reads(x, p)
  <2>1. /\ Len(p) > d + 1 /\ \A i \in 1..d : p[i] = t.path[i]
        /\ p[d + 1] = t.path[d + 1] /\ Len(p) \in Nat
    BY <1>4, <1>7 DEF Enters, Through, Steady
  <2>2. Len(p) >= l + 1 /\ \A i \in 1..l : p[i] = t.path[i]
    <3>1. \A i \in 1..l : i \in 1..d \/ i = d + 1
      BY <1>3, <1>4
    <3> QED
      BY <3>1, <2>1, <1>3, <1>4
  <2>3. p[l + 1] \in Names(t.working_dir)
    BY <2>2, <1>7, GoesOnThere DEF Names
  <2>4. Through(x, l, p[l + 1], p)
    BY <2>2, <1>1 DEF Through
  <2> QED
    BY <2>3, <2>4, <1>1 DEF Reads
<1>8. ASSUME NEW p, NEW k \in 2..n, k # n, Enters(t, k, p) PROVE Enters(x, k, p)
  <2>1. k \in 1..(n - 1)
    BY <1>8, <1>0
  <2>2. x.stack[k] = t.stack[k]
    BY <2>1, <1>1
  <2>3. (Waits(t, k) => Waits(x, k)) /\ \A i \in 1..t.dirname_length : x.path[i] = t.path[i]
    BY <2>2, <1>1 DEF Waits
  <2> QED
    BY <2>2, <2>3, <1>8, EntersStill
<1> QED
  BY <1>1, <1>5, <1>6, <1>7, <1>8 DEF Awaited, Looks, Reads, Open, x

(* What is read is looked at.                                              *)
LEMMA ReadDirectoryComplete ==
  ASSUME t \in TreeType, Shape(t), ~t.descend, NEW n \in Nodes, ReadDirectory(n), Begun(t),
         NEW pc, pc # "visit"
  PROVE  Begun(t') /\ \A p : Awaited(t, pc, p) => Awaited(t', "visit", p)
<1> DEFINE x == t'
           l == t.dirname_length
<1>1. /\ t.d.on /\ n \in t.d.left /\ x.d.on /\ x.d.left = t.d.left \ {n} /\ x.visit = "regular"
      /\ x.stack = t.stack /\ x.dirname_length = l
      /\ Len(x.path) = l + 1 /\ x.path[l + 1] = n
      /\ \A i \in 1..l : x.path[i] = t.path[i]
  BY ReadStep DEF Shape, Current
<1>2. l \in Nat
  BY DEF TreeType
<1>3. Last(x.path) = n
  BY <1>1, <1>2 DEF Last
<1> HIDE DEF x
<1>4. \A m, q : Through(x, l, m, q) <=> Through(t, l, m, q)
  <2>1. l <= l /\ \A i \in 1..l : x.path[i] = t.path[i]
    BY <1>1, <1>2
  <2> QED
    BY <2>1, <1>2, SameWay, Zenon
<1>5. ASSUME NEW p, Reads(t, p) PROVE Looks(x, "visit", p) \/ Reads(x, p)
  <2>1. PICK m \in t.d.left : Through(t, l, m, p)
    BY <1>5 DEF Reads
  <2> QED
    BY <2>1, <1>1, <1>3, <1>4 DEF Looks, Reads, Open
<1>6. /\ Begun(x)
      /\ \A p : Awaited(t, pc, p) => Awaited(x, "visit", p) \/ Looks(t, pc, p) \/ Reads(t, p)
  BY <1>1, StillAwaited
<1>7. \A p : ~Looks(t, pc, p)
  BY DEF Looks, Open
<1> QED
  BY <1>5, <1>6, <1>7 DEF Awaited, x

LEMMA WalksComplete ==
  ASSUME IInv, CompleteInv, Walks
  PROVE  CompleteInv'
<1>1. a.pc = "next" /\ Types /\ t \in TreeType /\ disk \in DiskType /\ a \in CallType
  BY DEF Walks, IInv, Types
<1>2. /\ Alive /\ Shape(t) /\ Placed(t) /\ ~t.descend /\ t.working_dir \in Nodes
      /\ t.dirname_length <= Len(t.path) /\ t.dirname_length \in Nat /\ Len(t.stack) \in Nat
  BY <1>1, UnderWay, Entries DEF Walking, Shape, Current, TreeType
<1>3. /\ disk.up[Top] = Cwd /\ Begun(t) /\ ~Open(t, a.pc) /\ ~Open(t, "next")
  BY <1>1, <1>2 DEF CompleteInv, Open
<1>4. disk' = disk /\ changed' = changed /\ seen' = seen /\ skipped \subseteq skipped'
  BY <1>1, GoesStep DEF Walks
<1>5. ASSUME Begun(t'),
             \A p \in Seq(Nodes) : Steady(p) /\ Free(p, skipped') /\ Awaited(t, "next", p) =>
                                     Awaited(t', a'.pc, p)
      PROVE  CompleteInv'
  BY <1>1, <1>2, <1>4, <1>5, CompleteStep
<1>6. CASE FirstVisit /\ Goes("regular")
  <2>1. a'.pc = "visit"
    BY <1>1, <1>6, GoesStep
  <2> QED
    BY <2>1, <1>1, <1>2, <1>3, <1>5, <1>6, FirstVisitComplete
<1>7. CASE \E n \in Nodes : ReadDirectory(n) /\ Goes("regular")
  <2>1. a'.pc = "visit"
    BY <1>1, <1>7, GoesStep
  <2>2. PICK n \in Nodes : ReadDirectory(n)
    BY <1>7
  <2>3. Begun(t') /\ \A p : Awaited(t, "next", p) => Awaited(t', "visit", p)
    BY <2>2, <1>1, <1>2, <1>3, ReadDirectoryComplete
  <2> QED
    BY <2>1, <2>3, <1>5
<1>8. CASE Descent /\ Goes("postdescent")
  <2>1. Begun(t') /\ \A p : Awaited(t, "next", p) => Awaited(t', a'.pc, p)
    BY <1>1, <1>2, <1>3, <1>8, DescentComplete
  <2> QED
    BY <2>1, <1>5
<1>9. CASE DescentFails /\ Goes("error") /\ skipped' = skipped \cup {Entering.path}
  <2> DEFINE n == Len(t.stack)
             l == t.dirname_length
             q == Entering.path
  <2>1. /\ n >= 1 /\ ~t.d.on /\ "descent" \in t.stack[n].needs
        /\ Len(t'.stack) = n - 1 /\ \A k \in 1..(n - 1) : t'.stack[k] = t.stack[k]
        /\ \A i \in 1..l : t'.path[i] = t.path[i]
    BY <1>1, <1>2, <1>9, DescentFailsStep
  <2>2. n >= 2 /\ t.stack[n].needs = Whole /\ t.stack[n].parent = t.current
    BY <2>1, <1>1, <1>2, TopFacts
  <2>3. "visit" \notin t.stack[n].needs
    BY <2>2 DEF Whole
  <2>4. /\ Begun(t')
        /\ \A p : Awaited(t, "next", p) => Awaited(t', a'.pc, p) \/ Enters(t, n, p)
    BY <2>1, <2>3, <1>1, <1>2, <1>3, PoppedAwaited
  <2>5. q \in Seq(Nodes) /\ Len(q) = l + 1 /\ q[l + 1] = t.stack[n].name
        /\ \A i \in 1..l : q[i] = t.path[i]
    BY <2>1, <1>1, <1>2, EnteringStep DEF TreeType
  <2>6. t.stack[n].dirname_length = l
    <3>1. n \in 2..n
      BY <2>2, <1>2
    <3> QED
      BY <3>1, <2>2, <1>2 DEF Shape, Current, Linked
  <2>7. ASSUME NEW p \in Seq(Nodes), Enters(t, n, p) PROVE ~Free(p, skipped')
    <3>1. Len(p) > l + 1 /\ Len(p) \in Nat /\ \A i \in 1..l : p[i] = q[i]
      BY <2>5, <2>6, <2>7 DEF Enters, Through
    <3>2. p[l + 1] = q[l + 1]
      BY <2>5, <2>6, <2>7 DEF Enters, Through
    <3>3. \A i \in 1..(l + 1) : i \in 1..l \/ i = l + 1
      BY <1>2
    <3>4. \A i \in 1..(l + 1) : p[i] = q[i]
      BY <3>1, <3>2, <3>3
    <3> HIDE DEF q, l
    <3>5. q \in skipped' /\ l + 1 \in Nat /\ l + 1 >= 1 /\ l + 1 <= Len(q) /\ l + 1 < Len(p)
      BY <3>1, <2>5, <1>2, <1>9 DEF q, l
    <3>6. SubSeq(q, 1, l + 1) = q
      BY <2>5, <3>5, SameBeginning, <3>4
    <3>7. q \in Seq(Nodes) /\ Len(q) = l + 1
      BY <2>5
    <3> HIDE DEF n
    <3>8. \A s : SubSeq(q, 1, l + 1) \in s => ~Free(p, s)
      BY <3>4, <3>5, <3>7, SameBeginning
    <3> QED
      BY <3>5, <3>6, <3>8
  <2> QED
    BY <2>4, <2>7, <1>5
<1>10. CASE OpenStream /\ Goes("more")
  <2>1. Begun(t') /\ \A p : Steady(p) /\ Awaited(t, "next", p) => Awaited(t', a'.pc, p)
    BY <1>1, <1>2, <1>3, <1>10, OpenStreamComplete
  <2> QED
    BY <2>1, <1>5
<1>11. CASE StreamEnds /\ Goes("more")
  <2>1. t' = [t EXCEPT !.d = NoStream] /\ t.d.left = {}
    BY <1>11 DEF StreamEnds, EndDirectory
  <2>2. t'.stack = t.stack /\ t'.path = t.path
    BY <2>1, <1>1 DEF TreeType
  <2>3. /\ Begun(t')
        /\ \A p : Awaited(t, "next", p) =>
                    Awaited(t', a'.pc, p) \/ Looks(t, "next", p) \/ Reads(t, p)
    BY <2>2, <1>1, <1>2, <1>3, StillAwaited
  <2> QED
    BY <2>1, <2>3, <1>3, <1>5 DEF Looks, Reads
<1>12. CASE Ascent /\ Goes("postascent")
  <2>1. Needs("ascent") /\ ~Needs("open") /\ Ascended("postascent")
    BY <1>12 DEF Ascent
  <2>2. ~t.d.on /\ Len(t.stack) >= 2
    BY <2>1, <1>1, <1>2, TopEntered
  <2>3. Len(t.stack) >= 1
    BY <2>2, <1>2
  <2>4. /\ Len(t'.stack) = Len(t.stack) - 1
        /\ \A k \in 1..(Len(t.stack) - 1) : t'.stack[k] = t.stack[k]
        /\ \A i \in 1..t.dirname_length : t'.path[i] = t.path[i]
    BY <2>1, <2>3, <1>1, <1>2, AscendedStep
  <2>5. t.stack[Len(t.stack)].needs = {"ascent"}
    <3>1. "ascent" \in t.stack[Len(t.stack)].needs /\ "open" \notin t.stack[Len(t.stack)].needs
      BY <2>1, <2>2, <2>3, <1>1, <1>2 DEF Needs, TopEntry, Last
    <3> QED
      BY <3>1, <2>3, <1>1, <1>2, TopFacts
  <2>6. /\ Begun(t')
        /\ \A p : Awaited(t, "next", p) => Awaited(t', a'.pc, p) \/ Enters(t, Len(t.stack), p)
    BY <2>2, <2>3, <2>4, <2>5, <1>1, <1>2, <1>3, PoppedAwaited
  <2>7. {"ascent"} \notin {Whole, {"open", "ascent"}}
    <3>1. "open" \notin {"ascent"} /\ "open" \in Whole /\ "open" \in {"open", "ascent"}
      BY DEF Whole
    <3> QED
      BY <3>1
  <2>8. \A p : ~Enters(t, Len(t.stack), p)
    BY <2>5, <2>7 DEF Enters, Waits
  <2> QED
    BY <2>6, <2>8, <1>5
<1>13. CASE Dead /\ Goes("more")
  <2>1. /\ Len(t.stack) >= 1 /\ ~t.d.on /\ t.stack[Len(t.stack)].needs = {}
        /\ Len(t'.stack) = Len(t.stack) - 1
        /\ \A k \in 1..(Len(t.stack) - 1) : t'.stack[k] = t.stack[k]
        /\ \A i \in 1..t.dirname_length : t'.path[i] = t.path[i]
    BY <1>1, <1>2, <1>13, DeadStep
  <2>2. /\ Begun(t')
        /\ \A p : Awaited(t, "next", p) => Awaited(t', a'.pc, p) \/ Enters(t, Len(t.stack), p)
    BY <2>1, <1>1, <1>2, <1>3, PoppedAwaited
  <2> QED
    BY <2>1, <2>2, <1>5 DEF Enters, Waits, Whole
<1> QED
  BY <1>6, <1>7, <1>8, <1>9, <1>10, <1>11, <1>12, <1>13 DEF Walks

LEMMA WalkFailsComplete ==
  ASSUME IInv, CompleteInv, WalkFails
  PROVE  CompleteInv'
<1>1. a.pc = "next" /\ Types /\ t \in TreeType /\ disk \in DiskType /\ a \in CallType
  BY DEF WalkFails, IInv, Types
<1>2. /\ Alive /\ Shape(t) /\ ~t.descend /\ t.working_dir \in Nodes
      /\ t.dirname_length <= Len(t.path) /\ t.dirname_length \in Nat /\ Len(t.stack) \in Nat
      /\ t.path \in Seq(Nodes)
  BY <1>1, UnderWay, Entries DEF Walking, Shape, Current, TreeType
<1>3. /\ Begun(t) /\ ~Open(t, a.pc) /\ ~Open(t, "next")
  BY <1>1, <1>2 DEF CompleteInv, Open
<1>4. /\ disk' = disk /\ changed' = changed /\ seen' = seen
      /\ skipped' = skipped \cup {SubSeq(t.path, 1, t.dirname_length)}
  BY <1>1, GoesStep DEF WalkFails, DirectoryPath
<1>5. ASSUME \/ a'.state = "fatal"
             \/ /\ Begun(t')
                /\ \A p \in Seq(Nodes) :
                     Steady(p) /\ Free(p, skipped') /\ Awaited(t, "next", p) =>
                       Awaited(t', a'.pc, p)
      PROVE  CompleteInv'
  BY <1>1, <1>2, <1>4, <1>5, CompleteStep
<1>a. ASSUME NEW p \in Seq(Nodes), t.dirname_length >= 1, Len(p) > t.dirname_length,
             \A i \in 1..t.dirname_length : p[i] = t.path[i]
      PROVE  ~Free(p, skipped')
  BY <1>a, <1>2, <1>4, SameBeginning
<1>6. CASE NoStreamOpens /\ Goes(t'.visit)
  <2> DEFINE n == Len(t.stack)
             d == t.stack[n].dirname_length
  <2>1. Needs("open") /\ ~Needs("descent") /\ (Ascended("error") \/ NoWayBack)
    BY <1>6 DEF NoStreamOpens
  <2>2. ~t.d.on /\ n >= 2 /\ Entered(t, n) /\ t.current = n
    BY <2>1, <1>1, <1>2, TopEntered
  <2>3. n >= 1 /\ n \in 2..n
    BY <2>2, <1>2
  <2>4. CASE Ascended("error")
    <3>1. /\ Len(t'.stack) = n - 1
          /\ \A k \in 1..(n - 1) : t'.stack[k] = t.stack[k]
          /\ \A i \in 1..t.dirname_length : t'.path[i] = t.path[i]
      BY <2>3, <2>4, <1>1, <1>2, AscendedStep
    <3>2. "visit" \notin t.stack[n].needs
      BY <2>2, <2>3, <1>1, <1>2, TopFacts
    <3>3. /\ Begun(t')
          /\ \A p : Awaited(t, "next", p) => Awaited(t', a'.pc, p) \/ Enters(t, n, p)
      BY <2>2, <2>3, <3>1, <3>2, <1>1, <1>2, <1>3, PoppedAwaited
    <3>4. d \in Nat /\ t.dirname_length = d + 1 /\ t.path[d + 1] = t.stack[n].name
      <4>1. d \in Nat
        BY <2>3, <1>1, <1>2, OnTheWay
      <4> QED
        BY <4>1, <2>2, <2>3, <1>2 DEF Shape, Current, Linked
    <3>5. ASSUME NEW p \in Seq(Nodes), Enters(t, n, p) PROVE ~Free(p, skipped')
      <4>1. Len(p) > d + 1 /\ (\A i \in 1..d : p[i] = t.path[i]) /\ p[d + 1] = t.path[d + 1]
        BY <3>4, <3>5 DEF Enters, Through
      <4>2. \A i \in 1..(d + 1) : i \in 1..d \/ i = d + 1
        BY <3>4
      <4>3. \A i \in 1..t.dirname_length : p[i] = t.path[i]
        BY <4>1, <4>2, <3>4
      <4> HIDE DEF d
      <4>4. t.dirname_length >= 1 /\ Len(p) > t.dirname_length
        BY <4>1, <3>4
      <4> QED
        BY <4>3, <4>4, <1>a
    <3> QED
      BY <3>3, <3>5, <1>5
  <2>5. CASE NoWayBack
    <3>1. t'.visit = "fatal"
      BY <2>3, <2>5, <1>1, <1>2, NoWayBackStep
    <3> QED
      BY <3>1, <1>1, <1>5, <1>6, GoesStep
  <2> QED
    BY <2>1, <2>4, <2>5
<1>7. CASE ReadDirectoryFails /\ Goes("error")
  <2>1. t' = [t EXCEPT !.d = NoStream, !.visit = "error"] /\ t.d.on
    BY <1>7 DEF ReadDirectoryFails
  <2>2. t'.stack = t.stack /\ t'.path = t.path
    BY <2>1, <1>1 DEF TreeType
  <2>3. /\ Begun(t')
        /\ \A p : Awaited(t, "next", p) =>
                    Awaited(t', a'.pc, p) \/ Looks(t, "next", p) \/ Reads(t, p)
    BY <2>2, <1>1, <1>2, <1>3, StillAwaited
  <2>4. t.dirname_length >= 1
    <3>1. t.current >= 2 /\ t.current \in Nat
      BY <2>1, <1>1, <1>2 DEF Shape, Current, TreeType
    <3>2. t.current \in 2..Len(t.stack)
      BY <3>1, <1>2 DEF Shape, Current
    <3>3. t.stack[t.current].dirname_length \in Nat
      BY <3>2, <1>1, <1>2, OnTheWay
    <3>4. t.dirname_length = t.stack[t.current].dirname_length + 1
      BY <3>1, <1>2 DEF Shape, Current
    <3> QED
      BY <3>3, <3>4
  <2>5. ASSUME NEW p \in Seq(Nodes), Reads(t, p) PROVE ~Free(p, skipped')
    <3>1. Len(p) >= t.dirname_length + 1 /\ \A i \in 1..t.dirname_length : p[i] = t.path[i]
      BY <2>5 DEF Reads, Through
    <3>2. Len(p) > t.dirname_length
      BY <3>1, <1>2
    <3> QED
      BY <2>4, <3>1, <3>2, <1>a
  <2> QED
    BY <2>3, <2>5, <1>3, <1>5 DEF Looks
<1>8. CASE AscentFails /\ Goes("fatal")
  BY <1>1, <1>5, <1>8, GoesStep
<1> QED
  BY <1>6, <1>7, <1>8 DEF WalkFails, DuplicateFails, OpenStreamFails

LEMMA WalkEndsComplete ==
  ASSUME IInv, CompleteInv, WalkEnds
  PROVE  CompleteInv'
<1>1. /\ a.pc = "next" /\ t' = [t EXCEPT !.visit = "none"]
      /\ disk' = disk /\ changed' = changed /\ seen' = seen /\ skipped' = skipped
      /\ t.stack = <<>>
  BY DEF WalkEnds
<1>2. /\ Alive /\ Shape(t) /\ ~t.descend /\ t \in TreeType
  BY <1>1, UnderWay DEF Walking, IInv, Types
<1>3. /\ t'.stack = t.stack /\ t'.path = t.path
  BY <1>1, <1>2 DEF TreeType
<1>4. Begun(t)
  BY <1>2 DEF CompleteInv
<1>5. /\ Begun(t')
      /\ \A p : Awaited(t, a.pc, p) =>
                  Awaited(t', a'.pc, p) \/ Looks(t, a.pc, p) \/ Reads(t, p)
  BY <1>2, <1>3, <1>4, StillAwaited
<1>6. \A p : ~Looks(t, a.pc, p)
  BY <1>1, <1>2 DEF Looks, Open
<1>7. ~t.d.on
  BY <1>1, <1>2 DEF Shape, Current
<1> QED
  BY <1>1, <1>2, <1>5, <1>6, <1>7, CompleteStep DEF Reads

(* What is looked at on a steady path is there, and is reported under this *)
(* path or can be descended into.                                          *)
LEMMA LookedAt ==
  ASSUME IInv, CompleteInv, a.pc = "visit"
  PROVE  /\ Alive /\ t \in TreeType /\ Shape(t) /\ Begun(t) /\ Visiting(t, "visit")
         /\ t.path \in Seq(Nodes) /\ t.dirname_length \in Nat /\ ~t.descend
         /\ \A p \in Seq(Nodes) : Steady(p) /\ Looks(t, "visit", p) =>
              /\ Found # Nothing /\ Last(t.path) \notin Excluded
              /\ Len(t.path) = t.dirname_length + 1
              /\ \A i \in 1..Len(t.path) : p[i] = t.path[i]
              /\ Len(p) > Len(t.path) => Looked.descend
              /\ ~(Len(p) > Len(t.path)) => p = t.path /\ Last(t.path) \notin Unwanted
<1> DEFINE l == t.dirname_length
           n == Last(t.path)
<1>1. /\ Alive /\ Types /\ t \in TreeType /\ disk \in DiskType /\ Shape(t) /\ Placed(t)
      /\ Visiting(t, a.pc) /\ Visiting(t, "visit") /\ Begun(t) /\ disk.up[Top] = Cwd /\ ~t.descend
  BY UnderWay DEF IInv, Types, Walking, CompleteInv
<1>2. l \in Nat /\ t.path \in Seq(Nodes)
  BY <1>1 DEF TreeType
<1>3. ASSUME NEW p \in Seq(Nodes), Steady(p), Looks(t, "visit", p)
      PROVE  /\ Found # Nothing /\ n \notin Excluded
             /\ Len(t.path) = l + 1
             /\ \A i \in 1..Len(t.path) : p[i] = t.path[i]
             /\ Len(p) > Len(t.path) => Looked.descend
             /\ ~(Len(p) > Len(t.path)) => p = t.path /\ n \notin Unwanted
  <2>1. Len(p) >= l + 1 /\ (\A i \in 1..l : p[i] = t.path[i]) /\ p[l + 1] = n /\ Len(p) \in Nat
    BY <1>3 DEF Looks, Through
  <2>2. Len(t.path) = l + 1
    BY <1>1, <1>3 DEF Looks, Visiting
  <2>3. n = t.path[l + 1]
    BY <2>2 DEF Last
  <2>4. \A i \in 1..(l + 1) : p[i] = t.path[i]
    <3>1. \A i \in 1..(l + 1) : i \in 1..l \/ i = l + 1
      BY <1>2
    <3> HIDE DEF n
    <3> QED
      BY <3>1, <2>1, <2>3
  <2>5. n \in Nodes /\ disk.up[n] = t.working_dir /\ disk.kind[n] # "none"
    BY <2>1, <1>1, <1>3, GoesOnThere
  <2>6. Nothing \notin Nodes
    BY <1>1, Lookups
  <2>7. Found = n /\ Found # Nothing
    BY <2>5, <2>6 DEF Found, Object
  <2> HIDE DEF n, l
  <2>8. CASE Len(p) > Len(t.path)
    <3>1. l + 1 \in 1..(Len(p) - 1)
      BY <2>1, <2>2, <2>8, <1>2
    <3>2. disk.kind[n] = "dir" /\ n \notin Excluded
      BY <3>1, <2>1, <1>3 DEF Steady
    <3>3. Follow(Found) = n /\ IsDirectory(n)
      BY <3>2, <2>6, <2>5, <2>7 DEF Follow, IsDirectory
    <3>4. Looked.descend
      BY <3>3, <2>7, <1>1, LookedStep
    <3> QED
      BY <3>2, <3>4, <2>2, <2>4, <2>7, <2>8
  <2>9. CASE ~(Len(p) > Len(t.path))
    <3>1. Len(p) = l + 1
      BY <2>1, <2>2, <2>9, <1>2
    <3>2. p = t.path
      BY <3>1, <2>2, <2>4, <1>2, SeqEqual
    <3>3. n \notin Excluded /\ n \notin Unwanted
      BY <3>1, <2>1, <1>3 DEF Steady
    <3> QED
      BY <3>2, <3>3, <2>2, <2>4, <2>7, <2>9
  <2> QED
    BY <2>8, <2>9
<1> QED
  BY <1>1, <1>2, <1>3

(* What is pushed waits for what is below it.                              *)
LEMMA PushedComplete ==
  ASSUME NEW w \in TreeType, Shape(w), NEW pc, Visiting(w, pc), Open(w, pc), Begun(w), NEW xpc
  PROVE  /\ Begun(Pushed(w))
         /\ \A p : Awaited(w, pc, p) /\ (Looks(w, pc, p) => Len(p) > w.dirname_length + 1) =>
                     Awaited(Pushed(w), xpc, p)
<1> DEFINE x == Pushed(w)
           N == Len(w.stack) + 1
           l == w.dirname_length
           n == Last(w.path)
<1>1. /\ l \in Nat /\ Len(w.path) = l + 1 /\ Len(w.stack) \in Nat
      /\ w.d.on \/ (w.current = 1 /\ Len(w.stack) = 1)
  BY Entries DEF Visiting, TreeType
<1>2. w.current \in 1..Len(w.stack) /\ ~Begins(w)
  <2>1. Current(w) /\ w.current \in Nat
    BY DEF Shape, TreeType
  <2>2. w.current >= 1
    BY <2>1, <1>1 DEF Current
  <2> QED
    BY <2>1, <2>2, <1>1 DEF Current, Begins
<1>3. w.path # <<>>
  BY <1>1
<1>4. /\ x.d = w.d /\ x.dirname_length = l /\ x.path = w.path
      /\ Len(x.stack) = N /\ \A k \in 1..(N - 1) : x.stack[k] = w.stack[k]
      /\ x.stack[N].name = n /\ x.stack[N].needs = Whole /\ x.stack[N].dirname_length = l
  BY <1>2, <1>3, PushedUp
<1> HIDE DEF x, n, l
<1>5. \A d, m, q : Through(x, d, m, q) <=> Through(w, d, m, q)
  BY <1>4 DEF Through
<1>6. Begun(x)
  <2>1. 1 \in 1..(N - 1) /\ Len(w.stack) >= 1
    BY <1>1, <1>2
  <2> QED
    BY <2>1, <1>4 DEF Begun
<1>7. ASSUME NEW p, Looks(w, pc, p), Len(p) > l + 1 PROVE Enters(x, N, p)
  BY <1>4, <1>5, <1>7 DEF Looks, Enters, Waits, l, n
<1>8. ASSUME NEW p, NEW k \in 2..Len(w.stack), Enters(w, k, p) PROVE Enters(x, k, p)
  <2>1. k \in 1..(N - 1)
    BY <1>1
  <2>2. x.stack[k] = w.stack[k]
    BY <2>1, <1>4
  <2> QED
    BY <2>2, <1>5, <1>8 DEF Enters, Waits
<1>9. N \in 2..N /\ \A k \in 2..Len(w.stack) : k \in 2..N
  BY <1>1, <1>2
<1>10. \A p : Reads(w, p) => Reads(x, p)
  BY <1>4, <1>5 DEF Reads, l
<1> QED
  BY <1>2, <1>4, <1>6, <1>7, <1>8, <1>9, <1>10 DEF Awaited, x, l

LEMMA MissingComplete ==
  ASSUME IInv, CompleteInv, Missing
  PROVE  CompleteInv'
<1>1. /\ a.pc = "visit" /\ t' = t /\ Found = Nothing
      /\ disk' = disk /\ changed' = changed /\ seen' = seen /\ skipped' = skipped
  BY DEF Missing
<1>2. /\ Alive /\ Begun(t) /\ \A p \in Seq(Nodes) : Steady(p) => ~Looks(t, "visit", p)
  BY <1>1, LookedAt
<1>3. ASSUME NEW p, Awaited(t, "visit", p), ~Looks(t, "visit", p) PROVE Awaited(t', a'.pc, p)
  BY <1>1, <1>3 DEF Awaited
<1> QED
  BY <1>1, <1>2, <1>3, CompleteStep

LEMMA PathExcludedComplete ==
  ASSUME IInv, CompleteInv, PathExcluded
  PROVE  CompleteInv'
<1>1. /\ a.pc = "visit" /\ t' = [t EXCEPT !.descend = FALSE] /\ Last(t.path) \in Excluded
      /\ disk' = disk /\ changed' = changed /\ seen' = seen /\ skipped' = skipped
  BY DEF PathExcluded
<1>2. /\ Alive /\ t \in TreeType /\ Shape(t) /\ Begun(t)
      /\ \A p \in Seq(Nodes) : Steady(p) => ~Looks(t, "visit", p)
  BY <1>1, LookedAt
<1>3. /\ t'.stack = t.stack /\ t'.dirname_length = t.dirname_length
      /\ t'.path = t.path /\ t'.d = t.d
  BY <1>1, <1>2 DEF TreeType
<1>4. /\ Begun(t')
      /\ \A p : Awaited(t, "visit", p) =>
                  Awaited(t', a'.pc, p) \/ Looks(t, "visit", p) \/ Reads(t, p)
  BY <1>2, <1>3, StillAwaited
<1>5. \A p : Reads(t, p) => Reads(t', p)
  BY <1>3 DEF Reads, Through
<1> QED
  BY <1>1, <1>2, <1>4, <1>5, CompleteStep DEF Awaited

LEMMA EntryExcludedComplete ==
  ASSUME IInv, CompleteInv, EntryExcluded
  PROVE  CompleteInv'
<1> DEFINE x == Looked
<1>1. /\ a.pc = "visit" /\ Found # Nothing /\ Last(t.path) \in Unwanted
      /\ disk' = disk /\ changed' = changed /\ seen' = seen
      /\ \/ t' = [x EXCEPT !.descend = FALSE] /\ skipped' = skipped \cup {t.path}
         \/ x.descend /\ t' = Pushed(x) /\ skipped' = skipped
  BY DEF EntryExcluded
<1>2. /\ Alive /\ t \in TreeType /\ Shape(t) /\ Begun(t) /\ Visiting(t, "visit")
      /\ t.path \in Seq(Nodes) /\ t.dirname_length \in Nat /\ Len(t.path) \in Nat
      /\ \A p \in Seq(Nodes) : Steady(p) /\ Looks(t, "visit", p) =>
           /\ Len(t.path) = t.dirname_length + 1
           /\ \A i \in 1..Len(t.path) : p[i] = t.path[i]
           /\ Len(p) > Len(t.path)
  BY <1>1, LookedAt
<1>3. Types /\ Housed(disk) /\ Placed(t) /\ NoCircle(t)
  BY <1>1, UnderWay DEF IInv, Walking
<1>4. /\ x \in TreeType /\ x.d = t.d /\ x.visit = t.visit
      /\ x.dirname_length = t.dirname_length /\ x.path = t.path /\ x.stack = t.stack
      /\ x.working_dir = t.working_dir /\ x.current = t.current
  BY <1>1, <1>2, <1>3, LookedStep
<1>5. Shape(x)
  BY <1>1, <1>2, <1>3, LookedKept
<1>6. t.visit = "regular"
  BY <1>2 DEF Visiting
<1> HIDE DEF x
<1>7. CASE t' = [x EXCEPT !.descend = FALSE] /\ skipped' = skipped \cup {t.path}
  <2>1. /\ t'.stack = t.stack /\ t'.path = t.path /\ t'.d = t.d
        /\ t'.dirname_length = t.dirname_length
    BY <1>4, <1>7 DEF TreeType
  <2>2. /\ Begun(t')
        /\ \A p : Awaited(t, "visit", p) =>
                    Awaited(t', a'.pc, p) \/ Looks(t, "visit", p) \/ Reads(t, p)
    BY <2>1, <1>2, StillAwaited
  <2>3. \A p : Reads(t, p) => Reads(t', p)
    BY <2>1 DEF Reads, Through
  <2>4. ASSUME NEW p \in Seq(Nodes), Steady(p), Looks(t, "visit", p) PROVE ~Free(p, skipped')
    <3>1. /\ Len(t.path) >= 1 /\ Len(p) > Len(t.path) /\ Len(t.path) <= Len(t.path)
          /\ \A i \in 1..Len(t.path) : p[i] = t.path[i]
      BY <1>2, <2>4
    <3>2. SubSeq(t.path, 1, Len(t.path)) = t.path
      BY <3>1, <1>2, SameBeginning
    <3> QED
      BY <3>1, <3>2, <1>2, <1>7, SameBeginning
  <2> QED
    BY <2>2, <2>3, <2>4, <1>1, <1>2, <1>7, CompleteStep DEF Awaited
<1>8. CASE x.descend /\ t' = Pushed(x) /\ skipped' = skipped
  <2>1. Visiting(x, "out") /\ Open(x, "out") /\ Begun(x)
    BY <1>2, <1>4, <1>6, <1>8 DEF Visiting, Open, Begun
  <2>2. /\ Begun(t')
        /\ \A p : Awaited(x, "out", p) /\ (Looks(x, "out", p) => Len(p) > x.dirname_length + 1) =>
                    Awaited(t', a'.pc, p)
    BY <2>1, <1>4, <1>5, <1>8, PushedComplete
  <2>3. \A d, n, q : Through(x, d, n, q) <=> Through(t, d, n, q)
    BY <1>4 DEF Through
  <2>4. ASSUME NEW p \in Seq(Nodes), Steady(p), Awaited(t, "visit", p)
        PROVE  Awaited(x, "out", p) /\ (Looks(x, "out", p) => Len(p) > x.dirname_length + 1)
    <3>1. Looks(t, "visit", p) => Looks(x, "out", p)
      BY <2>1, <2>3, <2>4, <1>2, <1>4 DEF Looks
    <3>2. \A k : Enters(t, k, p) => Enters(x, k, p)
      BY <2>3, <1>4 DEF Enters, Waits
    <3>3. Reads(t, p) => Reads(x, p)
      BY <2>3, <1>4 DEF Reads
    <3>4. Begins(t) => Begins(x)
      BY <1>4 DEF Begins
    <3> QED
      BY <2>4, <3>1, <3>2, <3>3, <3>4, <1>4 DEF Awaited, Looks
  <2> QED
    BY <2>2, <2>4, <1>1, <1>2, <1>8, CompleteStep
<1> QED
  BY <1>1, <1>7, <1>8

LEMMA VisitComplete ==
  ASSUME IInv, CompleteInv, Visit
  PROVE  CompleteInv'
<1>1. /\ a.pc = "visit" /\ Found # Nothing /\ t' = Looked /\ a' = [a EXCEPT !.pc = "out", !.state = "data",
                        !.reply = IF a.delayed THEN "warn" ELSE "ok"]
      /\ disk' = disk /\ changed' = changed /\ seen' = seen \cup {t.path} /\ skipped' = skipped
  BY DEF Visit
<1>2. /\ Alive /\ t \in TreeType /\ Shape(t) /\ Begun(t) /\ Visiting(t, "visit")
      /\ \A p \in Seq(Nodes) : Steady(p) /\ Looks(t, "visit", p) =>
           /\ Len(t.path) = t.dirname_length + 1
           /\ Len(p) > Len(t.path) => Looked.descend
           /\ ~(Len(p) > Len(t.path)) => p = t.path
  BY <1>1, LookedAt
<1>3. Types /\ t.visit = "regular"
  BY <1>1, <1>2 DEF IInv, Visiting
<1>4. /\ t'.d = t.d /\ t'.visit = t.visit
      /\ t'.dirname_length = t.dirname_length /\ t'.path = t.path /\ t'.stack = t.stack
  BY <1>1, <1>2, <1>3, LookedStep
<1>5. a'.pc = "out"
  BY <1>1, <1>3 DEF Types, CallType
<1>6. \A d, n, q : Through(t', d, n, q) <=> Through(t, d, n, q)
  BY <1>4 DEF Through
<1>7. /\ Begun(t')
      /\ \A p : Awaited(t, "visit", p) =>
                  Awaited(t', "out", p) \/ Looks(t, "visit", p) \/ Reads(t, p)
  BY <1>2, <1>4, StillAwaited
<1>8. \A p : Reads(t, p) => Reads(t', p)
  BY <1>4, <1>6 DEF Reads
<1>9. ASSUME NEW p \in Seq(Nodes), Steady(p), Looks(t, "visit", p)
      PROVE  p \in seen' \/ Looks(t', "out", p)
  <2>1. CASE Len(p) > Len(t.path)
    BY <2>1, <1>1, <1>2, <1>3, <1>4, <1>6, <1>9 DEF Looks, Open
  <2>2. CASE ~(Len(p) > Len(t.path))
    BY <2>2, <1>1, <1>2, <1>9
  <2> QED
    BY <2>1, <2>2
<1> QED
  BY <1>1, <1>2, <1>5, <1>7, <1>8, <1>9, CompleteStep DEF Awaited

LEMMA NextHeaderComplete ==
  ASSUME IInv, CompleteInv, NextHeader
  PROVE  CompleteInv'
<1>1. /\ a.pc = "out" /\ a.state \in {"header", "data"} /\ t' = [t EXCEPT !.descend = FALSE]
      /\ disk' = disk /\ changed' = changed /\ seen' = seen /\ skipped' = Passed
  BY DEF NextHeader
<1>2. /\ Alive /\ Shape(t) /\ t \in TreeType /\ Visiting(t, a.pc) /\ Begun(t)
  BY <1>1, Living DEF Walking, IInv, Types, CompleteInv
<1>3. /\ t'.stack = t.stack /\ t'.dirname_length = t.dirname_length
      /\ t'.path = t.path /\ t'.d = t.d
  BY <1>1, <1>2 DEF TreeType
<1>4. /\ Begun(t')
      /\ \A p : Awaited(t, a.pc, p) =>
                  Awaited(t', a'.pc, p) \/ Looks(t, a.pc, p) \/ Reads(t, p)
  BY <1>2, <1>3, StillAwaited
<1>5. \A p : Reads(t, p) => Reads(t', p)
  BY <1>3 DEF Reads, Through
<1>6. skipped \subseteq skipped' /\ (Open(t, a.pc) => t.path \in skipped')
  BY <1>1 DEF Passed, Open
<1>7. ASSUME NEW p \in Seq(Nodes), Looks(t, a.pc, p) PROVE ~Free(p, skipped')
  <2> DEFINE l == t.dirname_length
             q == t.path
  <2>1. l \in Nat /\ q \in Seq(Nodes) /\ Len(q) \in Nat /\ Len(p) \in Nat
    BY <1>2 DEF TreeType
  <2>2. Len(q) = l + 1 /\ Len(p) > l + 1 /\ (\A i \in 1..l : p[i] = q[i]) /\ p[l + 1] = Last(q)
    BY <1>1, <1>2, <1>7 DEF Looks, Visiting, Through
  <2>3. Last(q) = q[l + 1]
    BY <2>2 DEF Last
  <2>4. q \in skipped'
    BY <1>6, <1>7 DEF Looks
  <2> HIDE DEF l, q
  <2>5. \A i \in 1..Len(q) : p[i] = q[i]
    <3>1. \A i \in 1..(l + 1) : i \in 1..l \/ i = l + 1
      BY <2>1
    <3> QED
      BY <3>1, <2>2, <2>3
  <2>6. Len(q) >= 1 /\ Len(p) > Len(q) /\ Len(q) <= Len(q)
    BY <2>1, <2>2
  <2>7. SubSeq(q, 1, Len(q)) = q
    BY <2>1, <2>5, <2>6, SameBeginning
  <2>8. \A s : SubSeq(q, 1, Len(q)) \in s => ~Free(p, s)
    BY <2>1, <2>5, <2>6, SameBeginning
  <2> QED
    BY <2>4, <2>7, <2>8
<1> QED
  BY <1>1, <1>2, <1>4, <1>5, <1>6, <1>7, CompleteStep DEF Awaited

LEMMA DescendComplete ==
  ASSUME IInv, CompleteInv, Descend
  PROVE  CompleteInv'
<1>1. a.pc = "out" /\ a.state \in {"header", "data"} /\ t.visit = "regular" /\ t.descend
      /\ t' = Pushed(t) /\ disk' = disk /\ a' = a /\ changed' = changed /\ seen' = seen
      /\ skipped' = skipped
  BY DEF Descend
<1>2. /\ Alive /\ Shape(t) /\ Visiting(t, a.pc) /\ t \in TreeType /\ Begun(t) /\ Open(t, a.pc)
  BY <1>1, Living DEF Walking, IInv, Types, CompleteInv, Open
<1>3. /\ Begun(t')
      /\ \A p : Awaited(t, a.pc, p) /\ (Looks(t, a.pc, p) => Len(p) > t.dirname_length + 1) =>
                  Awaited(t', a'.pc, p)
  BY <1>1, <1>2, PushedComplete
<1>4. \A p : Looks(t, a.pc, p) => Len(p) > t.dirname_length + 1
  BY <1>1 DEF Looks
<1> QED
  BY <1>1, <1>2, <1>3, <1>4, CompleteStep

(* What others change does not lie on a steady path.                       *)
LEMMA OthersComplete ==
  ASSUME IInv, CompleteInv, Others
  PROVE  CompleteInv'
<1>1. a.state \in {"header", "data"} /\ seen' = seen /\ skipped' = skipped
  BY DEF Others, Vanish, Appear, Resize, Alter
<1>2. Alive /\ t # Closed
  BY <1>1, Living
<1>3. Types /\ Housed(disk)
  BY DEF IInv
<1>4. PICK n \in Nodes : AltersObject(n)
  BY <1>2, <1>3, OthersStep
<1>5. /\ changed' = changed \cup {n} /\ disk'.up = disk.up
      /\ \A m \in Nodes : m # n => disk'.kind[m] = disk.kind[m]
      /\ t'.d.on = t.d.on /\ t'.stack = t.stack /\ t'.path = t.path /\ t'.visit = t.visit
      /\ t'.descend = t.descend /\ t'.dirname_length = t.dirname_length /\ a' = a
      /\ t.d.left \subseteq t'.d.left \cup {n}
  BY <1>4 DEF AltersObject
<1>6. ASSUME NEW p \in Seq(Nodes), Steady(p)'
      PROVE  Steady(p) /\ \A k \in 1..Len(p) : p[k] # n
  <2>1. \A k \in 1..Len(p) : p[k] \in Nodes /\ p[k] \notin changed' /\ disk'.kind[p[k]] # "none"
    BY <1>6 DEF Steady
  <2>2. \A k \in 1..Len(p) : p[k] \notin changed /\ p[k] # n /\ disk'.kind[p[k]] = disk.kind[p[k]]
    BY <2>1, <1>5
  <2>3. \A k \in 1..(Len(p) - 1) : k \in 1..Len(p)
    OBVIOUS
  <2>4. \A k \in 1..(Len(p) - 1) :
          disk'.up[p[k + 1]] = p[k] /\ disk'.kind[p[k]] = "dir" /\ p[k] \notin Excluded
    BY <1>6 DEF Steady
  <2>5. Len(p) >= 1 /\ p[1] = Top /\ p[Len(p)] \notin Excluded \cup Unwanted
    BY <1>6 DEF Steady
  <2>6. \A k \in 1..(Len(p) - 1) :
          disk.up[p[k + 1]] = p[k] /\ disk.kind[p[k]] = "dir" /\ p[k] \notin Excluded
    <3>1. disk'.up = disk.up
      BY <1>5
    <3> QED
      BY <2>2, <2>3, <2>4, <3>1
  <2>7. \A k \in 1..Len(p) : p[k] \notin changed /\ disk.kind[p[k]] # "none"
    BY <2>1, <2>2
  <2>8. Steady(p)
    BY <2>5, <2>6, <2>7 DEF Steady
  <2> QED
    BY <2>2, <2>8
<1>7. \A d, m, q : Through(t', d, m, q) <=> Through(t, d, m, q)
  BY <1>5 DEF Through
<1>8. ASSUME NEW p \in Seq(Nodes), \A k \in 1..Len(p) : p[k] # n, Awaited(t, a.pc, p)
      PROVE  Awaited(t', a.pc, p)
  <2>1. Begins(t) => Begins(t')
    BY <1>5 DEF Begins
  <2>2. Looks(t, a.pc, p) => Looks(t', a.pc, p)
    BY <1>5, <1>7 DEF Looks, Open
  <2>3. \A k : Enters(t, k, p) => Enters(t', k, p)
    BY <1>5, <1>7 DEF Enters, Waits
  <2>4. ASSUME Reads(t, p) PROVE Reads(t', p)
    <3>1. PICK m \in t.d.left : Through(t, t.dirname_length, m, p)
      BY <2>4 DEF Reads
    <3>2. t.dirname_length \in Nat
      BY <1>3 DEF Types, TreeType
    <3>3. t.dirname_length + 1 \in 1..Len(p) /\ p[t.dirname_length + 1] = m
      BY <3>1, <3>2 DEF Through
    <3>4. m \in t'.d.left
      BY <3>3, <1>5, <1>8
    <3> QED
      BY <3>1, <3>4, <2>4, <1>5, <1>7 DEF Reads
  <2> QED
    BY <2>1, <2>2, <2>3, <2>4, <1>5, <1>8 DEF Awaited
<1>9. Begun(t)' /\ disk'.up[Top] = Cwd
  BY <1>2, <1>5 DEF CompleteInv, Begun
<1>10. ASSUME NEW p \in Seq(Nodes), Steady(p)', Free(p, skipped)
       PROVE  p \in seen \/ Awaited(t', a.pc, p)
  <2>1. p \in seen \/ Awaited(t, a.pc, p)
    BY <1>2, <1>6, <1>10 DEF CompleteInv
  <2> QED
    BY <2>1, <1>6, <1>8, <1>10
<1>11. \A p : Awaited(t', a.pc, p) => Awaited(t, a.pc, p)'
  BY <1>5 DEF Awaited
<1>12. \A p : Free(p, skipped)' => Free(p, skipped)
  BY <1>1 DEF Free
<1> QED
  BY <1>1, <1>9, <1>10, <1>11, <1>12 DEF CompleteInv

LEMMA CompleteInit == Init => CompleteInv
<1> SUFFICES ASSUME Init PROVE CompleteInv
  OBVIOUS
<1>1. disk.up[Top] = Cwd /\ \E mode, restore : t = Reopened(mode, restore)
  BY DisksAssumption DEF Init
<1>2. Len(t.stack) = 1 /\ t.stack[1].name = Top /\ t.stack[1].needs = {"visit"}
  BY <1>1 DEF Reopened, Closed, TreeEntry
<1> QED
  BY <1>1, <1>2 DEF CompleteInv, Begun, Awaited, Begins

LEMMA CompleteNext ==
  ASSUME Movable = {}, IInv, CompleteInv, [Next]_vars
  PROVE  CompleteInv'
<1>1. ASSUME UNCHANGED <<t, a, disk, changed, seen, skipped>> PROVE CompleteInv'
  <2>1. CASE Alive
    <3>1. Begun(t) /\ t' = t /\ a' = a /\ disk' = disk /\ changed' = changed /\ seen' = seen
          /\ skipped' = skipped
      BY <1>1, <2>1 DEF CompleteInv
    <3>2. \A p : Awaited(t, a.pc, p) => Awaited(t', a'.pc, p)
      BY <3>1
    <3> QED
      BY <2>1, <3>1, <3>2, CompleteStep
  <2>2. CASE ~Alive
    BY <1>1, <2>2 DEF CompleteInv, Alive
  <2> QED
    BY <2>1, <2>2
<1>2. CASE NextHeader
  BY <1>2, NextHeaderComplete
<1>3. CASE Walks
  BY <1>3, WalksComplete
<1>4. CASE WalkEnds
  BY <1>4, WalkEndsComplete
<1>5. CASE Missing
  BY <1>5, MissingComplete
<1>6. CASE PathExcluded
  BY <1>6, PathExcludedComplete
<1>7. CASE EntryExcluded
  BY <1>7, EntryExcludedComplete
<1>8. CASE Visit
  BY <1>8, VisitComplete
<1>9. CASE WalkFails
  BY <1>9, WalkFailsComplete
<1>10. CASE Descend
  BY <1>10, DescendComplete
<1>11. CASE OpenFile
  BY <1>1, <1>11 DEF OpenFile
<1>12. CASE DataBlock
  BY <1>1, <1>12 DEF DataBlock
<1>13. CASE Close
  BY <1>13 DEF Close, CompleteInv, Alive
<1>14. CASE Others
  BY <1>14, OthersComplete
<1>15. CASE UNCHANGED vars
  BY <1>1, <1>15 DEF vars
<1>16. CASE DataFails
  <2>1. a'.state = "fatal"
    BY <1>16 DEF DataFails, IInv, Types, CallType
  <2> QED
    BY <2>1, <1>16 DEF DataFails, CompleteInv, Alive
<1>17. ~Displace
  BY DEF Displace
<1> QED
  BY <1>2, <1>3, <1>4, <1>5, <1>6, <1>7, <1>8, <1>9, <1>10, <1>11, <1>12, <1>13, <1>14, <1>15,
     <1>16, <1>17 DEF Next, Call

(* The path of an object, as the recursion of PathOf gives it.             *)
LEMMA PathsExist ==
  ASSUME NEW c \in Nat, NEW parent
  PROVE  \E f : f = [k \in 0..c |->
                       [i \in Nodes \cup {Nothing} |->
                          IF i \in {Cwd, Nothing} \/ k = 0 THEN <<>>
                          ELSE Append(f[k - 1][parent[i]], i)]]
<1> DEFINE H(h, k) == [i \in Nodes \cup {Nothing} |->
                         IF i \in {Cwd, Nothing} \/ k = 0 THEN <<>> ELSE Append(h[parent[i]], i)]
           F(f, k) == H(f[k - 1], k)
           S == {m \in Nat : \E f : f = [k \in 0..m |-> F(f, k)]}
<1>0. \A h, g : H(h, 0) = H(g, 0)
  OBVIOUS
<1> HIDE DEF H
<1>1. 0 \in S
  <2> DEFINE f == [k \in 0..0 |-> H(0, 0)]
  <2>1. \A k \in 0..0 : F(f, k) = H(0, 0)
    <3>1. \A k \in 0..0 : k = 0
      OBVIOUS
    <3> HIDE DEF f
    <3> QED
      BY <3>1, <1>0
  <2>2. f = [k \in 0..0 |-> F(f, k)]
    <3> HIDE DEF F
    <3> QED
      BY <2>1
  <2> QED
    BY <2>2
<1>2. ASSUME NEW m \in Nat, m \in S PROVE m + 1 \in S
  <2>2. PICK f : f = [k \in 0..m |-> F(f, k)]
    BY <1>2
  <2> DEFINE g == [k \in 0..(m + 1) |-> IF k = m + 1 THEN F(f, m + 1) ELSE f[k]]
  <2>3. ASSUME NEW k \in 0..(m + 1) PROVE g[k] = F(g, k)
    <3>1. k # 0 => k - 1 \in 0..m
      OBVIOUS
    <3>2. k # 0 => g[k - 1] = f[k - 1]
      BY <3>1
    <3>3. F(g, k) = F(f, k)
      <4> HIDE DEF g
      <4> QED
        BY <3>2, <1>0
    <3>4. CASE k = m + 1
      BY <3>3, <3>4
    <3>5. CASE k # m + 1
      <4>1. k \in 0..m
        BY <3>5
      <4> HIDE DEF F
      <4>2. f[k] = F(f, k)
        BY <4>1, <2>2
      <4>3. g[k] = f[k]
        BY <3>5
      <4> QED
        BY <3>3, <4>2, <4>3
    <3> QED
      BY <3>4, <3>5
  <2> HIDE DEF F
  <2>4. g = [k \in 0..(m + 1) |-> g[k]]
    OBVIOUS
  <2>5. g = [k \in 0..(m + 1) |-> F(g, k)]
    <3> HIDE DEF g
    <3> QED
      BY <2>3, <2>4
  <2>6. m + 1 \in Nat
    OBVIOUS
  <2> QED
    BY <2>5, <2>6
<1> HIDE DEF F, S
<1>3. Nat \subseteq S
  BY <1>1, <1>2, SetInduction
<1>4. c \in S
  BY <1>3
<1> QED
  BY <1>4 DEF S, F, H

(* Each name is that of a directory the next one lies in.                  *)
Chain(p, i) ==
  /\ p \in Seq(Nodes) /\ (Len(p) >= 1 => p[Len(p)] = i)
  /\ \A k \in 1..Len(p) : disk.kind[p[k]] # "none"
  /\ \A k \in 1..(Len(p) - 1) : disk.up[p[k + 1]] = p[k] /\ disk.kind[p[k]] = "dir"

LEMMA LongerChain ==
  ASSUME NEW i \in Nodes, disk.kind[i] # "none", disk.kind[disk.up[i]] = "dir",
         NEW q, Chain(q, disk.up[i])
  PROVE  Chain(Append(q, i), i)
<1> DEFINE p == Append(q, i)
           m == Len(q)
<1>1. q \in Seq(Nodes) /\ m \in Nat
  BY DEF Chain
<1>2. p \in Seq(Nodes) /\ Len(p) = m + 1 /\ p[m + 1] = i /\ \A k \in 1..m : p[k] = q[k]
  BY <1>1
<1>3. /\ m >= 1 => q[m] = disk.up[i]
      /\ \A k \in 1..m : disk.kind[q[k]] # "none"
      /\ \A k \in 1..(m - 1) : disk.up[q[k + 1]] = q[k] /\ disk.kind[q[k]] = "dir"
  BY DEF Chain
<1> HIDE DEF p, m
<1>4. \A k \in 1..(m + 1) : disk.kind[p[k]] # "none"
  <2>1. \A k \in 1..(m + 1) : k \in 1..m \/ k = m + 1
    BY <1>1
  <2> QED
    BY <2>1, <1>2, <1>3
<1>5. ASSUME NEW k \in 1..m PROVE disk.up[p[k + 1]] = p[k] /\ disk.kind[p[k]] = "dir"
  <2>1. CASE k = m
    BY <2>1, <1>1, <1>2, <1>3
  <2>2. CASE k # m
    <3>1. k \in 1..(m - 1) /\ k + 1 \in 1..m
      BY <2>2, <1>1
    <3>2. p[k] = q[k] /\ p[k + 1] = q[k + 1]
      BY <3>1, <1>2
    <3> QED
      BY <3>1, <3>2, <1>3
  <2> QED
    BY <2>1, <2>2
<1>6. (m + 1) - 1 = m
  BY <1>1
<1> QED
  BY <1>2, <1>4, <1>5, <1>6 DEF Chain, p

LEMMA PathIsChain ==
  ASSUME disk \in DiskType, Housed(disk), NEW n \in Nodes, disk.kind[n] # "none"
  PROVE  Chain(PathOf(n), n)
<1> DEFINE c == Cardinality(Nodes)
           up == CHOOSE f : f = [k \in 0..c |->
                       [i \in Nodes \cup {Nothing} |->
                          IF i \in {Cwd, Nothing} \/ k = 0 THEN <<>>
                          ELSE Append(f[k - 1][disk.up[i]], i)]]
<1>1. PathOf(n) = up[c][n]
  BY DEF PathOf
<1>2. c \in Nat
  BY NodesAssumption, FS_CardinalityType
<1> HIDE DEF c
<1>3. up = [k \in 0..c |->
              [i \in Nodes \cup {Nothing} |->
                 IF i \in {Cwd, Nothing} \/ k = 0 THEN <<>>
                 ELSE Append(up[k - 1][disk.up[i]], i)]]
  <2>1. PICK m \in Nat : m = c
    BY <1>2
  <2>2. \E f : f = [k \in 0..m |->
                       [i \in Nodes \cup {Nothing} |->
                          IF i \in {Cwd, Nothing} \/ k = 0 THEN <<>>
                          ELSE Append(f[k - 1][disk.up[i]], i)]]
    BY PathsExist, Zenon
  <2> QED
    BY <2>1, <2>2, Zenon
<1> HIDE DEF up
<1>4. ASSUME NEW k \in 0..c, NEW i \in Nodes
      PROVE  up[k][i] = IF i \in {Cwd, Nothing} \/ k = 0 THEN <<>>
                        ELSE Append(up[k - 1][disk.up[i]], i)
  <2> DEFINE H(j) == [m \in Nodes \cup {Nothing} |->
                        IF m \in {Cwd, Nothing} \/ j = 0 THEN <<>>
                        ELSE Append(up[j - 1][disk.up[m]], m)]
  <2>1. up = [j \in 0..c |-> H(j)]
    BY <1>3
  <2>2. up[k] = H(k)
    <3> HIDE DEF H
    <3> QED
      BY <2>1
  <2> QED
    BY <2>2
<1>5. \A i : Chain(<<>>, i)
  BY DEF Chain
<1> DEFINE S == {m \in Nat : m <= c => \A i \in Nodes : disk.kind[i] # "none" => Chain(up[m][i], i)}
<1>6. 0 \in S
  <2>1. 0 <= c => \A i \in Nodes : up[0][i] = <<>>
    BY <1>2, <1>4
  <2> QED
    BY <2>1, <1>5
<1>7. ASSUME NEW m \in Nat, m \in S PROVE m + 1 \in S
  <2>1. ASSUME m + 1 <= c, NEW i \in Nodes, disk.kind[i] # "none" PROVE Chain(up[m + 1][i], i)
    <3>1. m + 1 \in 0..c /\ m + 1 # 0 /\ (m + 1) - 1 = m /\ m <= c
      BY <2>1, <1>2
    <3>2. CASE i \in {Cwd, Nothing}
      BY <3>1, <3>2, <1>4, <1>5
    <3>3. CASE i \notin {Cwd, Nothing}
      <4>1. disk.up[i] \in Nodes /\ disk.kind[disk.up[i]] = "dir"
        BY <2>1, <3>3 DEF Housed, DiskType
      <4>2. disk.kind[disk.up[i]] # "none"
        BY <4>1
      <4>3. Chain(up[m][disk.up[i]], disk.up[i])
        BY <3>1, <4>1, <4>2, <1>7
      <4>4. Chain(Append(up[m][disk.up[i]], i), i)
        BY <2>1, <4>1, <4>3, LongerChain
      <4>5. up[m + 1][i] = Append(up[(m + 1) - 1][disk.up[i]], i)
        BY <3>1, <3>3, <1>4
      <4> QED
        BY <3>1, <4>4, <4>5
    <3> QED
      BY <3>2, <3>3
  <2> QED
    BY <2>1
<1>8. Nat \subseteq S
  <2> HIDE DEF S
  <2> QED
    BY <1>6, <1>7, SetInduction
<1>9. c \in S /\ c <= c
  BY <1>2, <1>8
<1> QED
  BY <1>1, <1>9

LEMMA ExpectedIsSteady ==
  ASSUME disk \in DiskType, Housed(disk), NEW n \in Nodes, Expected(n)
  PROVE  LET p == PathOf(n) IN p \in Seq(Nodes) /\ Steady(p) /\ Free(p, skipped)
<1> DEFINE p == PathOf(n)
<1>1. /\ disk.kind[n] # "none" /\ Still(p) /\ p # <<>> /\ p[1] = Top
      /\ n \notin Excluded \cup Unwanted
      /\ \A k \in 1..(Len(p) - 1) : p[k] \notin Excluded /\ SubSeq(p, 1, k) \notin skipped
  BY DEF Expected
<1>2. Chain(p, n)
  BY <1>1, PathIsChain
<1> HIDE DEF p
<1>3. p \in Seq(Nodes) /\ Len(p) \in Nat /\ Len(p) >= 1 /\ DOMAIN p = 1..Len(p)
  BY <1>1, <1>2 DEF Chain
<1>4. Steady(p)
  BY <1>1, <1>2, <1>3 DEF Chain, Steady, Still
<1>5. Free(p, skipped)
  BY <1>1 DEF Free
<1> QED
  BY <1>3, <1>4, <1>5 DEF p

(* Whatever others remove, make or resize meanwhile, as long as they move  *)
(* no directory and put no link in its place, no path is reported twice,   *)
(* and a walk that came to its end has reported every object that stayed,  *)
(* but for those the client left out and those below a directory it did    *)
(* not descend into or that failed (tree_next, tree_push, tree_pop,        *)
(* next_entry, archive_read_disk_descend).                                 *)
THEOREM WalkMissesNothing ==
  ASSUME Movable = {}
  PROVE  Spec => []WalkComplete
<1>1. IInv /\ OnceInv /\ CompleteInv => WalkComplete
  <2>1. SUFFICES ASSUME IInv, OnceInv, CompleteInv, a.state = "eof", NEW n \in Nodes, Expected(n)
                 PROVE  PathOf(n) \in seen
    BY DEF WalkComplete, OnceInv
  <2>2. t.stack = <<>> /\ a.pc = "out" /\ t # Closed /\ Alive
    BY <2>1 DEF IInv, Held, Alive
  <2>3. Shape(t) /\ Visiting(t, "out") /\ Len(t.stack) = 0
    BY <2>1, <2>2 DEF IInv, Walking
  <2>4. t.current = 0 /\ ~t.d.on
    BY <2>3 DEF Shape, Current
  <2>5. ~Open(t, "out")
    BY <2>3, <2>4 DEF Visiting
  <2>6. \A p : ~Awaited(t, "out", p)
    BY <2>3, <2>4, <2>5 DEF Awaited, Begins, Looks, Reads
  <2>7. PathOf(n) \in Seq(Nodes) /\ Steady(PathOf(n)) /\ Free(PathOf(n), skipped)
    BY <2>1, ExpectedIsSteady DEF IInv, Types
  <2> QED
    BY <2>1, <2>2, <2>6, <2>7 DEF CompleteInv
<1>2. OnceInv /\ IInv /\ [Next]_vars => OnceInv'
  BY OnceNext
<1>3. CompleteInv /\ IInv /\ [Next]_vars => CompleteInv'
  BY CompleteNext
<1> QED
  BY <1>1, <1>2, <1>3, OnceInit, CompleteInit, IInvAlways, PTL DEF Spec

=============================================================================
