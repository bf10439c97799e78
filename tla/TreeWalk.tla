------------------------------ MODULE TreeWalk ------------------------------
(***************************************************************************)
(* The directory walk of archive_read_disk_posix.c: struct tree with its   *)
(* stack of directories that still need something, the directory stream    *)
(* and the descriptors it works with, over a file system that others       *)
(* change.                                                                 *)
(*                                                                         *)
(* An object is a number that is its name in its directory, too.  A        *)
(* symbolic link leads to an object that is not a link, or to Nothing.     *)
(* The time of an object is its own number, 0 when it was read since.      *)
(***************************************************************************)
EXTENDS Integers, Sequences, SequencesExt, FiniteSets

CONSTANTS
  Nodes,        \* numbers of objects, from 1
  Cwd,          \* the directory of the program
  Top           \* the path that is walked, a name in Cwd

ASSUME NodesAssumption ==
  Nodes \subseteq Nat \ {0} /\ IsFiniteSet(Nodes) /\ Cwd \in Nodes /\ Top \in Nodes

Nothing == 0

VARIABLES
  disk,         \* kind, up, to and size of each object, and who refuses to be opened
  atime,        \* the access time of each object
  t,            \* struct tree
  fds,          \* descriptors the walk has open and knows of
  leaked        \* descriptors that are open and that nothing knows of any more

-----------------------------------------------------------------------------
(* The file system.                                                        *)

DiskType ==
  [kind : [Nodes -> {"none", "file", "dir", "link"}], up : [Nodes -> Nodes \cup {Nothing}],
   to : [Nodes -> Nodes \cup {Nothing}], size : [Nodes -> Nat], refuses : SUBSET Nodes]

(* What is there lies in a directory, down from that of the program.       *)
Housed(d) ==
  /\ d.up[Cwd] = Nothing /\ d.kind[Cwd] = "dir"
  /\ \A n \in Nodes : d.kind[n] # "none" /\ n # Cwd =>
       d.up[n] # Nothing /\ d.kind[d.up[n]] = "dir"

Object(dir, name) ==
  IF disk.kind[name] # "none" /\ disk.up[name] = dir THEN name ELSE Nothing

Follow(i) ==
  IF i = Nothing \/ disk.kind[i] # "link" THEN i
  ELSE IF disk.to[i] # Nothing /\ disk.kind[disk.to[i]] # "none" THEN disk.to[i] ELSE Nothing

IsDirectory(i) == i # Nothing /\ disk.kind[i] = "dir"
Names(dir) == {n \in Nodes : disk.kind[n] # "none" /\ disk.up[n] = dir}

(* "..", as if the directory of the program were the root.                 *)
Up(dir) == IF dir = Cwd THEN Cwd ELSE disk.up[dir]

(* The directory a path of names leads to.                                 *)
Place(path) ==
  LET dir[k \in 0..Len(path)] ==
        IF k = 0 THEN Cwd
        ELSE IF dir[k - 1] = Nothing THEN Nothing ELSE Follow(Object(dir[k - 1], path[k]))
  IN dir[Len(path)]

-----------------------------------------------------------------------------
(* struct tree.  A stack entry knows its parent by its place in the stack. *)
(* Variants named ...Faulty are the code with one plausible slip; they are *)
(* what the properties are tried against.                                  *)

NoStream == [on |-> FALSE, left |-> {}]

TreeEntry(name, parent, ino, link, dirname_length, time) ==
  [name |-> name, parent |-> parent, ino |-> ino, link |-> link,
   needs |-> {"descent", "open", "ascent"}, dirname_length |-> dirname_length,
   symlink_parent |-> Nothing, time |-> time]

Closed ==
  [stack |-> <<>>, current |-> 0, d |-> NoStream, visit |-> "none", path |-> <<>>,
   dirname_length |-> 0, depth |-> 0, working_dir |-> Nothing, lst |-> Nothing,
   st |-> Nothing, descend |-> FALSE, time |-> 0, symlink_mode |-> "P", restore |-> FALSE]

(* The initial path is not descended yet: it is only visited.              *)
Reopened(mode, restore) ==
  [Closed EXCEPT
     !.stack = <<[TreeEntry(Top, 0, Nothing, FALSE, 0, 0) EXCEPT !.needs = {"visit"}]>>,
     !.working_dir = Cwd, !.symlink_mode = mode, !.restore = restore]

TopEntry == Last(t.stack)
Needs(what) == t.stack # <<>> /\ ~t.d.on /\ what \in TopEntry.needs
TopDone(w, what) == [w EXCEPT !.stack[Len(w.stack)].needs = @ \ {what}]

Append1(w, name) == [w EXCEPT !.path = Append(SubSeq(@, 1, w.dirname_length), name)]

(* The path the entry was found under comes back with the entry.           *)
PopFaulty(w) ==
  LET te == Last(w.stack) IN
  [w EXCEPT !.path = SubSeq(@, 1, w.dirname_length), !.stack = Front(@),
            !.current = IF @ = Len(w.stack) THEN te.parent ELSE @]

Pop(w) ==
  LET te == Last(w.stack) IN
  [w EXCEPT !.path = SubSeq(@, 1, w.dirname_length), !.stack = Front(@),
            !.current = IF @ = Len(w.stack) THEN te.parent ELSE @,
            !.dirname_length = te.dirname_length]

(* archive_read_disk_descend: the directory of the initial path is left    *)
(* the way a link is.                                                      *)
Pushed(w) ==
  LET physical == IsDirectory(w.lst)
      ino == IF physical THEN w.lst ELSE w.st
      first == w.stack[w.current].parent = 0
  IN [w EXCEPT !.stack = Append(@, TreeEntry(Last(w.path), w.current, ino, ~physical \/ first,
                                             w.dirname_length, w.time)),
               !.descend = FALSE]

Restored(fd, time) == IF t.restore THEN [atime EXCEPT ![fd] = time] ELSE atime

-----------------------------------------------------------------------------
(* tree_next, one round of its loop at a time: what is to be done with the *)
(* top of the stack.  Each leaves t, atime and fds and says what came out: *)
(* "regular", "more", "error", "fatal" or "end"; leaked is theirs only     *)
(* where they name it.                                                     *)

FirstVisit ==
  /\ Needs("visit")
  /\ t' = [Append1(TopDone([t EXCEPT !.current = Len(t.stack)], "visit"), TopEntry.name)
             EXCEPT !.visit = "regular"]
  /\ UNCHANGED <<atime, fds>>

Entering == TopDone(Append1([t EXCEPT !.current = Len(t.stack)], TopEntry.name), "descent")

(* The descriptor of the directory above is kept for the way back from a   *)
(* link only.                                                              *)
KeepsParentFaulty == TRUE

KeepsParent == TopEntry.link

(* Only the top of the stack can be descended into that is not visited.    *)
Descent ==
  /\ Needs("descent") /\ ~Needs("visit")
  /\ LET dir == Follow(Object(t.working_dir, TopEntry.name)) IN
     /\ IsDirectory(dir) /\ dir \notin disk.refuses
     /\ t' = [Entering EXCEPT
                !.dirname_length = Len(Entering.path), !.depth = @ + 1,
                !.stack[Len(t.stack)].symlink_parent = IF TopEntry.link THEN t.working_dir ELSE @,
                !.working_dir = dir, !.visit = "postdescent"]
     /\ fds' = IF KeepsParent THEN fds + 1 ELSE fds
  /\ UNCHANGED atime

DescentFails ==
  /\ Needs("descent") /\ ~Needs("visit")
  /\ LET dir == Follow(Object(t.working_dir, TopEntry.name)) IN
     ~IsDirectory(dir) \/ dir \in disk.refuses
  /\ t' = [Pop([Entering EXCEPT !.dirname_length = Len(Entering.path)]) EXCEPT !.visit = "error"]
  /\ UNCHANGED <<atime, fds>>

(* tree_ascend and tree_pop, after the way back was found or not.          *)
Ascended(visit) ==
  /\ t' = [Pop([t EXCEPT !.working_dir = IF TopEntry.link THEN TopEntry.symlink_parent
                                         ELSE Up(@),
                         !.depth = @ - 1]) EXCEPT !.visit = visit]
  /\ atime' = Restored(t.working_dir, TopEntry.time)
  /\ fds' = IF TopEntry.link THEN fds - 1 ELSE fds

OpenStream ==
  /\ Needs("open") /\ ~Needs("descent")
  /\ t' = TopDone([t EXCEPT !.d = [on |-> TRUE, left |-> Names(t.working_dir)]], "open")
  /\ fds' = fds + 1
  /\ UNCHANGED atime

(* ".." cannot be opened: nothing is closed, the entry goes.               *)
NoWayBack ==
  /\ ~TopEntry.link
  /\ t' = [Pop(t) EXCEPT !.visit = "fatal"]
  /\ UNCHANGED <<atime, fds>>

NoStreamOpens ==
  /\ Needs("open") /\ ~Needs("descent")
  /\ Ascended("error") \/ NoWayBack

DuplicateFails == NoStreamOpens /\ UNCHANGED leaked

(* fdopendir fails, and the duplicate made for it is not closed.           *)
OpenStreamFails == NoStreamOpens /\ leaked' = leaked + 1

ReadDirectory(n) ==
  /\ t.d.on /\ n \in t.d.left
  /\ t' = [Append1([t EXCEPT !.d.left = @ \ {n}], n) EXCEPT
             !.visit = "regular", !.lst = Nothing, !.st = Nothing]
  /\ atime' = [atime EXCEPT ![t.working_dir] = 0]
  /\ UNCHANGED fds

EndDirectoryFaulty == t' = t /\ UNCHANGED <<atime, fds>>

EndDirectory ==
  /\ t' = [t EXCEPT !.d = NoStream]
  /\ atime' = [atime EXCEPT ![t.working_dir] = 0]
  /\ fds' = fds - 1

StreamEnds == t.d.on /\ t.d.left = {} /\ EndDirectory

ReadDirectoryFails ==
  /\ t.d.on
  /\ t' = [t EXCEPT !.d = NoStream, !.visit = "error"] /\ fds' = fds - 1
  /\ UNCHANGED atime

Ascent ==
  /\ Needs("ascent") /\ ~Needs("open")
  /\ Ascended("postascent")

AscentFails ==
  /\ Needs("ascent") /\ ~Needs("open")
  /\ NoWayBack

Dead ==
  /\ t.stack # <<>> /\ ~t.d.on /\ TopEntry.needs = {}
  /\ t' = [Pop(t) EXCEPT !.lst = Nothing, !.st = Nothing]
  /\ UNCHANGED <<atime, fds>>

-----------------------------------------------------------------------------
(* The directories above the one that is read, without that one itself.    *)
Above ==
  LET chain[k \in 0..Len(t.stack)] ==
        IF k = 0 THEN {} ELSE {t.stack[k].ino} \cup chain[t.stack[k].parent]
  IN IF t.current = 0 THEN {} ELSE chain[t.stack[t.current].parent]

SameAsParentFaulty(i) == FALSE

SameAsParent(i) == i \in Above

(* tree_close                                                              *)
Descriptors ==
  2 + (IF t.d.on THEN 1 ELSE 0)
  + Cardinality({k \in 1..Len(t.stack) : t.stack[k].symlink_parent # Nothing})
=============================================================================
