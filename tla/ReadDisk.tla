------------------------------ MODULE ReadDisk ------------------------------
(***************************************************************************)
(* Reading entries from disk (archive_read_disk_posix.c): the calls that   *)
(* ask for the next entry, for the descent into a directory and for data,  *)
(* over the walk of TreeWalk, while files come and go and directories do   *)
(* not open.                                                               *)
(***************************************************************************)
EXTENDS TreeWalk

CONSTANTS
  Disks,        \* file systems to start with
  Modes,        \* "P", "L", "H": which links are followed
  Excluded,     \* names the path matching excludes
  Unwanted,     \* names that time or owner matching or the filter excludes
  Restores,     \* whether access times are to be restored, as a set
  Layouts,      \* sparse maps of a file: sequences of [offset, length]
  BufSize,      \* bytes a block may have
  Faults,       \* "dup", "fdopendir", "readdir", "ascent", "data": what may fail
  Volatile,     \* bound: objects that others remove, make or resize
  Movable,      \* bound: directories that others move or put a link in place of
  MaxChanges    \* bound: how many of them

ASSUME OptionsAssumption ==
  /\ Modes \subseteq {"P", "L", "H"} /\ Restores \subseteq BOOLEAN
  /\ BufSize \in Nat \ {0} /\ Volatile \subseteq Nodes /\ Movable \subseteq Nodes \ {Cwd, Top}

ASSUME DisksAssumption == \A d \in Disks : d \in DiskType /\ Housed(d) /\ d.up[Top] = Cwd

(* The regions with data come in their order and do not overlap.           *)
ASSUME LayoutsAssumption ==
  \A l \in Layouts :
    /\ l \in Seq([offset : Nat, length : Nat])
    /\ \A k \in 1..(Len(l) - 1) : l[k].offset + l[k].length <= l[k + 1].offset

VARIABLES
  a,            \* struct archive_read_disk: state, where its call is, delayed answer
  entry,        \* the data of the entry: entry_fd, entry_total, the sparse list
  changed,      \* history: objects that came, went or changed, links that lead elsewhere
  strayed,      \* history: others took away the way back, or put a link on the way
  seen,         \* history: the paths that were reported
  again,        \* history: a path was reported twice
  skipped       \* history: directories not descended into, or not to the end

vars == <<disk, atime, t, fds, leaked, a, entry, changed, strayed, seen, again, skipped>>

NoFile == [fd |-> Nothing, pos |-> 0, list |-> <<>>, cur |-> 1, total |-> 0, remaining |-> 0,
           eof |-> TRUE, size |-> 0, got |-> {}]

Init ==
  /\ disk \in Disks /\ atime = [n \in Nodes |-> n]
  /\ \E mode \in Modes, restore \in Restores : t = Reopened(mode, restore)
  /\ fds = 2 /\ leaked = 0 /\ strayed = FALSE
  /\ a = [state |-> "header", pc |-> "out", delayed |-> FALSE, reply |-> "ok"]
  /\ entry = NoFile /\ changed = {} /\ seen = {} /\ again = FALSE /\ skipped = {}

-----------------------------------------------------------------------------
(* _archive_read_next_header2                                              *)

DirectoryPath(w) == SubSeq(w.path, 1, w.dirname_length)

(* A directory the client could have descended into and did not.  What is  *)
(* left of the data of the last entry is not asked for any more.           *)
Passed == IF t.visit = "regular" /\ t.descend THEN skipped \cup {t.path} ELSE skipped

NextHeader ==
  /\ a.pc = "out" /\ a.state \in {"header", "data"}
  /\ a' = [a EXCEPT !.pc = "next", !.delayed = FALSE]
  /\ t' = [t EXCEPT !.descend = FALSE]
  /\ atime' = IF entry.fd # Nothing THEN Restored(entry.fd, t.time) ELSE atime
  /\ fds' = IF entry.fd # Nothing THEN fds - 1 ELSE fds
  /\ entry' = NoFile
  /\ skipped' = Passed
  /\ UNCHANGED <<disk, leaked, changed, strayed, seen, again>>

(* What next_entry makes of the visit that tree_next found.                *)
Goes(visit) ==
  /\ a' = CASE visit = "regular" -> [a EXCEPT !.pc = "visit"]
            [] visit = "error"   -> [a EXCEPT !.pc = "out", !.reply = "failed"]
            [] visit = "fatal"   -> [a EXCEPT !.pc = "out", !.reply = "fatal", !.state = "fatal"]
            [] OTHER             -> a
  /\ UNCHANGED <<disk, entry, changed, seen, again>>

Walks ==
  /\ a.pc = "next"
  /\ \/ FirstVisit /\ Goes("regular") /\ UNCHANGED skipped
     \/ Descent /\ Goes("postdescent") /\ UNCHANGED skipped
     \/ DescentFails /\ Goes("error") /\ skipped' = skipped \cup {Entering.path}
     \/ OpenStream /\ Goes("more") /\ UNCHANGED skipped
     \/ \E n \in Nodes : ReadDirectory(n) /\ Goes("regular") /\ UNCHANGED skipped
     \/ StreamEnds /\ Goes("more") /\ UNCHANGED skipped
     \/ Ascent /\ Goes("postascent") /\ UNCHANGED skipped
     \/ Dead /\ Goes("more") /\ UNCHANGED skipped

WalkFails ==
  /\ a.pc = "next"
  /\ \/ "dup" \in Faults /\ DuplicateFails /\ Goes(t'.visit)
     \/ "fdopendir" \in Faults /\ OpenStreamFails /\ Goes(t'.visit)
     \/ "readdir" \in Faults /\ ReadDirectoryFails /\ Goes("error") /\ UNCHANGED leaked
     \/ "ascent" \in Faults /\ AscentFails /\ Goes("fatal") /\ UNCHANGED leaked
  /\ skipped' = skipped \cup {DirectoryPath(t)}

WalkEnds ==
  /\ a.pc = "next" /\ t.stack = <<>>
  /\ t' = [t EXCEPT !.visit = "none"]
  /\ a' = [a EXCEPT !.pc = "out", !.state = "eof", !.reply = "eof"]
  /\ UNCHANGED <<disk, atime, fds, entry, changed, seen, again, skipped>>

Found == Object(t.working_dir, Last(t.path))

(* lstat finds nothing: an entry that is gone is passed over, and a later  *)
(* entry is answered with a warning.                                       *)
Missing ==
  /\ a.pc = "visit" /\ Found = Nothing
  /\ a' = IF t.depth > 0 THEN [a EXCEPT !.pc = "next", !.delayed = TRUE]
          ELSE [a EXCEPT !.pc = "out", !.reply = "failed"]
  /\ UNCHANGED <<disk, atime, t, fds, entry, changed, seen, again, skipped>>

(* ARCHIVE_RETRY starts next_entry again, which forgets the warning.       *)
PathExcluded ==
  /\ a.pc = "visit" /\ Found # Nothing /\ Last(t.path) \in Excluded
  /\ a' = [a EXCEPT !.pc = "next", !.delayed = FALSE]
  /\ t' = [t EXCEPT !.descend = FALSE]
  /\ UNCHANGED <<disk, atime, fds, entry, changed, seen, again, skipped>>

(* The links that are followed, the directories that can be descended.     *)
Looked ==
  LET target == IF t.symlink_mode = "P" THEN Nothing ELSE Follow(Found)
      follows == target # Nothing /\ ~SameAsParent(target)
      st == IF follows THEN target ELSE Found
  IN [t EXCEPT !.lst = Found, !.st = target, !.descend = IsDirectory(st), !.time = atime[st],
               !.symlink_mode = IF @ = "H" THEN "P" ELSE @]

Reported(w) == IF w.st # Nothing /\ (IsDirectory(w.st) => w.descend) THEN w.st ELSE w.lst

(* The callback for excluded entries may descend.                          *)
EntryExcluded ==
  /\ a.pc = "visit" /\ Found # Nothing /\ Last(t.path) \in Unwanted \ Excluded
  /\ a' = [a EXCEPT !.pc = "next", !.delayed = FALSE]
  /\ \/ /\ t' = [Looked EXCEPT !.descend = FALSE]
        /\ skipped' = skipped \cup {t.path}
     \/ /\ Looked.descend
        /\ t' = Pushed(Looked)
        /\ UNCHANGED skipped
  /\ UNCHANGED <<disk, atime, fds, entry, changed, seen, again>>

(* setup_sparse: the regions with data, and the end as an empty one.       *)
SparseList(size, layout) ==
  IF layout = <<>> THEN <<[offset |-> 0, length |-> size]>>
  ELSE Append(layout, [offset |-> size, length |-> 0])

Fits(layout, size) ==
  \A k \in DOMAIN layout : layout[k].offset + layout[k].length <= size

EntryData(i) ==
  IF disk.kind[i] # "file" \/ disk.size[i] = 0 THEN entry' = NoFile
  ELSE \E layout \in {l \in Layouts : Fits(l, disk.size[i])} :
         entry' = [NoFile EXCEPT !.list = SparseList(disk.size[i], layout),
                                 !.remaining = disk.size[i], !.eof = FALSE,
                                 !.size = disk.size[i]]

Visit ==
  /\ a.pc = "visit" /\ Found # Nothing /\ Last(t.path) \notin Excluded \cup Unwanted
  /\ t' = Looked
  /\ a' = [a EXCEPT !.pc = "out", !.state = "data",
                    !.reply = IF a.delayed THEN "warn" ELSE "ok"]
  /\ EntryData(Reported(Looked))
  /\ seen' = seen \cup {t.path}
  /\ again' = (again \/ t.path \in seen)
  /\ UNCHANGED <<disk, atime, fds, changed, skipped>>

(* archive_read_disk_descend                                               *)
Descend ==
  /\ a.pc = "out" /\ a.state \in {"header", "data"}
  /\ t.visit = "regular" /\ t.descend
  /\ t' = Pushed(t)
  /\ UNCHANGED <<disk, atime, fds, a, entry, changed, seen, again, skipped>>

-----------------------------------------------------------------------------
(* _archive_read_data_block                                                *)

(* The client reads data of the entry it was given.                        *)
Reading == a.pc = "out" /\ a.state = "data" /\ a.reply \in {"ok", "warn"}

CloseFile(e) ==
  /\ entry' = [e EXCEPT !.fd = Nothing]
  /\ atime' = IF e.fd # Nothing THEN Restored(e.fd, t.time) ELSE atime
  /\ fds' = IF entry.fd # Nothing THEN fds - 1 ELSE fds

OpenFile ==
  /\ Reading /\ ~entry.eof /\ entry.remaining > 0 /\ entry.fd = Nothing
  /\ LET i == Follow(Object(t.working_dir, Last(t.path))) IN
     IF i = Nothing \/ disk.kind[i] # "file" THEN UNCHANGED <<entry, fds>>
     ELSE entry' = [entry EXCEPT !.fd = i, !.pos = 0] /\ fds' = fds + 1
  /\ UNCHANGED <<disk, atime, t, a, changed, seen, again, skipped>>

Region == entry.list[entry.cur]

(* A hole is skipped.                                                      *)
AtRegion == IF Region.offset > entry.total
            THEN [entry EXCEPT !.pos = Region.offset, !.total = Region.offset,
                               !.remaining = @ - (Region.offset - entry.total)]
            ELSE entry

NextRegionFaulty(e) == IF e.list[e.cur].length = 0 THEN [e EXCEPT !.cur = @ + 1] ELSE e

(* The next region, unless this was the end.                               *)
NextRegion(e) ==
  IF e.list[e.cur].length = 0 /\ ~e.eof THEN [e EXCEPT !.cur = @ + 1] ELSE e

Delivered(e, n) ==
  LET done == [e EXCEPT !.got = @ \cup {[at |-> e.total + k, byte |-> e.pos + k] : k \in 0..(n - 1)},
                        !.pos = @ + n, !.total = @ + n, !.remaining = @ - n,
                        !.eof = (e.remaining = n),
                        !.list[e.cur] = [offset |-> @.offset + n, length |-> @.length - n]]
  IN NextRegion(done)

DataBlock ==
  /\ Reading /\ ~entry.eof /\ entry.remaining > 0 /\ entry.fd # Nothing
  /\ LET e == AtRegion
         room == IF Region.length < BufSize THEN Region.length ELSE BufSize
         there == disk.size[entry.fd] - e.pos
         most == IF room < there THEN room ELSE there
     IN \/ /\ most <= 0 /\ Region.length > 0
           /\ CloseFile([e EXCEPT !.eof = TRUE])
        \/ /\ Region.length = 0
           /\ IF e.remaining = 0 THEN CloseFile(Delivered(e, 0))
              ELSE entry' = Delivered(e, 0) /\ UNCHANGED <<atime, fds>>
        \/ \E n \in 1..most :
             IF e.remaining = n
             THEN CloseFile(Delivered(e, n))
             ELSE /\ entry' = Delivered(e, n)
                  /\ atime' = [atime EXCEPT ![entry.fd] = 0]
                  /\ UNCHANGED fds
  /\ UNCHANGED <<disk, t, a, changed, seen, again, skipped>>

(* The seek over the hole or the read behind it fails.                     *)
DataFails ==
  /\ "data" \in Faults
  /\ Reading /\ ~entry.eof /\ entry.remaining > 0 /\ entry.fd # Nothing
  /\ \/ Region.offset > entry.total /\ CloseFile(entry)
     \/ Region.length > 0 /\ CloseFile(AtRegion)
  /\ a' = [a EXCEPT !.state = "fatal", !.reply = "fatal"]
  /\ UNCHANGED <<disk, t, changed, seen, again, skipped>>

(* archive_read_close; a fatal state stays.                                *)
Close ==
  /\ a.pc = "out" /\ t # Closed
  /\ atime' = IF entry.fd # Nothing THEN Restored(entry.fd, t.time) ELSE atime
  /\ t' = Closed /\ entry' = NoFile
  /\ fds' = fds - Descriptors - (IF entry.fd # Nothing THEN 1 ELSE 0)
  /\ a' = [a EXCEPT !.state = IF @ = "fatal" THEN @ ELSE "closed"]
  /\ seen' = {} /\ skipped' = {}
  /\ UNCHANGED <<disk, changed, again>>

-----------------------------------------------------------------------------
(* What others do to the disk.                                             *)

(* Only what happens during the walk matters to it.                        *)
Alter(n, links) ==
  /\ a.state \in {"header", "data"}
  /\ n \notin changed /\ Cardinality(changed) < MaxChanges
  /\ changed' = changed \cup {n} \cup links

(* A stream that is open may or may not take notice of it.                 *)
Noticed(dir, left) ==
  \/ UNCHANGED t
  \/ /\ t.d.on /\ t.working_dir = dir
     /\ t' = [t EXCEPT !.d.left = left]

Vanish(n) ==
  /\ disk.kind[n] # "none" /\ n # Cwd /\ Names(n) = {} /\ Alter(n, {})
  /\ disk' = [disk EXCEPT !.kind[n] = "none"]
  /\ Noticed(disk.up[n], t.d.left \ {n})
  /\ UNCHANGED <<atime, fds, a, entry, seen, again, skipped>>

Appear(n) ==
  /\ disk.kind[n] = "none" /\ IsDirectory(disk.up[n]) /\ Alter(n, {})
  /\ disk' = [disk EXCEPT !.kind[n] = "file"]
  /\ Noticed(disk.up[n], t.d.left \cup {n})
  /\ UNCHANGED <<atime, fds, a, entry, seen, again, skipped>>

Resize(n) ==
  /\ disk.kind[n] = "file" /\ Alter(n, {})
  /\ \E size \in 0..(disk.size[n] + 1) : disk' = [disk EXCEPT !.size[n] = size]
  /\ UNCHANGED <<atime, t, fds, a, entry, seen, again, skipped>>

Others == \E n \in Volatile : Vanish(n) \/ Appear(n) \/ Resize(n)

PathOf(n) ==
  LET up[k \in 0..Cardinality(Nodes)] ==
        [i \in Nodes \cup {Nothing} |->
           IF i \in {Cwd, Nothing} \/ k = 0 THEN <<>> ELSE Append(up[k - 1][disk.up[i]], i)]
  IN up[Cardinality(Nodes)][n]

Within(n) ==
  {m \in Nodes : disk.kind[m] # "none" /\ \E k \in DOMAIN PathOf(m) : PathOf(m)[k] = n}

(* Links name a path: those that led to one of the objects now lead to to. *)
Relinked(objects, to) == [l \in Nodes |-> IF disk.to[l] \in objects THEN to ELSE disk.to[l]]

(* The walk is in a directory that it came to without a link.              *)
WayBack(n) ==
  \E k \in DOMAIN t.stack :
    t.stack[k].ino = n /\ ~t.stack[k].link /\ "descent" \notin t.stack[k].needs

(* A directory goes elsewhere, with all it holds.                          *)
Move(n) ==
  /\ IsDirectory(n) /\ Alter(n, {l \in Nodes : disk.to[l] \in Within(n)})
  /\ \E dir \in Nodes \ (Within(n) \cup {disk.up[n]}) :
       /\ IsDirectory(dir)
       /\ disk' = [disk EXCEPT !.up[n] = dir, !.to = Relinked(Within(n), Nothing)]
       /\ \/ Noticed(disk.up[n], t.d.left \ {n})
          \/ Noticed(dir, t.d.left \cup {n})
  /\ strayed' = (strayed \/ WayBack(n))
  /\ UNCHANGED <<atime, fds, a, entry, seen, again, skipped>>

(* An empty directory becomes a link, unless it is the one that was looked *)
(* at last: what lstat said of that one is still used.                     *)
Swap(n) ==
  /\ IsDirectory(n) /\ Names(n) = {} /\ n \notin {t.lst, t.st}
  /\ \A k \in DOMAIN t.stack : t.stack[k].ino = n => "descent" \in t.stack[k].needs
  /\ Alter(n, {l \in Nodes : disk.to[l] = n})
  /\ \E target \in Nodes \ {n} :
       /\ IsDirectory(target)
       /\ disk' = [disk EXCEPT !.kind[n] = "link", !.to = [Relinked({n}, target) EXCEPT ![n] = target]]
  /\ strayed' = (strayed \/ \E k \in DOMAIN t.stack : t.stack[k].ino = n)
  /\ UNCHANGED <<atime, t, fds, a, entry, seen, again, skipped>>

Displace == \E n \in Movable : Move(n) \/ Swap(n)

Call ==
  /\ Walks \/ WalkEnds \/ Missing \/ PathExcluded \/ EntryExcluded \/ Visit
  /\ UNCHANGED <<leaked, strayed>>

Next ==
  \/ NextHeader \/ Call
  \/ /\ Descend \/ OpenFile \/ DataBlock \/ DataFails \/ Close \/ Others
     /\ UNCHANGED <<leaked, strayed>>
  \/ WalkFails /\ UNCHANGED strayed
  \/ Displace /\ UNCHANGED leaked

Spec == Init /\ [][Next]_vars

(* A call runs to its end, and the client asks for entry after entry.      *)
FairSpec == Spec /\ WF_vars(Call) /\ WF_vars(NextHeader)

-----------------------------------------------------------------------------
Still(path) == \A k \in DOMAIN path : path[k] \notin changed

(* The times the walk is below the link: a directory is its own name.      *)
Followed(link) == {k \in DOMAIN t.stack : /\ t.stack[k].symlink_parent # Nothing
                                          /\ t.stack[k].name = link /\ t.stack[k].ino # link}

(* Whatever order directories are read, fail and are left in, the          *)
(* directory the walk works in is the one its path names, unless others    *)
(* moved it away from over the walk or put a link where it was to descend; *)
(* and no circle of links makes it follow a link a third time below        *)
(* itself; a directory it may well enter again, by way of others above it  *)
(* (tree_append, tree_pop, tree_ascend, tree_target_is_same_as_parent).    *)
PathIsTrue ==
  /\ a.pc = "visit" /\ Still(t.path) /\ ~strayed => Place(Front(t.path)) = t.working_dir
  /\ \A n \in Nodes : Cardinality(Followed(n)) <= 2

Expected(n) ==
  LET p == PathOf(n) IN
  /\ disk.kind[n] # "none" /\ Still(p) /\ p # <<>> /\ p[1] = Top
  /\ n \notin Excluded \cup Unwanted
  /\ \A k \in 1..(Len(p) - 1) : p[k] \notin Excluded /\ SubSeq(p, 1, k) \notin skipped

(* No path is reported twice; and when the walk ends without having        *)
(* strayed, every object that was there all the time was reported, unless  *)
(* it was excluded or a directory above it was left out by the client, did *)
(* not open or could not be read to its end (tree_next, tree_pop,          *)
(* next_entry).                                                            *)
WalkComplete ==
  /\ ~again
  /\ a.state = "eof" /\ ~strayed => \A n \in Nodes : Expected(n) => PathOf(n) \in seen

(* The walk holds the descriptors of the two directories it stands in, the *)
(* stream, the file and one for each link it is below, however deep it is; *)
(* at the end of the walk none but the two, after the close none, and the  *)
(* access times are what they were.  What it leaves open for ever are the  *)
(* duplicates that fdopendir refused, and nothing else (tree_descent,      *)
(* tree_ascend, tree_dir_next_posix, tree_close, close_and_restore_time).  *)
NoTrace ==
  /\ fds = IF t = Closed THEN 0 ELSE Descriptors + (IF entry.fd # Nothing THEN 1 ELSE 0)
  /\ leaked # 0 => "fdopendir" \in Faults
  /\ a.state = "eof" /\ t # Closed =>
       fds = 2 /\ (t.restore /\ ~strayed => \A n \in Nodes : atime[n] = n)

(* The object whose data is read.                                          *)
Subject(w) == IF w.st # Nothing THEN w.st ELSE w.lst

(* The blocks of a file are its bytes, each at its offset: all of the data *)
(* regions up to where reading stands, and the end is the end of the file  *)
(* unless others resized this very file (setup_sparse,                     *)
(* _archive_read_data_block).                                              *)
DataComplete ==
  LET e == entry IN
  e.size > 0 =>
    /\ \A g \in e.got : g.at = g.byte
    /\ e.remaining = e.size - e.total
    /\ e.cur \in DOMAIN e.list
    /\ e.eof /\ Subject(t) \notin changed => e.total = e.size
    /\ \A k \in DOMAIN e.list : k < e.cur => e.list[k].length = 0

(* A client that goes on asking comes to an end, links in a circle or not. *)
EveryWalkEnds == <>(a.state \in {"eof", "fatal", "closed"})
=============================================================================
