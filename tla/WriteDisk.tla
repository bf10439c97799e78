------------------------------ MODULE WriteDisk ------------------------------
(***************************************************************************)
(* Restoring entries to disk (archive_write_disk_posix.c) over a small     *)
(* file system: the header that clears the way for an object and creates   *)
(* it, the data, the end of the entry with its metadata, and the close     *)
(* with the list of fix-ups that were deferred to it.                      *)
(*                                                                         *)
(* A path is a sequence of names, <<>> the directory we are in.  A mode is *)
(* a set: "owner" stands for the bits of MINIMUM_DIR_MODE, which is what   *)
(* a process that is not root needs to work in a directory, "other" for    *)
(* the bit that MAXIMUM_DIR_MODE leaves out.  A byte of file data is the   *)
(* number of the entry it came with, or 0.  What is deferred is modes and  *)
(* times; ACLs, flags and Mac metadata take the same way.                  *)
(***************************************************************************)
EXTENDS Integers, Sequences, SequencesExt, FiniteSets

CONSTANTS
  Paths,        \* the paths of entries and of what lies in their way
  Inodes,       \* numbers of objects
  Items,        \* entries an archive may have: path, kind, mode, size, link
  Disks,        \* what may be on disk before
  FlagSets,     \* the flags an extraction may be given
  Umasks,       \* user_umask
  MaxEntries,   \* bound: entries of an archive
  MaxBlock,     \* bound: bytes of one data call
  MaxFile,      \* bound: bytes a call may reach to
  Now           \* the time of what is done now, later than every entry's

Root == CHOOSE i \in Inodes : TRUE
Places == Paths \cup {<<>>}

VARIABLES
  disk,         \* at: the inode at each place, 0 for none; node: the inodes,
                \* each with what it should be after the close (history)
  a,            \* struct archive_write_disk
  fixup_list,   \* newest first
  state,        \* "header", "data", "closed"
  reply,        \* answer of the last call
  count,        \* entries so far
  old           \* history: the disk before the first entry

vars == <<disk, a, fixup_list, state, reply, count, old>>

-----------------------------------------------------------------------------
(* The file system.                                                        *)

Want(by, kind, mode, mtime, data) ==
  [by |-> by, kind |-> kind, mode |-> mode, mtime |-> mtime, data |-> data]
Unknown == Want("nobody", "none", {}, 0, <<>>)
Node(kind, mode, mtime, data) ==
  [kind |-> kind, mode |-> mode, mtime |-> mtime, data |-> data, want |-> Unknown]
NoNode == Node("none", {}, 0, <<>>)
Nodes == [kind : {"none", "file", "dir"}, mode : SUBSET {"owner", "other"}, mtime : Int,
          data : Seq(Nat), want : {Unknown}]
Ancestors(p) == {SubSeq(p, 1, n) : n \in 0..(Len(p) - 1)}
At(d, p) == d.node[d.at[p]]
Exists(d, p) == d.at[p] # 0
IsDir(d, p) == Exists(d, p) /\ At(d, p).kind = "dir"

(* What is wrong on the way to p, "" when p can be looked up.              *)
Obstacle(d, p) ==
  LET bad == {q \in Ancestors(p) : ~IsDir(d, q) \/ "owner" \notin At(d, q).mode}
      first == CHOOSE q \in bad : \A r \in bad : Len(q) <= Len(r)
  IN IF bad = {} THEN ""
     ELSE IF ~Exists(d, first) THEN "ENOENT"
     ELSE IF IsDir(d, first) THEN "EACCES" ELSE "ENOTDIR"

Lookup(d, p) == IF Obstacle(d, p) # "" THEN Obstacle(d, p)
                ELSE IF Exists(d, p) THEN "" ELSE "ENOENT"

Touch(d, i) == [d EXCEPT !.node[i].mtime = Now]
Children(d, p) == {q \in Paths : Len(q) > Len(p) /\ SubSeq(q, 1, Len(p)) = p /\ Exists(d, q)}

(* p becomes a name of inode i; what has no name any more is gone.         *)
Put(d, p, i) ==
  LET at == [d.at EXCEPT ![p] = i]
      kept == [j \in Inodes |-> IF \E q \in Places : at[q] = j THEN d.node[j] ELSE NoNode]
  IN Touch([at |-> at, node |-> kept], at[Front(p)])

(* unlink, or rmdir of an empty directory                                  *)
Removable(d, p) == Lookup(d, p) = "" /\ Children(d, p) = {}
Unlink(d, p) == Put(d, p, 0)

Used(d, more) == {d.at[p] : p \in Places} \cup more
Free(d, more) == CHOOSE i \in Inodes : i \notin Used(d, more)

ASSUME PathsAssumption == IsFiniteSet(Paths) /\ Paths \subseteq Seq(Nat) \ {<<>>}
ASSUME InodesAssumption ==
  /\ IsFiniteSet(Inodes) /\ 0 \notin Inodes
  /\ Cardinality(Inodes) > Cardinality(Places) + 1      \* the disk is never full
ASSUME ItemsAssumption ==
  Items \subseteq [path : Paths, kind : {"file", "dir"}, mode : SUBSET {"owner", "other"},
                   size : Int, link : Places, mtime : Int]
ASSUME DisksAssumption ==
  Disks \subseteq [at : [Places -> Inodes \cup {0}], node : [Inodes -> Nodes]]

(* open with O_EXCL, mkdir: an error or the disk with a new object.        *)
Make(d, p, kind, mode, held) ==
  LET i == Free(d, held) IN
  IF Obstacle(d, p) # "" THEN [err |-> Obstacle(d, p), disk |-> d, ino |-> 0]
  ELSE IF Exists(d, p) THEN [err |-> "EEXIST", disk |-> d, ino |-> 0]
  ELSE [err |-> "", ino |-> i,
        disk |-> Put([d EXCEPT !.node[i] = Node(kind, mode, Now, <<>>)], p, i)]

Overlay(data, off, n, v) ==
  [i \in 1..(IF off + n > Len(data) THEN off + n ELSE Len(data)) |->
     IF i > off /\ i <= off + n THEN v ELSE IF i <= Len(data) THEN data[i] ELSE 0]

Resized(data, n) == [i \in 1..n |-> IF i <= Len(data) THEN data[i] ELSE 0]

-----------------------------------------------------------------------------
(* Variants named ...Faulty are the code with one plausible slip; they are *)
(* what the properties are tried against.                                  *)

NoEntry == [path |-> <<>>, kind |-> "none", mode |-> {}, size |-> -1, link |-> <<>>, mtime |-> 0]

Fresh(flags, umask) ==
  [flags |-> flags, umask |-> umask, entry |-> NoEntry, mode |-> {}, todo |-> {},
   deferred |-> {}, fd |-> 0, tmp |-> FALSE, offset |-> 0, fd_offset |-> 0,
   filesize |-> -1, given |-> <<>>, made |-> 0, hit |-> 0, broke |-> FALSE]

Init ==
  /\ disk \in Disks
  /\ \E f \in FlagSets, u \in Umasks : a = Fresh(f, u)
  /\ fixup_list = <<>> /\ state = "header" /\ reply = "ok" /\ count = 0
  /\ old = disk

MODE == "mode"      \* TODO_MODE
FORCE == "force"    \* TODO_MODE_FORCE
TIMES == "times"    \* TODO_TIMES

Held(w) == {w.fd}
MinDir(mode) == (mode \cup {"owner"}) \ {"other"}

(* _archive_write_disk_header, lines 608 to 675: what is to be done.       *)
Prepared(w, e) ==
  LET perm == "PERM" \in w.flags IN
  [w EXCEPT !.entry = e, !.fd = 0, !.offset = 0, !.fd_offset = 0, !.filesize = e.size,
     !.mode = IF perm THEN e.mode ELSE e.mode \ w.umask,
     !.todo = {MODE} \cup (IF perm THEN {FORCE} ELSE {})
              \cup (IF "TIME" \in w.flags THEN {TIMES} ELSE {}),
     !.deferred = {}, !.tmp = FALSE, !.given = <<>>, !.made = 0, !.hit = 0, !.broke = FALSE]

-----------------------------------------------------------------------------
(* One step of an extraction of an entry works on s: the error so far, the *)
(* disk, and the struct.                                                   *)

(* What link() says.  The way to the target was looked at before: a        *)
(* directory that is none, or that is closed, has become EPERM there.      *)
LinkError(d, e) ==
  IF Lookup(d, e.link) # "" THEN Lookup(d, e.link)
  ELSE IF Obstacle(d, e.path) # "" THEN Obstacle(d, e.path)
  ELSE IF Exists(d, e.path) THEN "EEXIST"
  ELSE IF IsDir(d, e.link) THEN "EPERM" ELSE ""

(* A hard link without data leaves the metadata of its target alone, one   *)
(* with data opens the file: when that is refused the link stays.          *)
Link(s) ==
  LET e == s.w.entry
      d == IF "SAFE" \in s.w.flags /\ Removable(s.disk, e.path) /\ ~IsDir(s.disk, e.path)
           THEN Unlink(s.disk, e.path) ELSE s.disk
      err == LinkError(d, e)
      i == d.at[e.link]
      linked == Put(d, e.path, i)
  IN IF Lookup(s.disk, e.link) \notin {"", "ENOENT"} THEN [s EXCEPT !.err = "EPERM"]
     ELSE IF err # "" THEN [s EXCEPT !.err = err, !.disk = d]
     ELSE IF s.w.filesize <= 0
     THEN [err |-> "", disk |-> linked, w |-> [s.w EXCEPT !.todo = {}, !.deferred = {}]]
     ELSE IF "owner" \notin linked.node[i].mode THEN [s EXCEPT !.err = "EACCES", !.disk = linked]
     ELSE [err |-> "", disk |-> Touch([linked EXCEPT !.node[i].data = <<>>], i),
           w |-> [s.w EXCEPT !.fd = i]]

NewFile(s) ==
  LET mode == s.w.mode \ s.w.umask
      r == Make(s.disk, s.w.entry.path, "file", mode, Held(s.w))
  IN [err |-> r.err, disk |-> r.disk,
      w |-> IF r.err # "" THEN s.w
            ELSE [s.w EXCEPT !.fd = r.ino,
                    !.todo = IF mode = s.w.mode THEN @ \ {MODE} ELSE @]]

(* A directory gets its mode at once, where the mode on disk is final.     *)
NewDirFaulty(s) ==
  LET r == Make(s.disk, s.w.entry.path, "dir", s.w.mode \ s.w.umask, Held(s.w))
  IN [err |-> r.err, disk |-> r.disk,
      w |-> IF r.err # "" THEN s.w
            ELSE [s.w EXCEPT !.made = r.ino, !.todo = @ \ {MODE}]]

(* A directory can be worked in until the end, which sets mode and times.  *)
NewDir(s) ==
  LET mode == MinDir(s.w.mode \ s.w.umask)
      r == Make(s.disk, s.w.entry.path, "dir", mode, Held(s.w))
      later == (s.w.todo \cap {TIMES}) \cup
               (IF mode # s.w.mode \/ "PERM" \in s.w.flags THEN s.w.todo \cap {MODE} ELSE {})
  IN [err |-> r.err, disk |-> r.disk,
      w |-> IF r.err # "" THEN s.w
            ELSE [s.w EXCEPT !.made = r.ino, !.deferred = @ \cup later,
                    !.todo = @ \ {TIMES, MODE}]]

CreateObject(s) == IF s.w.entry.link # <<>> THEN Link(s)
                   ELSE IF s.w.entry.kind = "dir" THEN NewDir(s) ELSE NewFile(s)

(* What is in the way of a directory on the path is removed.               *)
MayClearFaulty(w) == TRUE

MayClear(w) == "NO_OVERWRITE" \notin w.flags

(* create_dir for one directory on the path, parents first.  The fix-up    *)
(* for a mode that is not final has no file type.                          *)
CreateDir(s, p) ==
  LET final == {"owner", "other"} \ s.w.umask
      clear == IF Exists(s.disk, p) THEN Unlink(s.disk, p) ELSE s.disk
      r == Make(clear, p, "dir", MinDir(final), Held(s.w))
  IN IF s.err # "" \/ IsDir(s.disk, p) THEN s
     ELSE IF Obstacle(s.disk, p) # "" THEN [s EXCEPT !.err = "failed"]
     ELSE IF Exists(s.disk, p) /\ ~MayClear(s.w) THEN [s EXCEPT !.err = "failed"]
     ELSE [s EXCEPT !.disk = [r.disk EXCEPT !.node[r.ino].want =
                                Want("implied", "dir", final, 0, <<>>)],
             !.fix = IF MinDir(final) = final THEN @
                     ELSE <<[path |-> p, kind |-> "none", fix |-> {MODE},
                             mode |-> final, mtime |-> 0]>> \o @]

(* create_parent_dir; its answer is not looked at.                         *)
ParentDirs(s, fix) ==
  LET p == s.w.entry.path
      made[n \in 0..(Len(p) - 1)] ==
        IF n = 0 THEN [err |-> "", disk |-> s.disk, w |-> s.w, fix |-> fix]
        ELSE CreateDir(made[n - 1], SubSeq(p, 1, n))
      r == made[Len(p) - 1]
  IN [disk |-> r.disk, fix |-> r.fix]

-----------------------------------------------------------------------------
(* restore_entry.                                                          *)

Result(s, fix, answer) == [disk |-> s.disk, w |-> s.w, fix |-> fix, answer |-> answer]

(* ARCHIVE_EXTRACT_UNLINK: what is there goes first.                       *)
Blocked(d, w) ==
  LET p == w.entry.path IN
  /\ "UNLINK" \in w.flags /\ w.entry.kind # "dir"
  /\ Lookup(d, p) # "ENOENT" /\ ~Removable(d, p)

Unlinked(d, w) ==
  LET p == w.entry.path IN
  IF "UNLINK" \in w.flags /\ w.entry.kind # "dir" /\ Removable(d, p) THEN Unlink(d, p) ELSE d

(* The object in the way stays as it is.                                   *)
Kept(s, fix) ==
  Result([s EXCEPT !.w.todo = IF s.w.entry.kind = "dir" THEN {} ELSE @,
                   !.w.hit = s.disk.at[s.w.entry.path]], fix, "ok")

Older(d, w) == At(d, w.entry.path).mtime < w.entry.mtime

(* la_mktemp: the file is renamed over the old one at the end.             *)
TempFile(s) ==
  LET i == Free(s.disk, Held(s.w))
      d == [s.disk EXCEPT !.node[i] = Node("file", s.w.mode \ s.w.umask, Now, <<>>)]
  IN [err |-> "", disk |-> Touch(d, s.disk.at[Front(s.w.entry.path)]),
      w |-> [s.w EXCEPT !.fd = i, !.tmp = TRUE]]

(* The old file is unlinked although a temporary file was asked for.       *)
SafelyFaulty(w) == FALSE

Safely(w) == "SAFE" \in w.flags /\ w.entry.kind = "file"

(* The same directory again: only its mode is put off to the end.          *)
SameDir(s) ==
  [err |-> "", disk |-> s.disk,
   w |-> [s.w EXCEPT !.hit = s.disk.at[s.w.entry.path],
            !.deferred = IF s.w.mode # At(s.disk, s.w.entry.path).mode /\ FORCE \in s.w.todo
                         THEN @ \cup (s.w.todo \cap {MODE}) ELSE @]]

(* Something is in the way.                                                *)
Cleared(s) ==
  LET p == s.w.entry.path
      gone == [s EXCEPT !.disk = Unlink(@, p)]
  IN IF ~IsDir(s.disk, p) THEN IF Safely(s.w) THEN TempFile(s) ELSE CreateObject(gone)
     ELSE IF s.w.entry.kind = "dir" THEN SameDir(s)
     ELSE IF Children(s.disk, p) # {} THEN [s EXCEPT !.err = "failed"]
     ELSE CreateObject(gone)

Answered(s, fix) == Result(s, fix, IF s.err = "" THEN "ok" ELSE "failed")

(* What was created, or what is done when something is in the way.         *)
Settle(s, fix) ==
  IF s.err # "EEXIST" THEN Answered(s, fix)
  ELSE IF "NO_OVERWRITE" \in s.w.flags THEN Kept(s, fix)
  ELSE IF "NEWER" \in s.w.flags /\ ~IsDir(s.disk, s.w.entry.path) /\ ~Older(s.disk, s.w)
  THEN [Kept(s, fix) EXCEPT !.w.todo = s.w.todo]
  ELSE Answered(Cleared(s), fix)

(* A second try, under the parents that were made.                         *)
TryAgain(first, parents) ==
  Settle(CreateObject([first EXCEPT !.disk = parents.disk]), parents.fix)

TryOnce(first) ==
  IF first.err \in {"ENOTDIR", "ENOENT"} /\ "NO_AUTODIR" \notin first.w.flags
  THEN TryAgain(first, ParentDirs(first, fixup_list))
  ELSE Settle(first, fixup_list)

RestoreEntry(d, w) ==
  IF Blocked(d, w) THEN [disk |-> d, w |-> w, fix |-> fixup_list, answer |-> "failed"]
  ELSE TryOnce(CreateObject([err |-> "", disk |-> Unlinked(d, w), w |-> w]))

(* Two parts of one object share a fix-up; directories are done again in   *)
(* whatever state the entry was left.                                      *)
Deferred(w, fix) ==
  LET what == w.deferred \cap {MODE, TIMES} IN
  IF what = {} THEN fix
  ELSE <<[path |-> w.entry.path, kind |-> w.entry.kind, fix |-> what,
          mode |-> w.mode, mtime |-> w.entry.mtime]>> \o fix

-----------------------------------------------------------------------------
(* _archive_write_disk_finish_entry: size, mode, times, the final name.    *)

(* The object of the entry: the open file, or what its name leads to.      *)
Object(d, w) == IF w.fd # 0 THEN w.fd
                ELSE IF Lookup(d, w.entry.path) = "" THEN d.at[w.entry.path] ELSE 0

FullSize(d, w) ==
  IF w.fd = 0 \/ w.filesize < 0 \/ w.fd_offset = w.filesize THEN d
  ELSE Touch([d EXCEPT !.node[w.fd].data = Resized(@, w.filesize)], w.fd)

SetMode(d, w) ==
  IF MODE \in w.todo /\ w.entry.kind # "dir" /\ Object(d, w) # 0
  THEN [d EXCEPT !.node[Object(d, w)].mode = w.mode] ELSE d

SetTimes(d, w) ==
  IF TIMES \in w.todo /\ Object(d, w) # 0
  THEN [d EXCEPT !.node[Object(d, w)].mtime = w.entry.mtime] ELSE d

Renamed(d, w) == IF w.tmp THEN Put(d, w.entry.path, w.fd) ELSE d

(* A fix-up of an earlier copy waits that the fix-up of this one will not   *)
(* undo.                                                                   *)
Outlived(w) == \E n \in DOMAIN fixup_list :
  LET f == fixup_list[n] IN
  f.path = w.entry.path /\ f.kind = w.entry.kind /\ ~(f.fix \subseteq w.deferred)

(* What the archive says the object of this entry is.                      *)
Promised(w) ==
  Want(IF Outlived(w) THEN "copy" ELSE "entry", IF w.fd # 0 THEN "file" ELSE "dir", w.mode, w.entry.mtime,
       IF w.fd = 0 \/ w.filesize < 0 THEN w.given ELSE Resized(w.given, w.filesize))

(* With ARCHIVE_EXTRACT_NO_OVERWRITE an entry for something else that meets *)
(* a directory sets its mode.  When that closes it, the fix-ups of the     *)
(* directories below may be refused.                                       *)
Barred(d, w) ==
  IF w.hit # 0 /\ w.entry.kind # "dir" /\ "owner" \notin w.mode
  THEN {d.at[q] : q \in {r \in Children(d, w.entry.path) : IsDir(d, r)}} ELSE {}

(* Nothing is known of an object that was there before, or whose data was  *)
(* not written in full.                                                    *)
Settled(d, w) ==
  LET i == IF w.fd # 0 THEN w.fd ELSE w.made
      unsure == {i, w.hit} \cup Barred(d, w)
  IN [d EXCEPT !.node = [j \in Inodes |->
        IF j = i /\ ~w.broke THEN [@[j] EXCEPT !.want = Promised(w)]
        ELSE IF j \in unsure THEN [@[j] EXCEPT !.want = Unknown] ELSE @[j]]]

FinishedDisk ==
  Renamed(Settled(SetTimes(SetMode(FullSize(disk, a), a), a), a), a)

(* The disk and the struct when the entry is over, if any.                 *)
AfterEntry == IF state = "data"
              THEN [disk |-> FinishedDisk, w |-> Fresh(a.flags, a.umask)]
              ELSE [disk |-> disk, w |-> a]

FinishEntry ==
  /\ state = "data"
  /\ disk' = AfterEntry.disk /\ a' = AfterEntry.w
  /\ state' = "header" /\ reply' = "ok"
  /\ UNCHANGED <<fixup_list, count, old>>

(* A file that is not open cannot get data.                                *)
Started(before, r) ==
  /\ disk' = r.disk
  /\ a' = IF r.answer = "ok"
          THEN [r.w EXCEPT !.filesize = IF r.w.fd = 0 THEN 0 ELSE @]
          ELSE before.w
  /\ fixup_list' = Deferred(r.w, r.fix)
  /\ state' = IF r.answer = "ok" THEN "data" ELSE "header"
  /\ reply' = r.answer

Enter(before, e) ==
  IF e.link = e.path
  THEN /\ disk' = before.disk /\ a' = before.w
       /\ state' = "header" /\ reply' = "warn" /\ UNCHANGED fixup_list
  ELSE Started(before, RestoreEntry(before.disk, Prepared(before.w, e)))

(* A header ends the entry before it.                                      *)
Header(e) ==
  /\ state \in {"header", "data"} /\ count < MaxEntries
  /\ Enter(AfterEntry, [e EXCEPT !.mtime = count + 1])
  /\ count' = count + 1 /\ UNCHANGED old

-----------------------------------------------------------------------------
(* write_data_block: what runs over the size of the entry is cut off.      *)

Clipped(n, off) == IF a.filesize >= 0 /\ off + n > a.filesize THEN a.filesize - off ELSE n

Written(m, off, broke) ==
  /\ disk' = IF m = 0 THEN disk
             ELSE Touch([disk EXCEPT !.node[a.fd].data = Overlay(@, off, m, count)], a.fd)
  /\ a' = [a EXCEPT !.offset = off + m, !.fd_offset = IF m = 0 THEN @ ELSE off + m,
                    !.given = IF m = 0 THEN @ ELSE Overlay(@, off, m, count),
                    !.broke = @ \/ broke]

(* archive_write_data goes on where the last call ended,                   *)
(* archive_write_data_block where it is told to.                           *)
Offsets(n) == {off \in {a.offset} \cup 0..MaxFile :
                 off + n <= MaxFile /\ (a.filesize < 0 \/ off <= a.filesize)}

Data(n) ==
  /\ state = "data"
  /\ IF a.filesize = 0 \/ a.fd = 0
     THEN reply' = "warn" /\ UNCHANGED <<disk, a>>
     ELSE \E off \in Offsets(n) :
            /\ Written(Clipped(n, off), off, FALSE)
            /\ reply' = IF Clipped(n, off) < n THEN "warn" ELSE "ok"
  /\ UNCHANGED <<fixup_list, state, count, old>>

(* write() fails, after some of the bytes.                                 *)
DataFails(n) ==
  /\ state = "data" /\ a.fd # 0 /\ a.filesize # 0
  /\ \E off \in Offsets(n), m \in 0..(n - 1) :
       m < Clipped(n, off) /\ Written(m, off, TRUE)
  /\ reply' = "warn"
  /\ UNCHANGED <<fixup_list, state, count, old>>

-----------------------------------------------------------------------------
(* Closing: the fix-ups, sort_dir_list first.                              *)

(* strcmp, for names that are single characters.                           *)
Before(p, q) ==
  \E n \in 0..Len(p) : /\ n <= Len(q) /\ SubSeq(p, 1, n) = SubSeq(q, 1, n)
                       /\ n < Len(q) /\ (n = Len(p) \/ p[n + 1] < q[n + 1])

(* Sorted backwards by name; of two for one name the older one first.      *)
Sorted(list) ==
  LET earlier(m, n) == \/ Before(list[n].path, list[m].path)
                       \/ list[n].path = list[m].path /\ m > n
      place(n) == 1 + Cardinality({m \in DOMAIN list : earlier(m, n)})
  IN [k \in DOMAIN list |-> list[CHOOSE n \in DOMAIN list : place(n) = k]]

(* A fix-up is for an object of its type only.                             *)
Applied(d, f) ==
  IF Lookup(d, f.path) # "" \/ At(d, f.path).kind # f.kind THEN d
  ELSE LET i == d.at[f.path]
           timed == IF TIMES \in f.fix THEN [d EXCEPT !.node[i].mtime = f.mtime] ELSE d
       IN IF MODE \in f.fix THEN [timed EXCEPT !.node[i].mode = f.mode] ELSE timed

FixedUp(d, list) ==
  LET done[n \in 0..Len(list)] == IF n = 0 THEN d ELSE Applied(done[n - 1], list[n])
  IN done[Len(list)]

Close ==
  /\ state \in {"header", "data"}
  /\ disk' = FixedUp(AfterEntry.disk, Sorted(fixup_list))
  /\ a' = AfterEntry.w
  /\ fixup_list' = <<>> /\ state' = "closed" /\ reply' = "ok"
  /\ UNCHANGED <<count, old>>

Next == \/ \E e \in Items : Header(e)
        \/ \E n \in 1..MaxBlock : Data(n)
        \/ \E n \in 1..MaxBlock : DataFails(n)
        \/ FinishEntry \/ Close

Spec == Init /\ [][Next]_vars

-----------------------------------------------------------------------------
(* After the close every object that an entry made, and no later entry     *)
(* touched again, is what the last such entry says: contents and size of   *)
(* files however they were written, modes, and times, of directories too,  *)
(* although things were made in them later and their own mode may not      *)
(* allow that.  Not so for two kinds of directories: one made in the place *)
(* of an earlier copy whose fix-up does what its own does not undo         *)
(* (Outlived), and one below a directory that a file, kept away from it    *)
(* by NO_OVERWRITE, has closed by its mode (Barred)                        *)
(* (_archive_write_disk_finish_entry, _archive_write_disk_close).          *)
Matches(node, w) ==
  /\ node.kind = w.kind /\ node.mode = w.mode /\ node.data = w.data
  /\ "TIME" \in a.flags => node.mtime = w.mtime

Restored ==
  state = "closed" =>
    \A i \in Inodes : LET n == disk.node[i] IN n.want.by = "entry" => Matches(n, n.want)

(* With ARCHIVE_EXTRACT_SAFE_WRITES the name of a regular file on disk leads *)
(* to that file with its contents, until an entry for it is over: then, in *)
(* one step, to all of the new file, unless a write failed.  This holds    *)
(* across entries and calls that fail; what is not protected is a file at  *)
(* which, or under which, an entry wants something else than a file        *)
(* (la_mktemp, restore_entry, _archive_write_disk_finish_entry).           *)
Displacing(e, p) ==
  \/ IsPrefix(p, e.path) /\ (e.path # p \/ e.kind # "file" \/ e.link # <<>>)
  \/ e.link # <<>> /\ e.size > 0

SafeStep ==
  \A p \in Paths :
    "SAFE" \in a.flags /\ "UNLINK" \notin a.flags
    /\ Exists(disk, p) /\ At(disk, p).kind = "file" /\ disk.at[p] # a.fd
    => \/ disk'.at[p] = disk.at[p] /\ At(disk', p).data = At(disk, p).data
       \/ /\ state = "data" /\ a.entry.path = p /\ a.fd # 0 /\ disk'.at[p] = a.fd
          /\ a.broke \/ At(disk', p).data = Promised(a).data
       \/ \E e \in Items : Displacing(e, p) /\ Header(e)
SafeReplace == [][SafeStep]_vars

(* With ARCHIVE_EXTRACT_NO_OVERWRITE what was on disk stays, with its      *)
(* contents, whatever the archive has at its path, under it or above it;   *)
(* only a hard link with data still writes to its target (restore_entry,   *)
(* create_dir).  The flags that unlink before they look take precedence:   *)
(* ARCHIVE_EXTRACT_UNLINK, and SAFE_WRITES for a hard link.                *)
KeptAsTold ==
  "NO_OVERWRITE" \in a.flags /\ a.flags \cap {"UNLINK", "SAFE"} = {} =>
    \A p \in Paths : Exists(old, p) =>
      /\ disk.at[p] = old.at[p] /\ At(disk, p).kind = At(old, p).kind
      /\ \/ At(disk, p).data = At(old, p).data
         \/ \E q \in Paths : disk.at[q] = old.at[p] /\ old.at[q] # old.at[p]

(* Directories nobody asked for get the mode that the umask leaves.        *)
ImpliedByUmask ==
  state = "closed" =>
    \A i \in Inodes : LET n == disk.node[i] IN n.want.by = "implied" => n.mode = n.want.mode
=============================================================================
