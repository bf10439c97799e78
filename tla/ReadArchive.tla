----------------------------- MODULE ReadArchive -----------------------------
(***************************************************************************)
(* The life of a struct archive_read: open, headers, entry data, skipping, *)
(* seeking, close and free (archive_read.c), the loop of archive_read_data *)
(* that makes one continuous stream of the blocks of a sparse entry, and   *)
(* the loop of archive_read_data_into_fd that copies them to a descriptor. *)
(*                                                                         *)
(* The format reader is the environment: a list of entries, each with data *)
(* in extents, handed out in blocks of any length.  A data byte is the     *)
(* pair <<entry, offset>>, a byte of a hole is Hole.                       *)
(***************************************************************************)
EXTENDS Integers, Sequences, FiniteSets

CONSTANTS
  Entries,        \* [size, declared, extents : sequence of [offset, len]]
  Calls,          \* data calls the application makes:
                  \* "data", "block", "skip", "seek", "fd"
  Requests,       \* buffer sizes it gives to archive_read_data
  Extracting,     \* archive_read_extract has been used: free has its cleanup
  Descriptors,    \* what it may be: TRUE for a regular file, FALSE for others
  MaxOpens,       \* bound: calls of archive_read_open1
  MaxRetries,     \* bound: headers answered RETRY
  FdMax,          \* bound: no copy begins with the descriptor at or behind it
  Faults          \* what may go wrong in the layers below, see each use

EOF    == 1       \* ARCHIVE_EOF and so on; ARCHIVE_OK is 0
OK     == 0
RETRY  == -10
WARN   == -20
FAILED == -25
FATAL  == -30

States == {"new", "header", "data", "recovery", "eof", "closed", "fatal", "freed"}

ASSUME ReadArchiveAssumption ==
  /\ Entries \in Seq([size : Nat, declared : Nat \cup {-1},
                      extents : Seq([offset : Nat, len : Nat])])
  /\ \A e \in 1..Len(Entries) : \A x \in 1..Len(Entries[e].extents) :
       Entries[e].extents[x].offset + Entries[e].extents[x].len <= Entries[e].size
  /\ Requests \subseteq Nat \ {0}
  /\ Extracting \in BOOLEAN /\ Descriptors \subseteq BOOLEAN
  /\ MaxOpens \in Nat /\ MaxRetries \in Nat /\ FdMax \in Nat

VARIABLES
  state,          \* archive.state, and "freed"
  chain,          \* a->filter: "none", "open", "closed"
  held,           \* calls of the client's opener minus calls of its closer
  opens,          \* calls of archive_read_open1
  fileCount,      \* archive.file_count
  declared,       \* entry_bytes_declared
  fmt,            \* the format reader: entry, extent, used, origin, body
  rd,             \* read_data_{remaining,offset,output_offset,block}
  canLseek,       \* the descriptor is a regular file
  file, fdpos,    \* its contents and its offset
  call, reply,    \* the call in progress and the last answer
  got,            \* history: what archive_read_data copied for this entry
  mixed,          \* history: blocks of this entry went to other calls
  headed,         \* history: the last answer of archive_read_next_header,
                  \* and of the skip it began with
  skipped         \* history: what the format answered to the last skip

clientVars == <<chain, held, opens>>
dataVars   == <<rd, got, mixed>>
fdVars     == <<canLseek, file, fdpos>>
entryVars  == <<fileCount, declared, headed, skipped>>
vars == <<state, clientVars, entryVars, fmt, dataVars, fdVars, call, reply>>

(* Variants named ...Faulty are the code with one plausible slip; they are *)
(* what the properties are tried against.                                  *)

Idle == [op |-> "idle"]
Hole == <<0, 0>>
Answer(op, code) == [op |-> op, code |-> code]
Headed(skip, code) == [skip |-> skip, code |-> code]

minimum(a, b) == IF a < b THEN a ELSE b
maximum(a, b) == IF a < b THEN b ELSE a

(* The answers of a call into the layers below, and those that are errors. *)
Fault(name, code) == [name |-> name, code |-> code]
Errors(faults) == {f.code : f \in {g \in faults : g.name \in Faults}}
Codes(faults)  == {OK} \cup Errors(faults)

(* __archive_reset_read_data *)
NoData == [remaining |-> 0, offset |-> 0, output |-> 0, block |-> Hole]

Init ==
  /\ state = "new" /\ chain = "none" /\ held = 0 /\ opens = 0
  /\ fileCount = 0 /\ declared = -1 /\ headed = Headed(OK, OK) /\ skipped = OK
  /\ fmt = [entry |-> 0, extent |-> 1, used |-> 0, origin |-> 0, body |-> "header"]
  /\ rd = NoData /\ got = <<>> /\ mixed = FALSE
  /\ canLseek \in Descriptors /\ file = <<>> /\ fdpos = 0
  /\ call = Idle /\ reply = Answer("none", OK)

-----------------------------------------------------------------------------
(* The format reader and the filters below it (environment).               *)

Entry == Entries[fmt.entry]
MoreData == fmt.extent <= Len(Entry.extents)
Extent == Entry.extents[fmt.extent]

(* A block is a piece of the current extent that is not empty, unless the  *)
(* extent is.                                                              *)
PieceLengths ==
  IF Extent.len = 0 THEN {0} ELSE 1..(Extent.len - fmt.used)

PastPiece(n) ==
  IF fmt.used + n = Extent.len
  THEN [fmt EXCEPT !.extent = @ + 1, !.used = 0]
  ELSE [fmt EXCEPT !.used = @ + n]

Block(code, n) ==
  [code   |-> code,
   offset |-> Extent.offset + fmt.used - fmt.origin,
   len    |-> n,
   block  |-> <<fmt.entry, Extent.offset + fmt.used>>,
   after  |-> PastPiece(n)]

(* An answer without a block leaves *size and *offset alone.               *)
NoBlock(code) ==
  [code   |-> code, offset |-> rd.offset, len |-> 0, block |-> rd.block,
   after  |-> IF code = FATAL THEN [fmt EXCEPT !.body = "dead"] ELSE fmt]

EndOfEntry ==
  [code |-> EOF, offset |-> Entry.size - fmt.origin, len |-> 0,
   block |-> Hole, after |-> fmt]

(* What format->read_data may answer.                                      *)
DataAnswers ==
  (IF MoreData
   THEN {Block(c, n) : c \in Codes({Fault("warn", WARN)}), n \in PieceLengths}
   ELSE {EndOfEntry})
  \cup {NoBlock(c) : c \in Errors({Fault("failed", FAILED), Fault("fatal", FATAL)})}

(* format->read_data_skip: every format has one but "empty", which has no  *)
(* entries.  A rar that goes on in another volume answers what the header  *)
(* there did, a solid one what its data did.                               *)
SkipCodes ==
  Codes({Fault("skip_failed", FAILED), Fault("skip_fatal", FATAL)})
    \cup Errors({Fault("skip_warn", WARN), Fault("skip_eof", EOF)})

(* Where a skip with that answer leaves the format reader: on a header, or *)
(* if it was not OK perhaps still in the body.                             *)
Skipped(r) ==
  {[fmt EXCEPT !.body = b] :
     b \in CASE r = FATAL -> {"dead"} [] r = OK -> {"header"}
             [] OTHER -> {"header", "left"}}

(* archive_read_data_skip's own answer. *)
SkipReply(r) == IF r = EOF THEN OK ELSE r

(* The end of the archive is not told from the end of an entry. *)
SkipStatesFaulty == {"data", "recovery", "eof"}
SkipStates == {"data", "recovery"}

(* The body of an entry whose header failed is left in place. *)
MustSkipFaulty == state = "data"

(* What is left of the last entry's data is skipped first.                 *)
MustSkip == state \in SkipStates

(* format->read_header.                                                    *)
HeaderCodes ==
  Errors({Fault("header_fatal", FATAL)}) \cup
  (IF fmt.entry = Len(Entries) THEN {EOF}
   ELSE Codes({Fault("header_warn", WARN), Fault("header_failed", FAILED),
               Fault("header_retry", RETRY)}))

(* A header looked for in data that was not skipped leads the reader       *)
(* astray.  Where a skip has left it in a body it may find one too: what   *)
(* it takes for the next entry is the next entry.                          *)
HeaderRead(f, code) ==
  CASE f.body = "body" -> [f EXCEPT !.body = "astray"]
    [] code \in {OK, WARN, FAILED} ->
         [entry |-> f.entry + 1, extent |-> 1, used |-> 0, origin |-> 0,
          body |-> "body"]
    [] code = RETRY -> [f EXCEPT !.body = "header"]
    [] OTHER -> [f EXCEPT !.body = "dead"]

(* f->closed is not set. *)
CloseFiltersFaulty ==
  /\ chain' = chain
  /\ held' = IF chain = "open" THEN held - 1 ELSE held

(* close_filters: the client's closer, once.                               *)
CloseFilters ==
  /\ chain' = IF chain = "open" THEN "closed" ELSE chain
  /\ held' = IF chain = "open" THEN held - 1 ELSE held
CloseCodes == IF chain = "open" THEN Codes({Fault("close", FATAL)}) ELSE {OK}

-----------------------------------------------------------------------------
(* archive_check_magic: a call in a wrong state makes the archive fatal.   *)

Starts == call = Idle /\ state # "freed"

Refuse ==
  /\ state' = "fatal" /\ reply' = Answer("refused", FATAL)
  /\ UNCHANGED <<clientVars, entryVars, fmt, dataVars, fdVars, call>>

-----------------------------------------------------------------------------
(* archive_read_open1                                                      *)

OpenEnds(code, s, c, h) ==
  /\ state' = s /\ chain' = c /\ held' = h /\ opens' = opens + 1
  /\ reply' = Answer("open", code)
  /\ UNCHANGED <<entryVars, fmt, dataVars, fdVars, call>>

(* The opener fails and the closer cleans up.                              *)
OpenerFails == "opener" \in Faults /\ OpenEnds(FATAL, state, chain, held)

(* No memory for the filter: the client stays open without one.            *)
NoMemory == "nomem" \in Faults /\ OpenEnds(FATAL, state, chain, held + 1)

(* choose_filters fails: a filter that does not start or cannot be read    *)
(* frees the chain, too many filters leave it.                             *)
NoFilter ==
  \/ "filter" \in Faults /\ OpenEnds(FATAL, "fatal", "none", held)
  \/ "filters" \in Faults /\ OpenEnds(FATAL, "fatal", "open", held + 1)

(* Nobody bids for the format: the filters are closed.                     *)
NoFormat == "format" \in Faults /\ OpenEnds(FATAL, "fatal", "closed", held)

Opened == OpenEnds(OK, "header", "open", held + 1)

Open ==
  /\ Starts /\ opens < MaxOpens
  /\ IF state = "new"
     THEN OpenerFails \/ NoMemory \/ NoFilter \/ NoFormat \/ Opened
     ELSE Refuse

-----------------------------------------------------------------------------
(* archive_read_data_skip and archive_read_next_header                     *)

DataSkip ==
  /\ Starts /\ "skip" \in Calls
  /\ IF state \notin SkipStates THEN Refuse
     ELSE \E r \in SkipCodes :
       /\ fmt' \in Skipped(r) /\ skipped' = r
       /\ state' = IF r = FATAL THEN "fatal" ELSE "header"
       /\ reply' = Answer("skip", SkipReply(r))
       /\ UNCHANGED <<clientVars, fileCount, declared, headed, dataVars, fdVars, call>>

(* "EOF always wins; otherwise return the worst error."                    *)
WorstOf(r1, r2) == IF r2 < r1 \/ r2 = EOF THEN r2 ELSE r1

(* A header that could not be parsed is taken for one that was. *)
StateAfterFaulty(r2) ==
  CASE r2 = EOF -> "eof"
    [] r2 \in {OK, WARN, FAILED} -> "data"
    [] r2 = FATAL -> "fatal"
    [] OTHER -> "header"

StateAfter(r2) ==
  CASE r2 = EOF -> "eof"
    [] r2 \in {OK, WARN} -> "data"
    [] r2 = FAILED -> "recovery"
    [] r2 = FATAL -> "fatal"
    [] OTHER -> "header"

SkipFatal ==
  /\ state' = "fatal" /\ fmt' \in Skipped(FATAL)
  /\ headed' = Headed(FATAL, FATAL) /\ skipped' = FATAL
  /\ reply' = Answer("header", FATAL)
  /\ UNCHANGED <<clientVars, fileCount, declared, dataVars, fdVars, call>>

HeaderEnds(r1, f, r2) ==
  /\ r2 = RETRY => fileCount - fmt.entry < MaxRetries
  /\ state' = StateAfter(r2) /\ fmt' = HeaderRead(f, r2) /\ skipped' = r1
  /\ fileCount' = IF r2 = EOF THEN fileCount ELSE fileCount + 1
  /\ declared' = IF r2 \in {OK, WARN} THEN Entries[fmt.entry + 1].declared ELSE -1
  /\ headed' = Headed(SkipReply(r1), WorstOf(SkipReply(r1), r2))
  /\ reply' = Answer("header", WorstOf(SkipReply(r1), r2))
  /\ rd' = NoData /\ got' = <<>> /\ mixed' = FALSE
  /\ UNCHANGED <<clientVars, fdVars, call>>

NextHeader ==
  /\ Starts
  /\ IF state \notin {"header", "data", "recovery"} THEN Refuse
     ELSE \E r1 \in (IF MustSkip THEN SkipCodes ELSE {OK}) :
            IF r1 = FATAL THEN SkipFatal
            ELSE \E f \in (IF MustSkip THEN Skipped(r1) ELSE {fmt}),
                    r2 \in HeaderCodes : HeaderEnds(r1, f, r2)

-----------------------------------------------------------------------------
(* archive_read_data_block and archive_seek_data                           *)

FormatAnswers(b) ==
  /\ fmt' = b.after
  /\ state' = IF b.code = FATAL THEN "fatal" ELSE state

DataBlock ==
  /\ Starts /\ "block" \in Calls
  /\ IF state # "data" THEN Refuse
     ELSE \E b \in DataAnswers :
       /\ FormatAnswers(b)
       /\ mixed' = (mixed \/ b.len > 0)
       /\ reply' = [op |-> "block", code |-> b.code, offset |-> b.offset, len |-> b.len]
       /\ UNCHANGED <<clientVars, entryVars, rd, got, fdVars, call>>

(* The contents of an entry: its data, and zeroes in the holes.            *)
Content(e) ==
  [i \in 1..Entries[e].size |->
     IF \E x \in 1..Len(Entries[e].extents) :
          i - 1 \in Entries[e].extents[x].offset ..
                      (Entries[e].extents[x].offset + Entries[e].extents[x].len - 1)
     THEN <<e, i - 1>> ELSE Hole]

(* Data extents of an entry in increasing order, as most formats keep them. *)
Ordered(e) ==
  \A x, y \in 1..Len(Entries[e].extents) : x < y =>
     Entries[e].extents[x].offset + Entries[e].extents[x].len
       <= Entries[e].extents[y].offset

(* Only rar seeks, and only in stored entries: no holes, in order.         *)
Seekable == Ordered(fmt.entry) /\ \A i \in 1..Entry.size : Content(fmt.entry)[i] # Hole

(* The extent that holds byte k, or the first one behind it.               *)
Extents == 1..Len(Entry.extents)
Behind(k) == {x \in Extents : Entry.extents[x].offset + Entry.extents[x].len > k}
Placed(k) ==
  LET x == IF Behind(k) = {} THEN Len(Entry.extents) + 1
           ELSE CHOOSE y \in Behind(k) : \A z \in Behind(k) : y <= z
  IN  [fmt EXCEPT !.extent = x, !.origin = k,
                  !.used = IF Behind(k) = {} THEN 0
                           ELSE maximum(k - Entry.extents[x].offset, 0)]

(* The format starts the entry's data again at k: it resets the read_data  *)
(* variables and counts block offsets from there (rar does).               *)
Restart(k) ==
  /\ fmt' = Placed(k) /\ rd' = NoData
  /\ got' = <<>> /\ mixed' = FALSE
  /\ reply' = Answer("seek", k) /\ UNCHANGED state

(* A format without seek_data answers FAILED.  (A rar of several volumes   *)
(* that fails half-way has moved; this is left out.)                       *)
SeekFails(code) ==
  /\ fmt' = [fmt EXCEPT !.body = IF code = FATAL THEN "dead" ELSE @]
  /\ state' = IF code = FATAL THEN "fatal" ELSE state
  /\ reply' = Answer("seek", code) /\ UNCHANGED dataVars

SeekData ==
  /\ Starts /\ "seek" \in Calls
  /\ IF state # "data" THEN Refuse
     ELSE /\ \/ Seekable /\ \E k \in 0..Entry.size : Restart(k)
             \/ \E c \in Errors({Fault("seek", FAILED), Fault("seek", FATAL)}) : SeekFails(c)
          /\ UNCHANGED <<clientVars, entryVars, fdVars, call>>

-----------------------------------------------------------------------------
(* archive_read_data(a, buff, s): one pass of its loop is a step or two,   *)
(* for a block that has run out and for what is copied.                    *)

BeginData(s) ==
  /\ Starts /\ "data" \in Calls
  /\ call' = [op |-> "data", left |-> s, done |-> 0]
  /\ reply' = Answer("none", OK)
  /\ UNCHANGED <<state, clientVars, entryVars, fmt, dataVars, fdVars>>

DataEnds(n) ==
  /\ call' = Idle /\ reply' = Answer("data", n)

NeedsBlock == rd.offset = rd.output /\ rd.remaining = 0

(* The hole before a block is overlooked. *)
RefilledFaulty(b) ==
  [rd EXCEPT !.remaining = b.len, !.block = b.block]

Refilled(b) ==
  [rd EXCEPT !.remaining = b.len, !.offset = b.offset, !.block = b.block]

DataRefused ==
  /\ call.op = "data" /\ NeedsBlock /\ state # "data"
  /\ state' = "fatal" /\ DataEnds(FATAL)
  /\ UNCHANGED <<clientVars, entryVars, fmt, rd, got, mixed, fdVars>>

(* The hole at the end of the entry is overlooked. *)
AtEndFaulty(b) == b.code = EOF
(* The end of the entry is taken for an empty block. *)
AtEndNeverFaulty(b) == FALSE
AtEnd(b) == b.code = EOF /\ b.offset = rd.output /\ b.len = 0

DataRefill ==
  /\ call.op = "data" /\ NeedsBlock /\ state = "data"
  /\ \E b \in DataAnswers :
       /\ FormatAnswers(b) /\ rd' = Refilled(b)
       /\ IF AtEnd(b) THEN DataEnds(call.done)
          ELSE IF b.code < OK THEN DataEnds(b.code)
          ELSE UNCHANGED <<call, reply>>
  /\ UNCHANGED <<clientVars, entryVars, got, mixed, fdVars>>

DataOutOfOrder ==
  /\ call.op = "data" /\ ~NeedsBlock /\ rd.offset < rd.output
  /\ DataEnds(RETRY)
  /\ UNCHANGED <<state, clientVars, entryVars, fmt, rd, got, mixed, fdVars>>

(* Zeroes up to the block's offset, then bytes of the block.               *)
Padding == minimum(call.left, rd.offset - rd.output)
(* More is copied than the block has. *)
CopyingFaulty == call.left - Padding
Copying == minimum(call.left - Padding, rd.remaining)

Piece(block, n) == [i \in 1..n |-> <<block[1], block[2] + i - 1>>]
Zeroes(n) == [i \in 1..n |-> Hole]
Further(block, n) == <<block[1], block[2] + n>>

DataCopy ==
  /\ call.op = "data" /\ ~NeedsBlock /\ rd.offset >= rd.output
  /\ got' = got \o Zeroes(Padding) \o Piece(rd.block, Copying)
  /\ rd' = [remaining |-> rd.remaining - Copying,
            offset    |-> rd.offset + Copying,
            output    |-> rd.output + Padding + Copying,
            block     |-> Further(rd.block, Copying)]
  /\ LET n == Padding + Copying
     IN  IF call.left = n THEN DataEnds(call.done + n)
         ELSE /\ call' = [call EXCEPT !.left = @ - n, !.done = @ + n]
              /\ UNCHANGED reply
  /\ UNCHANGED <<state, clientVars, entryVars, fmt, mixed, fdVars>>

-----------------------------------------------------------------------------
(* archive_read_data_into_fd(a, fd)                                        *)

BeginFd ==
  /\ Starts /\ "fd" \in Calls /\ fdpos < FdMax
  /\ IF state # "data" THEN Refuse
     ELSE /\ call' = [op |-> "fd", base |-> fdpos, actual |-> 0, left |-> 0,
                      block |-> Hole, over |-> FALSE,
                      whole |-> fmt.extent = 1 /\ fmt.used = 0 /\ fmt.origin = 0]
          /\ reply' = Answer("none", OK)
          /\ UNCHANGED <<state, clientVars, entryVars, fmt, dataVars, fdVars>>

FdEnds(code) ==
  /\ call' = Idle
  /\ reply' = [op |-> "fd", code |-> code, base |-> call.base, whole |-> call.whole]

(* The file after a write at the descriptor's offset.                      *)
Written(bytes) ==
  [i \in 1..maximum(Len(file), fdpos + Len(bytes)) |->
     IF i \in (fdpos + 1)..(fdpos + Len(bytes)) THEN bytes[i - fdpos]
     ELSE IF i <= Len(file) THEN file[i] ELSE Hole]

Write(bytes) ==
  file' = Written(bytes) /\ fdpos' = fdpos + Len(bytes) /\ UNCHANGED canLseek

(* pad_to: a regular file is moved by an lseek from the current offset,    *)
(* whose answer counts from the start of the file; others get zeroes.      *)
PadTo(target) ==
  IF target <= call.actual THEN UNCHANGED fdVars
  ELSE IF canLseek THEN
    fdpos' = fdpos + target - call.actual /\ UNCHANGED <<canLseek, file>>
  ELSE Write(Zeroes(target - call.actual))

PadArrives(target) == canLseek /\ target > call.actual => fdpos' = target

PadBreaks(target) ==
  /\ "write" \in Faults /\ ~canLseek
  /\ \E n \in 0..(target - call.actual - 1) : Write(Zeroes(n))

(* The declared size is ignored. *)
ClippedFaulty(n) == n

(* A block is cut at the declared size of the entry.                       *)
Clipped(n) == IF declared >= 0 THEN minimum(n, declared) ELSE n

FdBlock(b) ==
  LET target == Clipped(b.offset)
      size   == Clipped(b.offset + b.len) - target
  IN  /\ b.code = OK
      /\ \/ /\ PadTo(target)
            /\ IF PadArrives(target)
               THEN /\ call' = [call EXCEPT !.actual = maximum(@, target),
                                  !.left = size, !.block = b.block,
                                  !.over = b.offset + b.len # target + size]
                    /\ UNCHANGED reply
               ELSE FdEnds(FATAL)
         \/ PadBreaks(target) /\ FdEnds(FATAL)

FdLast(b) ==
  LET target == Clipped(b.offset)
      over   == b.offset > call.actual /\ b.offset # target
  IN  /\ b.code = EOF
      /\ \/ /\ PadTo(target)
            /\ FdEnds(IF over THEN FAILED
                      ELSE IF ~PadArrives(target) THEN FATAL
                      ELSE IF canLseek /\ fdpos' - call.base # maximum(call.actual, target)
                      THEN FATAL ELSE OK)
         \/ PadBreaks(target) /\ FdEnds(IF over THEN FAILED ELSE FATAL)

FdNext ==
  /\ call.op = "fd" /\ call.left = 0 /\ ~call.over
  /\ \E b \in DataAnswers :
       /\ FormatAnswers(b)
       /\ mixed' = (mixed \/ b.len > 0)
       /\ \/ FdBlock(b)
          \/ FdLast(b)
          \/ b.code < OK /\ FdEnds(b.code) /\ UNCHANGED fdVars
  /\ UNCHANGED <<clientVars, entryVars, rd, got>>

(* After a short write the same bytes are written again. *)
FdWriteFaulty ==
  /\ call.op = "fd" /\ call.left > 0
  /\ \/ \E n \in 1..call.left :
          /\ Write(Piece(call.block, n))
          /\ call' = [call EXCEPT !.actual = @ + n, !.left = @ - n]
          /\ UNCHANGED reply
     \/ "write" \in Faults /\ FdEnds(FATAL) /\ UNCHANGED fdVars
  /\ UNCHANGED <<state, clientVars, entryVars, fmt, dataVars>>

(* write may be short; -1 ends the copy.                                   *)
FdWrite ==
  /\ call.op = "fd" /\ call.left > 0
  /\ \/ \E n \in 1..call.left :
          /\ Write(Piece(call.block, n))
          /\ call' = [call EXCEPT !.actual = @ + n, !.left = @ - n,
                                  !.block = Further(@, n)]
          /\ UNCHANGED reply
     \/ "write" \in Faults /\ FdEnds(FATAL) /\ UNCHANGED fdVars
  /\ UNCHANGED <<state, clientVars, entryVars, fmt, dataVars>>

FdOverrun ==
  /\ call.op = "fd" /\ call.left = 0 /\ call.over
  /\ FdEnds(FAILED)
  /\ UNCHANGED <<state, clientVars, entryVars, fmt, dataVars, fdVars>>

-----------------------------------------------------------------------------
(* archive_read_close and archive_read_free                                *)

Close ==
  /\ Starts
  /\ IF state = "closed"
     THEN reply' = Answer("close", OK) /\ UNCHANGED <<state, clientVars>>
     ELSE /\ state' = "closed" /\ CloseFilters /\ UNCHANGED opens
          /\ \E c \in CloseCodes : reply' = Answer("close", c)
  /\ UNCHANGED <<entryVars, fmt, dataVars, fdVars, call>>

(* The answer is the extractor's when there is one; the close of a fatal   *)
(* archive is not reported.                                                *)
FreeCode(close) ==
  IF Extracting THEN OK ELSE IF state = "fatal" THEN OK ELSE close

Free ==
  /\ Starts
  /\ state' = "freed" /\ chain' = "none"
  /\ held' = IF chain = "open" THEN held - 1 ELSE held
  /\ \E c \in CloseCodes : reply' = Answer("free", FreeCode(c))
  /\ UNCHANGED <<opens, entryVars, fmt, dataVars, fdVars, call>>

-----------------------------------------------------------------------------
DataStep == DataRefused \/ DataRefill \/ DataOutOfOrder \/ DataCopy
FdStep   == FdNext \/ FdWrite \/ FdOverrun

Next ==
  \/ Open \/ NextHeader \/ DataSkip \/ DataBlock \/ SeekData
  \/ \E s \in Requests : BeginData(s)
  \/ DataStep \/ BeginFd \/ FdStep
  \/ Close \/ Free

Spec == Init /\ [][Next]_vars

(* A call that has begun goes on: it is sequential code.                   *)
FairSpec == Spec /\ WF_vars(DataStep) /\ WF_vars(FdStep)

-----------------------------------------------------------------------------
(* Properties.                                                             *)

TypeOK ==
  /\ state \in States /\ chain \in {"none", "open", "closed"}
  /\ held \in Nat /\ opens \in 0..MaxOpens
  /\ fileCount \in 0..(Len(Entries) + MaxRetries + 1) /\ declared \in Nat \cup {-1}
  /\ fmt.entry \in 0..Len(Entries) /\ fmt.extent \in Nat \ {0} /\ fmt.used \in Nat
  /\ fmt.origin \in Nat /\ fmt.body \in {"header", "body", "left", "dead", "astray"}
  /\ rd.remaining \in Nat /\ rd.offset \in Nat /\ rd.output \in Nat
  /\ fdpos \in Nat /\ mixed \in BOOLEAN
  /\ headed.code \in {OK, EOF, RETRY, WARN, FAILED, FATAL}
  /\ {headed.skip, skipped} \subseteq {OK, EOF, WARN, FAILED, FATAL}

FromOrigin == SubSeq(Content(fmt.entry), fmt.origin + 1, Entry.size)

(* What archive_read_data has copied is the beginning of the entry, holes  *)
(* as zeroes, however blocks, buffers, errors and seeks fall, unless the   *)
(* application has taken blocks itself or they do not come in order.       *)
StreamFaithful ==
  fmt.entry > 0 /\ ~mixed /\ Ordered(fmt.entry) =>
    /\ Len(got) = rd.output /\ rd.output <= Len(FromOrigin)
    /\ got = SubSeq(FromOrigin, 1, rd.output)

(* archive_read_data answers 0 only after all of the entry, the hole at    *)
(* its end included.                                                       *)
ZeroMeansEnd ==
  reply.op = "data" /\ reply.code = 0 /\ ~mixed /\ Ordered(fmt.entry) =>
    got = FromOrigin

(* The state of the archive agrees with what the format reader can be      *)
(* asked for: a header only where no body is left, unless a skip that did  *)
(* not answer OK left it, data only behind a header, nothing behind a      *)
(* fatal answer.                                                           *)
FormatInStep ==
  /\ state \in {"new", "header"} =>
       \/ fmt.body = "header"
       \/ fmt.body = "left" /\ skipped \in {WARN, EOF, FAILED}
  /\ state \in {"data", "recovery"} => fmt.body = "body"
  /\ fmt.body # "astray"
  /\ fmt.body = "dead" => state \in {"eof", "fatal", "closed", "freed"}

(* At the end of the archive and after a fatal error no call reaches the   *)
(* format reader again, and only close and free lead on.                   *)
StaysEnded == state' \in {"fatal", "closed", "freed"} \cup {state} /\ fmt' = fmt
EndIsFinal == [][(state \in {"eof", "fatal", "closed"}) => StaysEnded]_vars

(* The client's closer is called once for every opener, before or in free. *)
ClosedOnce ==
  /\ held = IF chain = "open" THEN 1 ELSE 0
  /\ state = "freed" => held = 0

HandsOut ==
  \/ Len(got') > Len(got) \/ Len(file') > Len(file)
  \/ reply'.op = "block" /\ reply'.code \in {OK, WARN}

(* No byte of an entry is handed out after the header call for it has      *)
(* answered FAILED, unless it was the skip of the last body that failed.   *)
FailedEntryRefused ==
  [][HandsOut => headed.code # FAILED \/ headed.skip = FAILED]_vars

(* archive_read_data_into_fd writes nothing behind the declared size, as   *)
(* long as blocks come in order.                                           *)
FdWithinDeclared ==
  call.op = "fd" /\ declared >= 0 /\ Ordered(fmt.entry) =>
    fdpos - call.base <= declared

(* When it answers OK for an entry nothing of which was read before, the   *)
(* descriptor has moved by the size of the entry and the file holds the    *)
(* entry; only a hole at the end may still be missing from the file.  Here *)
(* too blocks have to come in order.                                       *)
FdFaithful ==
  reply.op = "fd" /\ reply.code = OK /\ reply.whole /\ Ordered(fmt.entry) =>
    /\ fdpos = reply.base + Entry.size
    /\ \A i \in 1..Entry.size :
         Content(fmt.entry)[i] =
           IF reply.base + i <= Len(file) THEN file[reply.base + i] ELSE Hole

(* A call that has begun returns.                                          *)
CallsReturn == call # Idle ~> call = Idle
=============================================================================
