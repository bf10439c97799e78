-------------------------- MODULE ReadArchiveProofs --------------------------
(***************************************************************************)
(* Proofs about the state machine of struct archive_read and about the     *)
(* bytes archive_read.c and archive_read_data_into_fd.c hand out, for every*)
(* list of entries, every cutting of their extents into blocks, every      *)
(* buffer size, every set of calls and every failure of the layers below.  *)
(*                                                                         *)
(* The state machine comes first.  The argument about the bytes then goes  *)
(* from the format reader to the application: where the reader stands in   *)
(* the entry (Walking), what the read_data variables and the call in       *)
(* progress may hold (Moving), what archive_read_data has copied           *)
(* (Streaming), what the copy to a descriptor has written (Writing), and   *)
(* what the last answer promises (ZeroPromise, FdPromise).                 *)
(***************************************************************************)
EXTENDS ReadArchive, SequenceTheorems, WellFoundedInduction, TLAPS

(* The format reader's state is a record whatever its numbers are.         *)
Shaped(f) ==
  f = [entry |-> f.entry, extent |-> f.extent, used |-> f.used,
       origin |-> f.origin, body |-> f.body]

(* A call names its operation; a copy to a descriptor runs in the state    *)
(* DATA; an archive that is new has no filters.                            *)
Running  == "op" \in DOMAIN call /\ (call.op = "fd" => state = "data")
Unopened == state = "new" => chain = "none"

Control == Shaped(fmt) /\ state \in States /\ FormatInStep /\ Running

-----------------------------------------------------------------------------
(* The answers of the layers below.                                        *)

LEMMA CodeValues ==
  /\ OK = 0 /\ EOF = 1 /\ RETRY = -10 /\ WARN = -20 /\ FAILED = -25 /\ FATAL = -30
BY DEF OK, EOF, RETRY, WARN, FAILED, FATAL

LEMMA ErrorsAre ==
  ASSUME NEW n, NEW c
  PROVE  Errors({Fault(n, c)}) \subseteq {c}
BY DEF Errors, Fault

LEMMA ErrorsAreTwo ==
  ASSUME NEW n, NEW c, NEW m, NEW d
  PROVE  Errors({Fault(n, c), Fault(m, d)}) \subseteq {c, d}
BY DEF Errors, Fault

LEMMA ErrorsAreThree ==
  ASSUME NEW n, NEW c, NEW m, NEW d, NEW p, NEW e
  PROVE  Errors({Fault(n, c), Fault(m, d), Fault(p, e)}) \subseteq {c, d, e}
BY DEF Errors, Fault

LEMMA SkipAnswers == \A r \in SkipCodes : r \in {OK, WARN, EOF, FAILED, FATAL}
BY ErrorsAreTwo DEF SkipCodes, Codes

(* A skip takes the reader out of the body, kills it, or answers that it   *)
(* may have left it there.                                                 *)
LEMMA SkipLeaves ==
  ASSUME NEW r \in SkipCodes, NEW f \in Skipped(r)
  PROVE  \E k \in {"header", "left", "dead"} :
           /\ f = [fmt EXCEPT !.body = k]
           /\ k = "dead" <=> r = FATAL
           /\ k = "left" => r \in {WARN, EOF, FAILED}
<1>1. r \in {OK, WARN, EOF, FAILED, FATAL}
  BY SkipAnswers
<1>2. CASE r = FATAL
  <2>1. Skipped(r) = {[fmt EXCEPT !.body = "dead"]}
    BY <1>2, CodeValues DEF Skipped
  <2> QED BY <1>2, <2>1
<1>3. CASE r = OK
  <2>1. r # FATAL
    BY <1>3, CodeValues
  <2>2. Skipped(r) = {[fmt EXCEPT !.body = "header"]}
    BY <1>3, <2>1 DEF Skipped
  <2> QED BY <2>1, <2>2
<1>4. CASE r \in {WARN, EOF, FAILED}
  <2>1. r # FATAL /\ r # OK
    BY <1>4, CodeValues
  <2>2. Skipped(r) = {[fmt EXCEPT !.body = b] : b \in {"header", "left"}}
    BY <2>1 DEF Skipped
  <2> QED BY <1>4, <2>1, <2>2
<1> QED BY <1>1, <1>2, <1>3, <1>4

LEMMA HeaderAnswers ==
  \A r \in HeaderCodes : r \in {OK, EOF, RETRY, WARN, FAILED, FATAL}
BY ErrorsAre, ErrorsAreThree DEF HeaderCodes, Codes

(* An answer of read_data keeps the reader in the body, or kills it when   *)
(* it is fatal.                                                            *)
LEMMA DataAnswersKeep ==
  ASSUME Shaped(fmt), NEW b \in DataAnswers
  PROVE  /\ Shaped(b.after)
         /\ b.after.body = IF b.code = FATAL THEN "dead" ELSE fmt.body
<1>1. CASE b \in {Block(c, n) : c \in Codes({Fault("warn", WARN)}), n \in PieceLengths}
  <2>1. PICK c \in Codes({Fault("warn", WARN)}), n \in PieceLengths : b = Block(c, n)
    BY <1>1
  <2>2. c \in {OK, WARN}
    BY <2>1, ErrorsAre DEF Codes
  <2>3. b.code = c /\ b.after = PastPiece(n) /\ b.code # FATAL
    BY <2>1, <2>2, CodeValues DEF Block
  <2>4. Shaped(PastPiece(n)) /\ PastPiece(n).body = fmt.body
    BY DEF PastPiece, Shaped
  <2> QED BY <2>3, <2>4
<1>2. CASE b = EndOfEntry
  BY <1>2, CodeValues DEF EndOfEntry
<1>3. CASE b \in {NoBlock(c) : c \in Errors({Fault("failed", FAILED), Fault("fatal", FATAL)})}
  <2>1. PICK c \in Errors({Fault("failed", FAILED), Fault("fatal", FATAL)}) : b = NoBlock(c)
    BY <1>3
  <2>2. b.code = c /\ b.after = IF c = FATAL THEN [fmt EXCEPT !.body = "dead"] ELSE fmt
    BY <2>1 DEF NoBlock
  <2> QED BY <2>2 DEF Shaped
<1> QED BY <1>1, <1>2, <1>3 DEF DataAnswers

-----------------------------------------------------------------------------
(* The control invariant is inductive.                                     *)

LEMMA InitControl == Init => Control
BY DEF Init, Control, Shaped, States, FormatInStep, Running, Idle

(* A call refused by archive_check_magic leaves the reader as it was.      *)
LEMMA RefuseControl ==
  ASSUME Control, call = Idle, Refuse
  PROVE  Control'
BY DEF Control, Shaped, States, FormatInStep, Running, Idle, Refuse

LEMMA OpenControl == Control /\ Open => Control'
<1> SUFFICES ASSUME Control, Open PROVE Control'
  OBVIOUS
<1>1. call = Idle
  BY DEF Open, Starts
<1>2. CASE state # "new"
  BY <1>1, <1>2, RefuseControl DEF Open
<1>3. CASE state = "new"
  <2>1. /\ fmt' = fmt /\ call' = call /\ state' \in {"new", "fatal", "header"}
        /\ skipped' = skipped
    BY <1>3 DEF Open, OpenerFails, NoMemory, NoFilter, NoFormat, Opened, OpenEnds, entryVars
  <2>2. fmt.body = "header" \/ (fmt.body = "left" /\ skipped \in {WARN, EOF, FAILED})
    BY <1>3 DEF Control, FormatInStep
  <2> QED BY <1>1, <1>3, <2>1, <2>2 DEF Control, Shaped, States, FormatInStep, Running, Idle
<1> QED BY <1>2, <1>3

LEMMA DataSkipControl == Control /\ DataSkip => Control'
<1> SUFFICES ASSUME Control, DataSkip PROVE Control'
  OBVIOUS
<1>1. call = Idle
  BY DEF DataSkip, Starts
<1>2. CASE state \notin SkipStates
  BY <1>1, <1>2, RefuseControl DEF DataSkip
<1>3. CASE state \in SkipStates
  <2>1. PICK r \in SkipCodes :
          /\ fmt' \in Skipped(r) /\ skipped' = r /\ call' = call
          /\ state' = IF r = FATAL THEN "fatal" ELSE "header"
    BY <1>3 DEF DataSkip
  <2>2. PICK k \in {"header", "left", "dead"} :
          /\ fmt' = [fmt EXCEPT !.body = k]
          /\ k = "dead" <=> r = FATAL
          /\ k = "left" => r \in {WARN, EOF, FAILED}
    BY <2>1, SkipLeaves
  <2>3. Shaped(fmt') /\ fmt'.body = k
    BY <2>2 DEF Control, Shaped
  <2> QED BY <1>1, <2>1, <2>2, <2>3 DEF Control, Shaped, States, FormatInStep, Running, Idle
<1> QED BY <1>2, <1>3

LEMMA FatalSkip ==
  ASSUME SkipFatal
  PROVE  fmt' = [fmt EXCEPT !.body = "dead"]
<1>1. Skipped(FATAL) = {[fmt EXCEPT !.body = "dead"]}
  BY CodeValues DEF Skipped
<1> QED BY <1>1 DEF SkipFatal

(* A header is only read where the reader stands on one, or where a skip   *)
(* has left it: what the states DATA and RECOVERY leave of a body is       *)
(* skipped.                                                                *)
Ready(f) ==
  /\ f.body \in {"header", "left"} /\ f.entry = fmt.entry
  /\ \A k : [f EXCEPT !.body = k] = [fmt EXCEPT !.body = k]

LEMMA SkipReady ==
  ASSUME Control, state \in {"header", "data", "recovery"},
         NEW r \in SkipCodes \cup {OK}, r # FATAL,
         NEW f, MustSkip => r \in SkipCodes /\ f \in Skipped(r), ~MustSkip => f = fmt
  PROVE  Ready(f)
<1>1. CASE MustSkip
  <2>1. PICK k \in {"header", "left", "dead"} :
          f = [fmt EXCEPT !.body = k] /\ (k = "dead" <=> r = FATAL)
    BY <1>1, SkipLeaves
  <2> QED BY <2>1 DEF Control, Shaped, Ready
<1>2. CASE ~MustSkip
  <2>1. f = fmt /\ state = "header"
    BY <1>2 DEF MustSkip, SkipStates
  <2> QED BY <2>1 DEF Control, FormatInStep, Ready
<1> QED BY <1>1, <1>2

LEMMA HeaderReadStates ==
  ASSUME Control, NEW f, Ready(f), NEW r2 \in HeaderCodes
  PROVE  /\ Shaped(HeaderRead(f, r2))
         /\ HeaderRead(f, r2).body =
              CASE r2 \in {OK, WARN, FAILED} -> "body"
                [] r2 = RETRY -> "header"
                [] OTHER -> "dead"
<1>1. f.body # "body"
  BY DEF Ready
<1>2. CASE r2 \in {OK, WARN, FAILED}
  <2>1. r2 # RETRY
    BY <1>2, CodeValues
  <2>2. HeaderRead(f, r2) = [entry |-> f.entry + 1, extent |-> 1, used |-> 0,
                             origin |-> 0, body |-> "body"]
    BY <1>1, <1>2, <2>1 DEF HeaderRead
  <2>3. Shaped(HeaderRead(f, r2)) /\ HeaderRead(f, r2).body = "body"
    BY <2>2 DEF Shaped
  <2> QED BY <1>2, <2>1, <2>3
<1>3. CASE r2 = RETRY
  <2>1. r2 \notin {OK, WARN, FAILED}
    BY <1>3, CodeValues
  <2>2. HeaderRead(f, r2) = [fmt EXCEPT !.body = "header"]
    BY <1>1, <1>3, <2>1 DEF HeaderRead, Ready
  <2>3. /\ Shaped([fmt EXCEPT !.body = "header"])
        /\ [fmt EXCEPT !.body = "header"].body = "header"
    BY DEF Control, Shaped
  <2> QED BY <1>3, <2>1, <2>2, <2>3
<1>4. CASE r2 \notin {OK, WARN, FAILED, RETRY}
  <2>1. HeaderRead(f, r2) = [fmt EXCEPT !.body = "dead"]
    BY <1>1, <1>4 DEF HeaderRead, Ready
  <2>2. /\ Shaped([fmt EXCEPT !.body = "dead"])
        /\ [fmt EXCEPT !.body = "dead"].body = "dead"
    BY DEF Control, Shaped
  <2> QED BY <1>4, <2>1, <2>2
<1> QED BY <1>2, <1>3, <1>4

(* What next_header does when it is not refused.                           *)
LEMMA HeaderWays ==
  ASSUME Control, NextHeader
  PROVE  \/ Refuse
         \/ state \in {"header", "data", "recovery"} /\ SkipFatal
         \/ /\ state \in {"header", "data", "recovery"}
            /\ \E f : \E r1 \in SkipCodes \cup {OK}, r2 \in HeaderCodes :
                 r1 # FATAL /\ Ready(f) /\ HeaderEnds(r1, f, r2)
<1>1. CASE state \notin {"header", "data", "recovery"}
  BY <1>1 DEF NextHeader
<1>2. CASE state \in {"header", "data", "recovery"}
  <2>1. PICK r1 \in (IF MustSkip THEN SkipCodes ELSE {OK}) :
          IF r1 = FATAL THEN SkipFatal
          ELSE \E f \in (IF MustSkip THEN Skipped(r1) ELSE {fmt}),
                  r2 \in HeaderCodes : HeaderEnds(r1, f, r2)
    BY <1>2 DEF NextHeader
  <2>2. CASE r1 = FATAL
    BY <1>2, <2>1, <2>2
  <2>3. CASE r1 # FATAL
    <3>1. PICK f \in (IF MustSkip THEN Skipped(r1) ELSE {fmt}), r2 \in HeaderCodes :
            HeaderEnds(r1, f, r2)
      BY <2>1, <2>3
    <3>2. /\ r1 \in SkipCodes \cup {OK}
          /\ MustSkip => r1 \in SkipCodes /\ f \in Skipped(r1)
          /\ ~MustSkip => f = fmt
      BY <2>1, <3>1
    <3>3. Ready(f)
      BY <1>2, <2>3, <3>2, SkipReady
    <3> QED BY <1>2, <2>3, <3>1, <3>2, <3>3
  <2> QED BY <2>2, <2>3
<1> QED BY <1>1, <1>2

LEMMA NextHeaderControl == Control /\ NextHeader => Control'
<1> SUFFICES ASSUME Control, NextHeader PROVE Control'
  OBVIOUS
<1>1. call = Idle
  BY DEF NextHeader, Starts
<1>2. CASE Refuse
  BY <1>1, <1>2, RefuseControl
<1>3. CASE SkipFatal
  <2>1. Shaped(fmt') /\ fmt'.body = "dead" /\ state' = "fatal" /\ call' = call
    BY <1>3, FatalSkip DEF SkipFatal, Control, Shaped
  <2> QED BY <1>1, <2>1 DEF Control, Shaped, States, FormatInStep, Running, Idle
<1>4. ASSUME NEW r1, NEW f, Ready(f), NEW r2 \in HeaderCodes, HeaderEnds(r1, f, r2)
      PROVE  Control'
  <2>1. fmt' = HeaderRead(f, r2) /\ state' = StateAfter(r2) /\ call' = call
    BY <1>4 DEF HeaderEnds
  <2>2. Shaped(fmt')
    BY <1>4, <2>1, HeaderReadStates
  <2>3. fmt'.body = CASE r2 \in {OK, WARN, FAILED} -> "body"
                      [] r2 = RETRY -> "header"
                      [] OTHER -> "dead"
    BY <1>4, <2>1, HeaderReadStates
  <2>4. r2 \in {OK, EOF, RETRY, WARN, FAILED, FATAL}
    BY <1>4, HeaderAnswers
  <2>5. CASE r2 \in {OK, WARN}
    <3>1. state' = "data" /\ fmt'.body = "body"
      BY <2>1, <2>3, <2>5, CodeValues DEF StateAfter
    <3> QED BY <1>1, <2>1, <2>2, <3>1 DEF Control, Shaped, States, FormatInStep, Running
  <2>6. CASE r2 = FAILED
    <3>1. state' = "recovery" /\ fmt'.body = "body"
      BY <2>1, <2>3, <2>6, CodeValues DEF StateAfter
    <3> QED BY <1>1, <2>1, <2>2, <3>1 DEF Control, Shaped, States, FormatInStep, Running, Idle
  <2>7. CASE r2 = RETRY
    <3>1. state' = "header" /\ fmt'.body = "header"
      BY <2>1, <2>3, <2>7, CodeValues DEF StateAfter
    <3> QED BY <1>1, <2>1, <2>2, <3>1 DEF Control, Shaped, States, FormatInStep, Running, Idle
  <2>8. CASE r2 \in {EOF, FATAL}
    <3>1. state' \in {"eof", "fatal"} /\ fmt'.body = "dead"
      BY <2>1, <2>3, <2>8, CodeValues DEF StateAfter
    <3> QED BY <1>1, <2>1, <2>2, <3>1 DEF Control, Shaped, States, FormatInStep, Running, Idle
  <2> QED BY <2>4, <2>5, <2>6, <2>7, <2>8
<1> QED BY <1>2, <1>3, <1>4, HeaderWays

(* A step that takes an answer of read_data in the state DATA.             *)
LEMMA AnswerControl ==
  ASSUME Control, state = "data", NEW b \in DataAnswers, FormatAnswers(b),
         "op" \in DOMAIN call', b.code = FATAL => call'.op # "fd"
  PROVE  Control'
<1>1. Shaped(fmt') /\ fmt'.body = IF b.code = FATAL THEN "dead" ELSE "body"
  BY DataAnswersKeep DEF FormatAnswers, Control, FormatInStep
<1>2. state' = IF b.code = FATAL THEN "fatal" ELSE "data"
  BY DEF FormatAnswers
<1> QED BY <1>1, <1>2 DEF Control, Shaped, States, FormatInStep, Running

LEMMA DataBlockControl == Control /\ DataBlock => Control'
<1> SUFFICES ASSUME Control, DataBlock PROVE Control'
  OBVIOUS
<1>1. call = Idle
  BY DEF DataBlock, Starts
<1>2. CASE state # "data"
  BY <1>1, <1>2, RefuseControl DEF DataBlock
<1>3. CASE state = "data"
  <2>1. PICK b \in DataAnswers : FormatAnswers(b) /\ call' = call
    BY <1>3 DEF DataBlock
  <2> QED BY <1>1, <1>3, <2>1, AnswerControl DEF Idle, Control, Running
<1> QED BY <1>2, <1>3

LEMMA SeekDataControl == Control /\ SeekData => Control'
<1> SUFFICES ASSUME Control, SeekData PROVE Control'
  OBVIOUS
<1>1. call = Idle
  BY DEF SeekData, Starts
<1>2. CASE state # "data"
  BY <1>1, <1>2, RefuseControl DEF SeekData
<1>3. CASE state = "data"
  <2>1. call' = call
    BY <1>3 DEF SeekData
  <2>2. ASSUME NEW k, Restart(k) PROVE Control'
    <3>1. Shaped(fmt') /\ fmt'.body = fmt.body /\ state' = state
      BY <2>2 DEF Restart, Placed, Control, Shaped
    <3> QED BY <1>1, <1>3, <2>1, <3>1 DEF Control, Shaped, States, FormatInStep, Running
  <2>3. ASSUME NEW c, SeekFails(c) PROVE Control'
    <3>1. /\ Shaped(fmt')
          /\ fmt'.body = IF c = FATAL THEN "dead" ELSE fmt.body
          /\ state' = IF c = FATAL THEN "fatal" ELSE state
      BY <2>3 DEF SeekFails, Control, Shaped
    <3> QED BY <1>1, <1>3, <2>1, <3>1 DEF Control, Shaped, States, FormatInStep, Running, Idle
  <2> QED BY <1>3, <2>2, <2>3 DEF SeekData
<1> QED BY <1>2, <1>3

LEMMA DataStepControl == Control /\ DataStep => Control'
<1> SUFFICES ASSUME Control, DataStep PROVE Control'
  OBVIOUS
<1>1. CASE DataRefused
  <2>1. state' = "fatal" /\ fmt' = fmt /\ call' = Idle
    BY <1>1 DEF DataRefused, DataEnds
  <2> QED BY <2>1 DEF Control, Shaped, States, FormatInStep, Running, Idle
<1>2. CASE DataRefill
  <2>1. PICK b \in DataAnswers :
          /\ FormatAnswers(b)
          /\ call' = Idle \/ call' = call
    BY <1>2 DEF DataRefill, DataEnds
  <2>2. state = "data" /\ call.op = "data"
    BY <1>2 DEF DataRefill
  <2>3. call'.op # "fd" /\ "op" \in DOMAIN call'
    BY <2>1, <2>2 DEF Idle, Control, Running
  <2> QED BY <2>1, <2>2, <2>3, AnswerControl
<1>3. CASE DataOutOfOrder
  <2>1. state' = state /\ fmt' = fmt /\ skipped' = skipped /\ call' = Idle
    BY <1>3 DEF DataOutOfOrder, DataEnds, entryVars
  <2> QED BY <2>1 DEF Control, Shaped, States, FormatInStep, Running, Idle
<1>4. CASE DataCopy
  <2>1. state' = state /\ fmt' = fmt /\ skipped' = skipped
    BY <1>4 DEF DataCopy, entryVars
  <2>2. call.op = "data"
    BY <1>4 DEF DataCopy
  <2>3. CASE call' = Idle
    BY <2>1, <2>3 DEF Control, Shaped, States, FormatInStep, Running, Idle
  <2>4. ASSUME NEW l, NEW d, call' = [call EXCEPT !.left = l, !.done = d]
        PROVE  Control'
    <3>1. "op" \in DOMAIN call' /\ call'.op = call.op
      BY <2>4 DEF Control, Running
    <3> QED BY <2>1, <2>2, <3>1 DEF Control, Shaped, States, FormatInStep, Running
  <2>5. call' = Idle \/ \E l, d : call' = [call EXCEPT !.left = l, !.done = d]
    BY <1>4 DEF DataCopy, DataEnds
  <2> QED BY <2>3, <2>4, <2>5
<1> QED BY <1>1, <1>2, <1>3, <1>4 DEF DataStep

LEMMA FdStepControl == Control /\ FdStep => Control'
<1> SUFFICES ASSUME Control, FdStep PROVE Control'
  OBVIOUS
<1>1. CASE FdNext
  <2>1. state = "data"
    BY <1>1 DEF FdNext, Control, Running
  <2>2. PICK b \in DataAnswers :
          /\ FormatAnswers(b)
          /\ \/ FdBlock(b)
             \/ FdLast(b)
             \/ b.code < OK /\ FdEnds(b.code) /\ UNCHANGED fdVars
    BY <1>1 DEF FdNext
  <2>3. CASE FdBlock(b)
    <3>1. b.code # FATAL
      BY <2>3, CodeValues DEF FdBlock
    <3>2. CASE call' = Idle
      BY <2>1, <2>2, <3>1, <3>2, AnswerControl DEF Idle
    <3>3. CASE call' # Idle
      <4> DEFINE target == Clipped(b.offset)
                 size   == Clipped(b.offset + b.len) - target
      <4>1. call' = [call EXCEPT !.actual = maximum(@, target), !.left = size,
                       !.block = b.block, !.over = b.offset + b.len # target + size]
        BY <2>3, <3>3, Zenon DEF FdBlock, FdEnds
      <4>2. "op" \in DOMAIN call'
        BY <4>1 DEF Control, Running
      <4> QED BY <2>1, <2>2, <3>1, <4>2, AnswerControl
    <3> QED BY <3>2, <3>3
  <2>4. CASE FdLast(b) \/ (b.code < OK /\ FdEnds(b.code) /\ UNCHANGED fdVars)
    <3>1. call' = Idle
      BY <2>4 DEF FdLast, FdEnds
    <3> QED BY <2>1, <2>2, <3>1, AnswerControl DEF Idle
  <2> QED BY <2>2, <2>3, <2>4
<1>2. CASE FdWrite \/ FdOverrun
  <2>1. state' = state /\ fmt' = fmt
    BY <1>2 DEF FdWrite, FdOverrun
  <2>2. state = "data"
    BY <1>2 DEF FdWrite, FdOverrun, Control, Running
  <2>3. CASE call' = Idle
    BY <2>1, <2>2, <2>3 DEF Control, Shaped, States, FormatInStep, Running, Idle
  <2>4. CASE call' # Idle
    <3>1. PICK a, l, k : call' = [call EXCEPT !.actual = a, !.left = l, !.block = k]
      BY <1>2, <2>4 DEF FdWrite, FdOverrun, FdEnds
    <3>2. "op" \in DOMAIN call'
      BY <3>1 DEF Control, Running
    <3> QED BY <2>1, <2>2, <3>2 DEF Control, Shaped, States, FormatInStep, Running
  <2> QED BY <2>3, <2>4
<1> QED BY <1>1, <1>2 DEF FdStep

LEMMA BeginControl ==
  Control /\ (BeginFd \/ \E s \in Requests : BeginData(s)) => Control'
<1> SUFFICES ASSUME Control, BeginFd \/ \E s \in Requests : BeginData(s)
             PROVE  Control'
  OBVIOUS
<1>1. CASE BeginFd /\ state # "data"
  BY <1>1, RefuseControl DEF BeginFd, Starts
<1>2. CASE BeginFd /\ state = "data"
  <2>1. state' = state /\ fmt' = fmt /\ "op" \in DOMAIN call'
    BY <1>2 DEF BeginFd
  <2> QED BY <1>2, <2>1 DEF Control, Shaped, States, FormatInStep, Running
<1>3. CASE \E s \in Requests : BeginData(s)
  <2>1. /\ state' = state /\ fmt' = fmt /\ skipped' = skipped
        /\ "op" \in DOMAIN call' /\ call'.op = "data"
    BY <1>3 DEF BeginData, entryVars
  <2> QED BY <2>1 DEF Control, Shaped, States, FormatInStep, Running
<1> QED BY <1>1, <1>2, <1>3

LEMMA EndControl == Control /\ (Close \/ Free) => Control'
<1> SUFFICES ASSUME Control, Close \/ Free PROVE Control'
  OBVIOUS
<1>1. call = Idle /\ call' = call /\ fmt' = fmt
  BY DEF Close, Free, Starts
<1>2. state' \in {"closed", "freed"}
  BY DEF Close, Free
<1> QED BY <1>1, <1>2 DEF Control, Shaped, States, FormatInStep, Running, Idle

LEMMA NextControl == Control /\ [Next]_vars => Control'
<1> SUFFICES ASSUME Control, [Next]_vars PROVE Control'
  OBVIOUS
<1>1. CASE UNCHANGED vars
  BY <1>1 DEF vars, entryVars, Control, Shaped, States, FormatInStep, Running
<1>2. CASE Next
  BY <1>2, OpenControl, NextHeaderControl, DataSkipControl, DataBlockControl,
     SeekDataControl, DataStepControl, FdStepControl, BeginControl, EndControl
     DEF Next
<1> QED BY <1>1, <1>2

(* The state of the archive is in step with the format reader, and a copy  *)
(* to a descriptor never runs outside the state DATA, for every archive    *)
(* and every failure of the layers below.                                  *)
THEOREM ControlSafe == Spec => []Control
BY InitControl, NextControl, PTL DEF Spec

(* archive_read.c never asks the format reader for a header while a body   *)
(* is left, unless the format's own skip left it and did not answer OK,    *)
(* nor for data without a header, nor for anything after a fatal answer.   *)
THEOREM InStepSafe == Spec => []FormatInStep
BY ControlSafe, PTL DEF Control

-----------------------------------------------------------------------------
(* The end is final.                                                       *)

LEMMA NextEnded ==
  Control /\ [Next]_vars => ((state \in {"eof", "fatal", "closed"}) => StaysEnded)
<1> SUFFICES ASSUME Control, [Next]_vars, state \in {"eof", "fatal", "closed"}
             PROVE  StaysEnded
  OBVIOUS
<1>1. CASE UNCHANGED vars
  BY <1>1 DEF vars, StaysEnded
<1>2. CASE Refuse
  BY <1>2 DEF Refuse, StaysEnded
<1>3. CASE Open \/ NextHeader \/ DataSkip \/ DataBlock \/ SeekData \/ BeginFd
  BY <1>2, <1>3 DEF Open, NextHeader, DataSkip, SkipStates, DataBlock, SeekData,
     BeginFd
<1>4. CASE \E s \in Requests : BeginData(s)
  BY <1>4 DEF BeginData, StaysEnded
<1>5. CASE DataStep
  BY <1>5 DEF DataStep, DataRefused, DataRefill, DataOutOfOrder, DataCopy, StaysEnded
<1>6. CASE FdStep
  BY <1>6 DEF FdStep, FdNext, FdWrite, FdOverrun, Control, Running
<1>7. CASE Close \/ Free
  BY <1>7 DEF Close, Free, StaysEnded
<1> QED BY <1>1, <1>3, <1>4, <1>5, <1>6, <1>7 DEF Next

(* At the end of the archive, after a fatal error and after close, no call *)
(* reaches the format reader and only close and free lead on.              *)
THEOREM FinalSafe == Spec => EndIsFinal
BY ControlSafe, NextEnded, PTL DEF Spec, EndIsFinal

-----------------------------------------------------------------------------
(* The client is closed once.                                              *)

Closing == ClosedOnce /\ Unopened /\ chain \in {"none", "open", "closed"}

LEMMA CloseFiltersCloses ==
  ASSUME Closing, CloseFilters
  PROVE  chain' \in {"none", "closed"} /\ held' = 0 /\ (chain = "none" => chain' = "none")
BY DEF Closing, ClosedOnce, CloseFilters

(* A step that leaves the client alone.                                    *)
LEMMA KeepsClosing ==
  ASSUME Closing, chain' = chain, held' = held, state' \notin {"new", "freed"}
  PROVE  Closing'
BY DEF Closing, ClosedOnce, Unopened

LEMMA NextClosing ==
  ASSUME "nomem" \notin Faults
  PROVE  Closing /\ [Next]_vars => Closing'
<1> SUFFICES ASSUME Closing, [Next]_vars PROVE Closing'
  OBVIOUS
<1>1. CASE UNCHANGED vars
  BY <1>1 DEF vars, clientVars, Closing, ClosedOnce, Unopened
<1>2. CASE Refuse
  BY <1>2, KeepsClosing DEF Refuse, clientVars
<1>3. CASE Open /\ state = "new"
  <2>1. chain = "none" /\ held = 0
    BY <1>3 DEF Closing, Unopened, ClosedOnce
  <2>2. CASE OpenerFails
    BY <1>3, <2>1, <2>2 DEF OpenerFails, OpenEnds, Closing, ClosedOnce, Unopened
  <2>3. CASE NoFilter
    BY <2>1, <2>3 DEF NoFilter, OpenEnds, Closing, ClosedOnce, Unopened
  <2>4. CASE NoFormat
    BY <2>1, <2>4 DEF NoFormat, OpenEnds, Closing, ClosedOnce, Unopened
  <2>5. CASE Opened
    BY <2>1, <2>5 DEF Opened, OpenEnds, Closing, ClosedOnce, Unopened
  <2> QED BY <1>3, <2>2, <2>3, <2>4, <2>5 DEF Open, NoMemory
<1>4. CASE Open
  BY <1>2, <1>3, <1>4 DEF Open
<1>5. CASE NextHeader
  <2>1. Refuse \/ (UNCHANGED clientVars /\ state' \notin {"new", "freed"})
    BY <1>5 DEF NextHeader, SkipFatal, HeaderEnds, StateAfter
  <2> QED BY <1>2, <2>1, KeepsClosing DEF clientVars
<1>6. CASE DataSkip
  <2>1. Refuse \/ (UNCHANGED clientVars /\ state' \notin {"new", "freed"})
    BY <1>6 DEF DataSkip
  <2> QED BY <1>2, <2>1, KeepsClosing DEF clientVars
<1>7. CASE DataBlock
  <2>1. Refuse \/ (UNCHANGED clientVars /\ state' \notin {"new", "freed"})
    BY <1>7 DEF DataBlock, FormatAnswers
  <2> QED BY <1>2, <2>1, KeepsClosing DEF clientVars
<1>8. CASE SeekData
  <2>1. Refuse \/ (UNCHANGED clientVars /\ state' \notin {"new", "freed"})
    BY <1>8 DEF SeekData, SeekFails, Restart
  <2> QED BY <1>2, <2>1, KeepsClosing DEF clientVars
<1>9. ASSUME UNCHANGED clientVars, state' = state PROVE Closing'
  BY <1>9 DEF clientVars, Closing, ClosedOnce, Unopened
<1>10. CASE BeginFd \/ \E s \in Requests : BeginData(s)
  BY <1>2, <1>9, <1>10 DEF BeginFd, BeginData
<1>11. CASE DataStep
  <2>1. /\ UNCHANGED clientVars
        /\ state' = state \/ state' \notin {"new", "freed"}
    BY <1>11 DEF DataStep, DataRefused, DataRefill, DataOutOfOrder, DataCopy, FormatAnswers
  <2> QED BY <1>9, <2>1, KeepsClosing DEF clientVars
<1>12. CASE FdStep
  <2>1. /\ UNCHANGED clientVars
        /\ state' = state \/ state' \notin {"new", "freed"}
    BY <1>12 DEF FdStep, FdNext, FdWrite, FdOverrun, FormatAnswers
  <2> QED BY <1>9, <2>1, KeepsClosing DEF clientVars
<1>13. CASE Close
  <2>1. CASE state = "closed"
    BY <1>9, <1>13, <2>1 DEF Close
  <2>2. CASE state # "closed"
    <3>1. CloseFilters /\ state' = "closed"
      BY <1>13, <2>2 DEF Close
    <3> QED BY <3>1, CloseFiltersCloses DEF Closing, ClosedOnce, Unopened
  <2> QED BY <2>1, <2>2
<1>14. CASE Free
  BY <1>14 DEF Free, Closing, ClosedOnce, Unopened
<1> QED
  BY <1>1, <1>4, <1>5, <1>6, <1>7, <1>8, <1>10, <1>11, <1>12, <1>13, <1>14 DEF Next

(* As long as memory for the client's filter can be had, the client's      *)
(* closer is called exactly once for every opener, at the latest in free.  *)
THEOREM ClosedSafe ==
  ASSUME "nomem" \notin Faults
  PROVE  Spec => []ClosedOnce
<1>1. Init => Closing
  BY DEF Init, Closing, ClosedOnce, Unopened
<1>2. Closing /\ [Next]_vars => Closing'
  BY NextClosing
<1>3. Closing => ClosedOnce
  BY DEF Closing
<1> QED BY <1>1, <1>2, <1>3, PTL DEF Spec

-----------------------------------------------------------------------------
Start(e, x)   == Entries[e].extents[x].offset
Stop(e, x)    == Entries[e].extents[x].offset + Entries[e].extents[x].len
Pieces(e)     == Len(Entries[e].extents)
Covers(e, x, i) == Start(e, x) <= i /\ i < Stop(e, x)
Covered(e, i) == \E x \in 1..Pieces(e) : Covers(e, x, i)

(* From lo up to hi the entry is a hole; from lo up to hi it is data.      *)
Bare(e, lo, hi)   == \A i \in lo..(hi - 1) : ~Covered(e, i)
Filled(e, lo, hi) == \A i \in lo..(hi - 1) : Covered(e, i)

(* The offset in the entry of the next byte a format reader that stands at *)
(* f has data for; the size of the entry when it has no more.              *)
Reach(f) ==
  IF f.extent <= Pieces(f.entry) THEN Start(f.entry, f.extent) + f.used
  ELSE Entries[f.entry].size

(* A list that is given by its elements.                                   *)
Listed(w, n) == w = [i \in 1..n |-> w[i]]

-----------------------------------------------------------------------------
(* The counters.                                                           *)

HeaderCounts ==
  /\ fileCount \in Nat /\ fmt.entry <= fileCount
  /\ fileCount <= fmt.entry + MaxRetries + 1
  /\ fmt.body # "dead" => fileCount <= fmt.entry + MaxRetries

Counting ==
  /\ chain \in {"none", "open", "closed"} /\ held \in Nat
  /\ chain = "open" => held > 0
  /\ opens \in 0..MaxOpens
  /\ HeaderCounts
  /\ declared \in Nat \cup {-1}
  /\ headed.code \in {OK, EOF, RETRY, WARN, FAILED, FATAL}
  /\ {headed.skip, skipped} \subseteq {OK, EOF, WARN, FAILED, FATAL}

-----------------------------------------------------------------------------
(* Where the format reader stands.  Blocks count from the origin, which is *)
(* the place of the last seek; only ordered entries can be sought in.      *)

Readers ==
  [entry : 0..Len(Entries), extent : Nat \ {0}, used : Nat, origin : Nat,
   body : {"header", "body", "left", "dead", "astray"}]

Standing(f) ==
  /\ f \in Readers
  /\ f.body = "body" => f.entry > 0
  /\ f.entry = 0 => f.origin = 0
  /\ f.entry > 0 =>
       /\ f.extent <= Pieces(f.entry) =>
            f.used <= Entries[f.entry].extents[f.extent].len
       /\ f.origin > 0 => Ordered(f.entry)
       /\ f.origin <= Reach(f) /\ Reach(f) <= Entries[f.entry].size

Walking == Standing(fmt)

-----------------------------------------------------------------------------
(* What the read_data variables and the call in progress may hold.         *)

InData(c) ==
  /\ c.op = "data"
  /\ c = [op |-> "data", left |-> c.left, done |-> c.done]
  /\ c.left \in Nat \ {0} /\ c.done \in Nat

InFd(c) ==
  /\ c.op = "fd"
  /\ c = [op |-> "fd", base |-> c.base, actual |-> c.actual, left |-> c.left,
          block |-> c.block, over |-> c.over, whole |-> c.whole]
  /\ c.base \in Nat /\ c.actual \in Nat /\ c.left \in Nat
  /\ c.over \in BOOLEAN /\ c.whole \in BOOLEAN

Windowed(w) ==
  w \in [remaining : Nat, offset : Nat, output : Nat, block : {w.block}]

Moving ==
  /\ Windowed(rd) /\ mixed \in BOOLEAN /\ fdpos \in Nat
  /\ call = Idle \/ InData(call) \/ InFd(call)
  /\ call # Idle => reply.op = "none"

-----------------------------------------------------------------------------
(* What archive_read_data has copied, and what the block in its hands and  *)
(* the reader behind it will bring.                                        *)

(* The n bytes of an entry behind an offset. *)
Share(e, from, n) == [i \in 1..n |-> Content(e)[from + i]]

Copied == got = Share(fmt.entry, fmt.origin, rd.output)

Ahead ==
  /\ rd.output <= rd.offset
  /\ fmt.origin + rd.offset + rd.remaining <= Entries[fmt.entry].size
  /\ Bare(fmt.entry, fmt.origin + rd.output, fmt.origin + rd.offset)

InHand ==
  rd.remaining > 0 =>
    /\ rd.block = <<fmt.entry, fmt.origin + rd.offset>>
    /\ Filled(fmt.entry, fmt.origin + rd.offset, fmt.origin + rd.offset + rd.remaining)

Behindhand ==
  fmt.body = "body" =>
    /\ fmt.origin + rd.offset + rd.remaining <= Reach(fmt)
    /\ Bare(fmt.entry, fmt.origin + rd.offset + rd.remaining, Reach(fmt))

Streaming ==
  fmt.entry > 0 /\ ~mixed /\ Ordered(fmt.entry) =>
    Copied /\ Ahead /\ InHand /\ Behindhand

-----------------------------------------------------------------------------
(* What archive_read_data_into_fd has written.                             *)

(* What is read at a position of a file that ends before it: zeroes.       *)
View(s, p) == IF p <= Len(s) THEN s[p] ELSE Hole

FileBehind == Len(file) \in 0..fdpos /\ Listed(file, Len(file))

Within ==
  /\ fdpos = call.base + call.actual
  /\ declared >= 0 => call.actual + call.left <= declared
  /\ ~call.over => fmt.origin + call.actual + call.left <= Reach(fmt)

Whole ==
  /\ fmt.origin = 0
  /\ \A i \in 1..call.actual : Content(fmt.entry)[i] = View(file, call.base + i)
  /\ call.left > 0 =>
       /\ call.block = <<fmt.entry, call.actual>>
       /\ Filled(fmt.entry, call.actual, call.actual + call.left)
       /\ call.actual + call.left <= Entries[fmt.entry].size
  /\ ~call.over => Bare(fmt.entry, call.actual + call.left, Reach(fmt))

Writing ==
  /\ FileBehind
  /\ call.op = "fd" /\ Ordered(fmt.entry) => Within /\ (call.whole => Whole)

-----------------------------------------------------------------------------
(* What the last answer promises.                                          *)

ZeroPromise ==
  reply.op = "data" /\ reply.code = 0 =>
    /\ fmt.entry > 0
    /\ ~mixed /\ Ordered(fmt.entry) => fmt.origin + rd.output = Entries[fmt.entry].size

FdPromise == FdFaithful

HeaderFailed == headed.code = FAILED /\ headed.skip # FAILED
Refused == HeaderFailed => state # "data" /\ rd = NoData

Serving ==
  Control /\ Counting /\ Walking /\ Moving /\ Streaming /\ Writing
  /\ ZeroPromise /\ FdPromise

-----------------------------------------------------------------------------
(* Entries and their contents.                                             *)

LEMMA EntryTypes ==
  ASSUME NEW e \in 1..Len(Entries)
  PROVE  /\ Entries[e].size \in Nat /\ Entries[e].declared \in Nat \cup {-1}
         /\ Entries[e].extents \in Seq([offset : Nat, len : Nat])
         /\ Pieces(e) \in Nat
<1> DEFINE T == [size : Nat, declared : Nat \cup {-1},
                 extents : Seq([offset : Nat, len : Nat])]
<1>1. Entries \in Seq(T)
  BY ReadArchiveAssumption
<1>2. Entries[e] \in T
  <2> HIDE DEF T
  <2> QED BY <1>1
<1>3. Entries[e].extents \in Seq([offset : Nat, len : Nat])
  BY <1>2
<1> QED BY <1>2, <1>3 DEF Pieces

LEMMA SpanTypes ==
  ASSUME NEW e \in 1..Len(Entries), NEW x \in 1..Pieces(e)
  PROVE  /\ Start(e, x) \in Nat /\ Stop(e, x) \in Nat
         /\ Entries[e].extents[x].len \in Nat
         /\ Stop(e, x) = Start(e, x) + Entries[e].extents[x].len
         /\ Start(e, x) <= Stop(e, x) /\ Stop(e, x) <= Entries[e].size
<1> DEFINE T == [offset : Nat, len : Nat]
<1>1. Entries[e].extents \in Seq(T)
  BY EntryTypes
<1>2. Entries[e].extents[x] \in T
  <2> HIDE DEF T
  <2> QED BY <1>1 DEF Pieces
<1>3. Entries[e].extents[x].offset + Entries[e].extents[x].len <= Entries[e].size
  BY ReadArchiveAssumption DEF Pieces
<1>4. Entries[e].extents[x].offset \in Nat /\ Entries[e].extents[x].len \in Nat
  BY <1>2
<1>5. Entries[e].size \in Nat
  BY EntryTypes
<1> DEFINE o == Entries[e].extents[x].offset
           l == Entries[e].extents[x].len
           z == Entries[e].size
<1>6. Start(e, x) = o /\ Stop(e, x) = o + l /\ l = Entries[e].extents[x].len
      /\ o + l <= z /\ o \in Nat /\ l \in Nat /\ z \in Nat /\ z = Entries[e].size
  BY <1>3, <1>4, <1>5 DEF Start, Stop
<1> HIDE DEF o, l, z
<1>7. o + l \in Nat /\ o <= o + l
  BY <1>6
<1> QED BY <1>6, <1>7

LEMMA EntriesLen == Len(Entries) \in Nat
BY ReadArchiveAssumption

(* A byte of an entry is data where an extent covers it, or of a hole.     *)
LEMMA ContentIs ==
  ASSUME NEW e \in 1..Len(Entries), NEW i \in Nat, i < Entries[e].size
  PROVE  Content(e)[i + 1] = IF Covered(e, i) THEN <<e, i>> ELSE Hole
<1>1. i + 1 \in 1..Entries[e].size /\ (i + 1) - 1 = i
  BY EntryTypes
<1>2. Content(e)[i + 1] =
        IF \E x \in 1..Len(Entries[e].extents) :
             i \in Entries[e].extents[x].offset ..
                     (Entries[e].extents[x].offset + Entries[e].extents[x].len - 1)
        THEN <<e, i>> ELSE Hole
  BY <1>1 DEF Content
<1>3. ASSUME NEW x \in 1..Pieces(e)
      PROVE  Covers(e, x, i) <=>
               i \in Entries[e].extents[x].offset ..
                       (Entries[e].extents[x].offset + Entries[e].extents[x].len - 1)
  <2> DEFINE o == Entries[e].extents[x].offset
             l == Entries[e].extents[x].len
  <2>1. o \in Nat /\ l \in Nat
    BY SpanTypes DEF Start
  <2>2. Covers(e, x, i) <=> o <= i /\ i < o + l
    BY DEF Covers, Start, Stop
  <2> HIDE DEF o, l
  <2>3. Covers(e, x, i) <=> i \in o..(o + l - 1)
    BY <2>1, <2>2
  <2> QED BY <2>3 DEF o, l
<1> QED BY <1>2, <1>3 DEF Covered, Pieces

LEMMA OrderedIs ==
  ASSUME NEW e \in 1..Len(Entries), Ordered(e), NEW x \in 1..Pieces(e),
         NEW y \in 1..Pieces(e), x < y
  PROVE  Stop(e, x) <= Start(e, y)
BY DEF Ordered, Start, Stop, Pieces

(* Where an extent ends there is no data up to the beginning of the next   *)
(* one, or up to the end of the entry.                                     *)
After(e, x) == IF x + 1 <= Pieces(e) THEN Start(e, x + 1) ELSE Entries[e].size

LEMMA Gap ==
  ASSUME NEW e \in 1..Len(Entries), Ordered(e), NEW x \in 1..Pieces(e)
  PROVE  /\ Stop(e, x) <= After(e, x) /\ After(e, x) <= Entries[e].size
         /\ After(e, x) \in Nat /\ Bare(e, Stop(e, x), After(e, x))
<1>0. /\ Pieces(e) \in Nat /\ Entries[e].size \in Nat
      /\ Start(e, x) \in Nat /\ Stop(e, x) \in Nat
      /\ Start(e, x) <= Stop(e, x) /\ Stop(e, x) <= Entries[e].size
  BY EntryTypes, SpanTypes
<1>1. /\ After(e, x) \in Nat /\ Stop(e, x) <= After(e, x)
      /\ After(e, x) <= Entries[e].size
  <2>1. CASE x + 1 <= Pieces(e)
    <3>1. x + 1 \in 1..Pieces(e) /\ After(e, x) = Start(e, x + 1)
      BY <1>0, <2>1 DEF After
    <3>2. /\ Start(e, x + 1) \in Nat /\ Stop(e, x + 1) \in Nat
          /\ Start(e, x + 1) <= Stop(e, x + 1)
          /\ Stop(e, x + 1) <= Entries[e].size
      BY <3>1, SpanTypes
    <3>3. Stop(e, x) <= Start(e, x + 1)
      BY <3>1, OrderedIs
    <3> QED BY <1>0, <3>1, <3>2, <3>3
  <2>2. CASE ~(x + 1 <= Pieces(e))
    BY <1>0, <2>2 DEF After
  <2> QED BY <2>1, <2>2
<1>2. ASSUME NEW i \in Stop(e, x)..(After(e, x) - 1), NEW y \in 1..Pieces(e),
             Covers(e, y, i)
      PROVE  FALSE
  <2>0. /\ Start(e, y) \in Nat /\ Stop(e, y) \in Nat /\ i \in Int
        /\ Start(e, y) <= i /\ i < Stop(e, y) /\ Stop(e, x) <= i /\ i < After(e, x)
    <3>1. Start(e, y) \in Nat /\ Stop(e, y) \in Nat
      BY SpanTypes
    <3>2. i \in Int /\ Stop(e, x) <= i /\ i < After(e, x)
      BY <1>0, <1>1
    <3>3. Start(e, y) <= i /\ i < Stop(e, y)
      BY <1>2, Zenon DEF Covers
    <3> QED
      BY <3>1, <3>2, <3>3
  <2>1. CASE y < x
    <3>1. Stop(e, y) <= Start(e, x)
      BY <2>1, OrderedIs
    <3> QED BY <1>0, <2>0, <3>1
  <2>2. CASE y = x
    BY <1>0, <2>0, <2>2
  <2>3. CASE y > x
    <3>1. x + 1 \in 1..Pieces(e) /\ After(e, x) = Start(e, x + 1)
      BY <1>0, <2>3 DEF After
    <3>2. CASE y = x + 1
      BY <1>1, <2>0, <3>1, <3>2
    <3>3. CASE y > x + 1
      <4>1. Stop(e, x + 1) <= Start(e, y)
        BY <3>1, <3>3, OrderedIs
      <4>2. /\ Start(e, x + 1) \in Nat /\ Stop(e, x + 1) \in Nat
            /\ Start(e, x + 1) <= Stop(e, x + 1)
        BY <3>1, SpanTypes
      <4> QED BY <1>1, <2>0, <3>1, <4>1, <4>2
    <3> QED BY <1>0, <2>3, <3>2, <3>3
  <2> QED BY <1>0, <2>1, <2>2, <2>3
<1> QED BY <1>1, <1>2 DEF Bare, Covered

LEMMA FirstGap ==
  ASSUME NEW e \in 1..Len(Entries), Ordered(e)
  PROVE  Bare(e, 0, IF 1 <= Pieces(e) THEN Start(e, 1) ELSE Entries[e].size)
<1> DEFINE first == IF 1 <= Pieces(e) THEN Start(e, 1) ELSE Entries[e].size
<1>1. ASSUME NEW i \in 0..(first - 1), NEW y \in 1..Pieces(e), Covers(e, y, i)
      PROVE  FALSE
  <2>1. 1 \in 1..Pieces(e) /\ first = Start(e, 1)
    BY EntryTypes
  <2>2. /\ Start(e, 1) \in Nat /\ Stop(e, 1) \in Nat /\ Start(e, 1) <= Stop(e, 1)
    BY <2>1, SpanTypes
  <2>3. /\ Start(e, y) \in Nat /\ Stop(e, y) \in Nat /\ i \in Int
        /\ Start(e, y) <= i /\ i < Start(e, 1)
    BY <1>1, <2>1, <2>2, SpanTypes DEF Covers
  <2>4. CASE y = 1
    BY <2>3, <2>4
  <2>5. CASE y > 1
    <3>1. Stop(e, 1) <= Start(e, y)
      BY <2>1, <2>5, OrderedIs
    <3> QED BY <2>2, <2>3, <3>1
  <2> QED BY <2>4, <2>5, EntryTypes
<1> QED BY <1>1 DEF Bare, Covered

LEMMA BareJoins ==
  ASSUME NEW e, NEW a \in Int, NEW b \in Int, NEW c \in Int, Bare(e, a, b), Bare(e, b, c)
  PROVE  Bare(e, a, c)
BY DEF Bare

LEMMA BarePart ==
  ASSUME NEW e, NEW a \in Int, NEW b \in Int, NEW c \in Int, NEW d \in Int,
         Bare(e, a, d), a <= b, c <= d
  PROVE  Bare(e, b, c)
BY DEF Bare

LEMMA FilledPart ==
  ASSUME NEW e, NEW a \in Int, NEW b \in Int, NEW c \in Int, NEW d \in Int,
         Filled(e, a, d), a <= b, c <= d
  PROVE  Filled(e, b, c)
BY DEF Filled

LEMMA FilledBySpan ==
  ASSUME NEW e \in 1..Len(Entries), NEW x \in 1..Pieces(e), NEW a \in Int, NEW b \in Int,
         Start(e, x) <= a, b <= Stop(e, x)
  PROVE  Filled(e, a, b)
<1>1. Start(e, x) \in Nat /\ Stop(e, x) \in Nat
  BY SpanTypes
<1> QED BY <1>1 DEF Filled, Covered, Covers

LEMMA ListLen ==
  ASSUME NEW n \in Nat, NEW w, Listed(w, n)
  PROVE  Len(w) = n /\ w \in Seq({w[i] : i \in 1..n})
<1>1. w \in [1..n -> {w[i] : i \in 1..n}]
  BY DEF Listed
<1> QED BY <1>1

-----------------------------------------------------------------------------
(* What the format reader answers, as far as the rest depends on it.       *)

SamePlace(f, g) == g.entry = f.entry /\ g.origin = f.origin

GivesData(b) ==
  /\ b.code \in {OK, WARN} /\ b.after.body = fmt.body
  /\ fmt.origin + b.offset = Reach(fmt)
  /\ b.block = <<fmt.entry, fmt.origin + b.offset>>
  /\ Reach(fmt) + b.len <= Entries[fmt.entry].size
  /\ Filled(fmt.entry, Reach(fmt), Reach(fmt) + b.len)
  /\ Ordered(fmt.entry) =>
       /\ Reach(fmt) + b.len <= Reach(b.after)
       /\ Bare(fmt.entry, Reach(fmt) + b.len, Reach(b.after))

GivesEnd(b) ==
  /\ b.code = EOF /\ b.len = 0 /\ b.after = fmt /\ b.block = Hole
  /\ fmt.origin + b.offset = Entries[fmt.entry].size
  /\ Reach(fmt) = Entries[fmt.entry].size

GivesNothing(b) ==
  /\ b.code \in {FAILED, FATAL} /\ b.len = 0
  /\ b.offset = rd.offset /\ b.block = rd.block
  /\ b.after = IF b.code = FATAL THEN [fmt EXCEPT !.body = "dead"] ELSE fmt

LEMMA ReachTypes ==
  ASSUME NEW f, Standing(f), f.entry > 0
  PROVE  /\ f.entry \in 1..Len(Entries) /\ f.extent \in Nat \ {0}
         /\ f.used \in Nat /\ f.origin \in Nat
         /\ Entries[f.entry].size \in Nat /\ Pieces(f.entry) \in Nat
         /\ Reach(f) \in Nat /\ f.origin <= Reach(f)
         /\ Reach(f) <= Entries[f.entry].size
<1>1. /\ f.entry \in 0..Len(Entries) /\ f.extent \in Nat \ {0}
      /\ f.used \in Nat /\ f.origin \in Nat
  BY DEF Standing, Readers
<1>2. f.entry \in 1..Len(Entries)
  BY <1>1, EntriesLen
<1>3. /\ Entries[f.entry].size \in Nat /\ Pieces(f.entry) \in Nat
      /\ f.extent <= Pieces(f.entry) => Start(f.entry, f.extent) \in Nat
  BY <1>1, <1>2, EntryTypes, SpanTypes
<1>4. Reach(f) \in Nat
  BY <1>1, <1>3 DEF Reach
<1> QED BY <1>1, <1>2, <1>3, <1>4 DEF Standing

(* A block moves the reader behind it.                                     *)
LEMMA PastPieceStands ==
  ASSUME Walking, fmt.entry > 0, MoreData, NEW n \in PieceLengths
  PROVE  /\ n \in Nat
         /\ Reach(fmt) = Extent.offset + fmt.used /\ Extent.offset \in Nat
         /\ Reach(fmt) + n <= Entries[fmt.entry].size
         /\ Standing(PastPiece(n)) /\ SamePlace(fmt, PastPiece(n))
         /\ PastPiece(n).body = fmt.body
         /\ Filled(fmt.entry, Reach(fmt), Reach(fmt) + n)
         /\ Ordered(fmt.entry) =>
              /\ Reach(fmt) + n <= Reach(PastPiece(n))
              /\ Bare(fmt.entry, Reach(fmt) + n, Reach(PastPiece(n)))
<1> DEFINE e == fmt.entry
           x == fmt.extent
           f == PastPiece(n)
           l == Entries[e].extents[x].len
<1>1. /\ e \in 1..Len(Entries) /\ x \in 1..Pieces(e) /\ fmt.used \in Nat
      /\ fmt.origin \in Nat /\ Entries[e].size \in Nat /\ Pieces(e) \in Nat
  BY ReachTypes DEF Walking, MoreData, Entry, Pieces
<1>2. /\ Start(e, x) \in Nat /\ Stop(e, x) \in Nat /\ l \in Nat
      /\ Stop(e, x) = Start(e, x) + l /\ Stop(e, x) <= Entries[e].size
  BY <1>1, SpanTypes
<1>3. Extent.len = l /\ Extent.offset = Start(e, x)
  BY DEF Extent, Entry, Start
<1>4. n \in Nat /\ fmt.used + n <= l /\ fmt.used <= l
  <2>1. fmt.used <= l
    BY <1>1 DEF Walking, Standing
  <2>2. n \in (IF l = 0 THEN {0} ELSE 1..(l - fmt.used))
    BY <1>3 DEF PieceLengths
  <2> HIDE DEF l
  <2> QED BY <1>1, <1>2, <2>1, <2>2
<1>5. Reach(fmt) = Start(e, x) + fmt.used
  BY <1>1 DEF Reach
<1>e. fmt.entry = e /\ fmt.extent = x /\ f = PastPiece(n)
  OBVIOUS
<1> HIDE DEF e, x, f, l
<1>7. fmt \in Readers /\ fmt.origin <= Reach(fmt)
  BY DEF Walking, Standing
<1>a. /\ Reach(fmt) \in Nat /\ n \in Nat /\ Entries[e].size \in Nat
      /\ Start(e, x) <= Reach(fmt) /\ Reach(fmt) + n <= Stop(e, x)
      /\ Reach(fmt) + n <= Entries[e].size /\ Reach(fmt) + n \in Nat
      /\ fmt.origin <= Reach(fmt) /\ fmt.origin \in Nat
      /\ fmt.origin <= Reach(fmt) + n
  <2>1. Reach(fmt) \in Nat
    BY <1>1, <1>2, <1>5
  <2>2. Start(e, x) <= Reach(fmt)
    BY <1>1, <1>2, <1>5
  <2>3. Reach(fmt) + n <= Stop(e, x)
    BY <1>1, <1>2, <1>4, <1>5
  <2>4. Stop(e, x) \in Nat /\ Stop(e, x) <= Entries[e].size
    BY <1>2
  <2>5. Reach(fmt) + n <= Entries[e].size
    BY <1>1, <1>4, <2>1, <2>3, <2>4
  <2>6. fmt.origin <= Reach(fmt) + n /\ Reach(fmt) + n \in Nat
    BY <1>1, <1>4, <1>7, <2>1
  <2> QED BY <1>1, <1>4, <1>7, <2>1, <2>2, <2>3, <2>5, <2>6
<1>6. Filled(e, Reach(fmt), Reach(fmt) + n)
  <2>1. e \in 1..Len(Entries) /\ x \in 1..Pieces(e)
    BY <1>1
  <2>2. /\ Reach(fmt) \in Nat /\ Reach(fmt) + n \in Nat
        /\ Start(e, x) <= Reach(fmt) /\ Reach(fmt) + n <= Stop(e, x)
    BY <1>a
  <2> QED BY <2>1, <2>2, FilledBySpan
<1>8. CASE fmt.used + n = l
  <2>1. f = [fmt EXCEPT !.extent = @ + 1, !.used = 0]
    BY <1>3, <1>8, <1>e DEF PastPiece
  <2>2. /\ f \in Readers /\ f.entry = e /\ f.extent = x + 1 /\ f.used = 0
        /\ f.origin = fmt.origin /\ f.body = fmt.body
    <3>1. /\ fmt.origin \in Nat
          /\ fmt.body \in {"header", "body", "left", "dead", "astray"}
          /\ fmt.entry \in 0..Len(Entries)
          /\ f = [entry |-> e, extent |-> x + 1, used |-> 0, origin |-> fmt.origin,
                  body |-> fmt.body]
      BY <1>7, <1>e, <2>1 DEF Readers
    <3>2. x + 1 \in Nat \ {0}
      BY <1>1
    <3> QED BY <1>e, <3>1, <3>2 DEF Readers
  <2>3. Reach(f) = After(e, x)
    <3>1. CASE x + 1 <= Pieces(e)
      <4>1. Start(e, x + 1) \in Nat
        BY <1>1, <3>1, SpanTypes
      <4> QED BY <2>2, <3>1, <4>1 DEF Reach, After
    <3>2. CASE ~(x + 1 <= Pieces(e))
      BY <2>2, <3>2 DEF Reach, After
    <3> QED BY <3>1, <3>2
  <2>4. Reach(fmt) + n = Stop(e, x)
    BY <1>1, <1>2, <1>4, <1>5, <1>8
  <2>5. ASSUME Ordered(e)
        PROVE  /\ Reach(fmt) + n <= Reach(f) /\ Bare(e, Reach(fmt) + n, Reach(f))
               /\ fmt.origin <= Reach(f) /\ Reach(f) <= Entries[e].size
    <3>1. /\ Stop(e, x) <= After(e, x) /\ After(e, x) <= Entries[e].size
          /\ After(e, x) \in Nat /\ Bare(e, Stop(e, x), After(e, x))
      BY <1>1, <2>5, Gap
    <3>2. fmt.origin <= After(e, x)
      BY <1>a, <2>4, <3>1
    <3> QED BY <2>3, <2>4, <3>1, <3>2
  <2>6. fmt.origin <= Reach(f) /\ Reach(f) <= Entries[e].size
    <3>1. CASE Ordered(e)
      BY <2>5, <3>1
    <3>2. CASE ~Ordered(e)
      <4>1. fmt.origin = 0
        BY <1>1, <1>e, <3>2 DEF Walking, Standing
      <4>2. After(e, x) \in Nat /\ After(e, x) <= Entries[e].size
        <5>1. CASE x + 1 <= Pieces(e)
          <6>1. /\ Start(e, x + 1) \in Nat /\ Stop(e, x + 1) \in Nat
                /\ Start(e, x + 1) <= Stop(e, x + 1)
                /\ Stop(e, x + 1) <= Entries[e].size
            BY <1>1, <5>1, SpanTypes
          <6> QED BY <1>1, <5>1, <6>1 DEF After
        <5>2. CASE ~(x + 1 <= Pieces(e))
          BY <1>1, <5>2 DEF After
        <5> QED BY <5>1, <5>2
      <4> QED BY <2>3, <4>1, <4>2
    <3> QED BY <3>1, <3>2
  <2>7. f.extent <= Pieces(f.entry) => f.used <= Entries[f.entry].extents[f.extent].len
    <3>1. ASSUME x + 1 <= Pieces(e) PROVE 0 <= Entries[e].extents[x + 1].len
      BY <1>1, <3>1, SpanTypes
    <3> QED BY <2>2, <3>1
  <2>8. Standing(f)
    BY <1>1, <1>e, <2>2, <2>6, <2>7 DEF Standing, Walking
  <2> QED BY <1>3, <1>2, <1>5, <1>6, <1>a, <1>e, <2>2, <2>5, <2>8 DEF SamePlace
<1>9. CASE fmt.used + n # l
  <2>1. f = [fmt EXCEPT !.used = @ + n]
    BY <1>3, <1>9, <1>e DEF PastPiece
  <2>2. /\ f \in Readers /\ f.entry = e /\ f.extent = x /\ f.used = fmt.used + n
        /\ f.origin = fmt.origin /\ f.body = fmt.body
    BY <1>1, <1>4, <1>7, <1>e, <2>1 DEF Readers
  <2>3. Reach(f) = Reach(fmt) + n
    <3>1. Reach(f) = Start(e, x) + (fmt.used + n)
      BY <1>1, <2>2 DEF Reach
    <3> QED BY <1>1, <1>2, <1>4, <1>5, <3>1
  <2>5. Bare(e, Reach(fmt) + n, Reach(f))
    BY <1>a, <2>3 DEF Bare
  <2>6. Standing(f)
    <3>1. f.origin <= Reach(f) /\ Reach(f) <= Entries[e].size
      BY <1>a, <2>2, <2>3
    <3>2. f.used <= l
      BY <1>4, <2>2
    <3> QED BY <1>1, <1>e, <2>2, <3>1, <3>2 DEF Standing, Walking, l
  <2>7. Reach(fmt) + n <= Reach(f)
    BY <1>a, <2>3
  <2> QED BY <1>3, <1>2, <1>5, <1>6, <1>a, <1>e, <2>2, <2>5, <2>6, <2>7 DEF SamePlace
<1> QED BY <1>8, <1>9

LEMMA DeadStands ==
  ASSUME NEW f, Standing(f), NEW k \in {"header", "left", "dead"}
  PROVE  /\ Standing([f EXCEPT !.body = k]) /\ SamePlace(f, [f EXCEPT !.body = k])
         /\ [f EXCEPT !.body = k].body = k
<1>1. /\ [f EXCEPT !.body = k] \in Readers
      /\ [f EXCEPT !.body = k].entry = f.entry
      /\ [f EXCEPT !.body = k].origin = f.origin
      /\ [f EXCEPT !.body = k].extent = f.extent
      /\ [f EXCEPT !.body = k].used = f.used
      /\ [f EXCEPT !.body = k].body = k
  BY DEF Standing, Readers
<1>2. Reach([f EXCEPT !.body = k]) = Reach(f)
  BY <1>1 DEF Reach
<1> QED BY <1>1, <1>2 DEF Standing, SamePlace

(* The answers of read_data: a block, the end of the entry, or nothing.    *)
LEMMA Answers ==
  ASSUME Walking, Windowed(rd), fmt.body = "body", NEW b \in DataAnswers
  PROVE  /\ GivesData(b) \/ GivesEnd(b) \/ GivesNothing(b)
         /\ b.offset \in Nat /\ b.len \in Nat
         /\ Standing(b.after) /\ SamePlace(fmt, b.after)
         /\ b.after.body = IF b.code = FATAL THEN "dead" ELSE "body"
         /\ b.code \in {OK, WARN, EOF, FAILED, FATAL}
<1>0. fmt.entry > 0 /\ Standing(fmt)
  BY EntriesLen DEF Walking, Standing, Readers
<1>1. /\ fmt.entry \in 1..Len(Entries) /\ fmt.origin \in Nat
      /\ Entries[fmt.entry].size \in Nat /\ Pieces(fmt.entry) \in Nat
      /\ Reach(fmt) \in Nat /\ fmt.origin <= Reach(fmt)
      /\ fmt.extent \in Nat \ {0} /\ fmt.used \in Nat
      /\ Reach(fmt) <= Entries[fmt.entry].size
  BY <1>0, ReachTypes
<1>2. CASE b \in {Block(c, n) : c \in Codes({Fault("warn", WARN)}), n \in PieceLengths}
           /\ MoreData
  <2>1. PICK c \in Codes({Fault("warn", WARN)}), n \in PieceLengths : b = Block(c, n)
    BY <1>2
  <2>2. c \in {OK, WARN} /\ c # FATAL
    BY <2>1, ErrorsAre, CodeValues DEF Codes
  <2>3. /\ b.code = c /\ b.after = PastPiece(n) /\ b.len = n
        /\ b.offset = Extent.offset + fmt.used - fmt.origin
        /\ b.block = <<fmt.entry, Extent.offset + fmt.used>>
    BY <2>1 DEF Block
  <2>4. /\ n \in Nat
        /\ Reach(fmt) = Extent.offset + fmt.used /\ Extent.offset \in Nat
        /\ Reach(fmt) + n <= Entries[fmt.entry].size
        /\ Standing(PastPiece(n)) /\ SamePlace(fmt, PastPiece(n))
        /\ PastPiece(n).body = fmt.body
        /\ Filled(fmt.entry, Reach(fmt), Reach(fmt) + n)
        /\ Ordered(fmt.entry) =>
              /\ Reach(fmt) + n <= Reach(PastPiece(n))
              /\ Bare(fmt.entry, Reach(fmt) + n, Reach(PastPiece(n)))
    BY <1>0, <1>2, PastPieceStands
  <2>5. b.offset = Reach(fmt) - fmt.origin
    <3>1. b.offset = Extent.offset + fmt.used - fmt.origin
      BY <2>3
    <3>2. Reach(fmt) = Extent.offset + fmt.used
      BY <2>4
    <3>3. Extent.offset \in Int /\ fmt.used \in Int /\ fmt.origin \in Int
      BY <1>1, <2>4
    <3> QED BY <3>1, <3>2, <3>3
  <2>6. b.offset \in Nat /\ fmt.origin + b.offset = Reach(fmt)
    BY <1>1, <2>5
  <2>7. b.block = <<fmt.entry, fmt.origin + b.offset>>
    BY <2>3, <2>4, <2>6
  <2>8. GivesData(b)
    BY <2>2, <2>3, <2>4, <2>6, <2>7 DEF GivesData
  <2> QED BY <2>2, <2>3, <2>4, <2>6, <2>8
<1>3. CASE b = EndOfEntry /\ ~MoreData
  <2>1. /\ b.code = EOF /\ b.len = 0 /\ b.after = fmt /\ b.block = Hole
        /\ b.offset = Entries[fmt.entry].size - fmt.origin
    BY <1>3 DEF EndOfEntry, Entry
  <2>2. Reach(fmt) = Entries[fmt.entry].size
    BY <1>3 DEF Reach, MoreData, Entry, Pieces
  <2>3. b.offset \in Nat /\ fmt.origin + b.offset = Entries[fmt.entry].size
    BY <1>1, <2>1, <2>2
  <2>4. GivesEnd(b)
    BY <2>1, <2>2, <2>3 DEF GivesEnd
  <2> QED BY <1>0, <2>1, <2>3, <2>4, CodeValues DEF SamePlace
<1>4. CASE b \in {NoBlock(c) : c \in Errors({Fault("failed", FAILED), Fault("fatal", FATAL)})}
  <2>1. PICK c \in Errors({Fault("failed", FAILED), Fault("fatal", FATAL)}) : b = NoBlock(c)
    BY <1>4
  <2>2. c \in {FAILED, FATAL}
    BY <2>1, ErrorsAreTwo
  <2>3. /\ b.code = c /\ b.len = 0 /\ b.offset = rd.offset /\ b.block = rd.block
        /\ b.after = IF c = FATAL THEN [fmt EXCEPT !.body = "dead"] ELSE fmt
    BY <2>1 DEF NoBlock
  <2>4. GivesNothing(b)
    BY <2>2, <2>3 DEF GivesNothing
  <2>5. /\ Standing(b.after) /\ SamePlace(fmt, b.after)
        /\ b.after.body = IF b.code = FATAL THEN "dead" ELSE "body"
    <3>1. CASE c = FATAL
      BY <1>0, <2>3, <3>1, DeadStands
    <3>2. CASE c # FATAL
      BY <1>0, <2>3, <3>2 DEF SamePlace
    <3> QED BY <3>1, <3>2
  <2> QED BY <2>2, <2>3, <2>4, <2>5 DEF Windowed
<1> QED BY <1>2, <1>3, <1>4 DEF DataAnswers

-----------------------------------------------------------------------------
(* Headers and seeks.                                                      *)

NewBody(f) ==
  [entry |-> f.entry + 1, extent |-> 1, used |-> 0, origin |-> 0, body |-> "body"]

LEMMA HeaderReads ==
  ASSUME NEW f, Ready(f), NEW r2 \in HeaderCodes
  PROVE  \/ /\ r2 \in {OK, WARN, FAILED} /\ fmt.entry # Len(Entries)
            /\ HeaderRead(f, r2) = NewBody(fmt)
         \/ r2 = RETRY /\ HeaderRead(f, r2) = [fmt EXCEPT !.body = "header"]
         \/ r2 \in {EOF, FATAL} /\ HeaderRead(f, r2) = [fmt EXCEPT !.body = "dead"]
<1>1. f.body # "body"
  BY DEF Ready
<1>2. r2 \in {OK, EOF, RETRY, WARN, FAILED, FATAL}
  BY HeaderAnswers
<1>3. CASE r2 \in {OK, WARN, FAILED}
  <2>1. fmt.entry # Len(Entries)
    <3>1. fmt.entry = Len(Entries) => HeaderCodes \subseteq {FATAL, EOF}
      BY ErrorsAre DEF HeaderCodes
    <3>2. r2 \notin {FATAL, EOF}
      BY <1>3, CodeValues
    <3> QED BY <3>1, <3>2
  <2>a. r2 # RETRY
    BY <1>3, CodeValues
  <2>2. HeaderRead(f, r2) = NewBody(f) /\ f.entry = fmt.entry
    BY <1>1, <1>3, <2>a DEF HeaderRead, NewBody, Ready
  <2> QED BY <1>3, <2>1, <2>2 DEF NewBody
<1>4. CASE r2 = RETRY
  <2>1. r2 \notin {OK, WARN, FAILED}
    BY <1>4, CodeValues
  <2> QED BY <1>1, <1>4, <2>1 DEF HeaderRead, Ready
<1>5. CASE r2 \in {EOF, FATAL}
  <2>1. r2 \notin {OK, WARN, FAILED, RETRY}
    BY <1>5, CodeValues
  <2> QED BY <1>1, <1>5, <2>1 DEF HeaderRead, Ready
<1> QED BY <1>2, <1>3, <1>4, <1>5

LEMMA NewBodyStands ==
  ASSUME Walking, fmt.entry # Len(Entries)
  PROVE  /\ Standing(NewBody(fmt)) /\ fmt.entry + 1 \in 1..Len(Entries)
         /\ NewBody(fmt).entry = fmt.entry + 1 /\ NewBody(fmt).origin = 0
         /\ NewBody(fmt).body = "body"
         /\ Ordered(fmt.entry + 1) => Bare(fmt.entry + 1, 0, Reach(NewBody(fmt)))
         /\ Reach(NewBody(fmt)) \in Nat
<1> DEFINE e == fmt.entry + 1
           f == NewBody(fmt)
<1>1. e \in 1..Len(Entries)
  BY EntriesLen DEF Walking, Standing, Readers
<1>2. /\ f.entry = e /\ f.extent = 1 /\ f.used = 0 /\ f.origin = 0 /\ f.body = "body"
      /\ f \in Readers
  BY <1>1 DEF NewBody, Readers
<1> HIDE DEF e, f
<1>3. Reach(f) = IF 1 <= Pieces(e) THEN Start(e, 1) ELSE Entries[e].size
  <2>1. CASE 1 <= Pieces(e)
    <3>1. Start(e, 1) \in Nat
      BY <1>1, <2>1, EntryTypes, SpanTypes
    <3> QED BY <1>2, <2>1, <3>1 DEF Reach
  <2>2. CASE ~(1 <= Pieces(e))
    BY <1>2, <2>2 DEF Reach
  <2> QED BY <2>1, <2>2
<1>4. Reach(f) \in Nat /\ Reach(f) <= Entries[e].size
  <2>1. CASE 1 <= Pieces(e)
    <3>1. /\ Start(e, 1) \in Nat /\ Stop(e, 1) \in Nat /\ Start(e, 1) <= Stop(e, 1)
          /\ Stop(e, 1) <= Entries[e].size /\ Entries[e].size \in Nat
      BY <1>1, <2>1, EntryTypes, SpanTypes
    <3> QED BY <1>3, <2>1, <3>1
  <2>2. CASE ~(1 <= Pieces(e))
    BY <1>1, <1>3, <2>2, EntryTypes
  <2> QED BY <2>1, <2>2
<1>5. f.extent <= Pieces(f.entry) => f.used <= Entries[f.entry].extents[f.extent].len
  <2>1. ASSUME 1 <= Pieces(e) PROVE 0 <= Entries[e].extents[1].len
    BY <1>1, <2>1, EntryTypes, SpanTypes
  <2> QED BY <1>2, <2>1
<1>6. Standing(f)
  BY <1>1, <1>2, <1>4, <1>5 DEF Standing
<1>7. Ordered(e) => Bare(e, 0, Reach(f))
  BY <1>1, <1>3, FirstGap
<1> QED BY <1>1, <1>2, <1>4, <1>6, <1>7 DEF e, f

LEMMA Least ==
  ASSUME NEW T, T \subseteq Nat, T # {}
  PROVE  \E m \in T : \A z \in T : m <= z
<1>1. PICK m \in T : \A z \in T : ~(<<z, m>> \in OpToRel(<, Nat))
  BY NatLessThanWellFounded, WFMin, Zenon
<1>2. \A z \in T : ~(z < m)
  BY <1>1, Zenon DEF OpToRel
<1> QED BY <1>2

(* A seek leads to byte k, or to the data behind it.                       *)
LEMMA PlacedStands ==
  ASSUME Walking, fmt.body = "body", Seekable, NEW k \in 0..Entry.size
  PROVE  /\ Standing(Placed(k)) /\ Placed(k).entry = fmt.entry
         /\ Placed(k).origin = k /\ Placed(k).body = "body"
         /\ k <= Reach(Placed(k)) /\ Bare(fmt.entry, k, Reach(Placed(k)))
         /\ Reach(Placed(k)) \in Nat /\ k \in Nat /\ k <= Entries[fmt.entry].size
<1> DEFINE e == fmt.entry
           p == Pieces(e)
           B == Behind(k)
           x == IF B = {} THEN p + 1 ELSE CHOOSE y \in B : \A z \in B : y <= z
           u == IF B = {} THEN 0 ELSE maximum(k - Start(e, x), 0)
           f == Placed(k)
<1>0. fmt.entry > 0 /\ Standing(fmt) /\ fmt \in Readers
  BY EntriesLen DEF Walking, Standing, Readers
<1>1. /\ e \in 1..Len(Entries) /\ Entries[e].size \in Nat /\ p \in Nat
      /\ k \in Nat /\ k <= Entries[e].size /\ Ordered(e)
  BY <1>0, ReachTypes DEF Entry, Seekable
<1>2. B = {y \in 1..p : Stop(e, y) > k}
  BY DEF Behind, Extents, Entry, Pieces, Stop
<1>3. B # {} => /\ x \in 1..p /\ Stop(e, x) > k
                /\ \A y \in 1..p : y < x => Stop(e, y) <= k
  <2>1. SUFFICES ASSUME B # {}
                 PROVE  /\ x \in 1..p /\ Stop(e, x) > k
                        /\ \A y \in 1..p : y < x => Stop(e, y) <= k
    OBVIOUS
  <2>2. B \subseteq Nat
    BY <1>1, <1>2
  <2>3. PICK m \in B : \A z \in B : m <= z
    <3> HIDE DEF B, x
    <3> QED BY <2>1, <2>2, Least
  <2>4. x \in B /\ \A z \in B : x <= z
    BY <2>1, <2>3
  <2>5. ASSUME NEW y \in 1..p, y < x PROVE Stop(e, y) <= k
    <3>1. y \notin B
      <4>1. ASSUME y \in B PROVE FALSE
        <5>1. x <= y /\ x \in Nat
          BY <2>2, <2>4, <4>1
        <5> HIDE DEF x, B
        <5> QED BY <1>1, <2>5, <5>1
      <4> QED BY <4>1
    <3>2. Stop(e, y) \in Nat
      BY <1>1, <2>5, SpanTypes
    <3> QED BY <1>1, <1>2, <2>5, <3>1, <3>2
  <2> QED BY <1>2, <2>4, <2>5
<1>4. f = [fmt EXCEPT !.extent = x, !.origin = k, !.used = u]
  BY DEF Placed, Entry, Pieces, Start
<1>5. fmt = [entry |-> e, extent |-> fmt.extent, used |-> fmt.used,
             origin |-> fmt.origin, body |-> "body"]
  BY <1>0 DEF Readers
<1>6. x \in Nat \ {0} /\ u \in Nat
  <2>1. CASE B = {}
    BY <1>1, <2>1
  <2>2. CASE B # {}
    <3>1. x \in 1..p /\ Start(e, x) \in Nat
      BY <1>1, <1>3, <2>2, SpanTypes
    <3> HIDE DEF x
    <3> QED BY <1>1, <2>2, <3>1 DEF maximum
  <2> QED BY <2>1, <2>2
<1>7. /\ f.entry = e /\ f.extent = x /\ f.used = u /\ f.origin = k /\ f.body = "body"
      /\ f \in Readers
  <2> HIDE DEF x, u
  <2>1. f = [entry |-> e, extent |-> x, used |-> u, origin |-> k, body |-> "body"]
    BY <1>4, <1>5
  <2> QED BY <1>0, <1>1, <1>6, <2>1 DEF Readers
<1>8. /\ Reach(f) \in Nat /\ k <= Reach(f) /\ Reach(f) <= Entries[e].size
      /\ x <= p => u <= Entries[e].extents[x].len
      /\ Bare(e, k, Reach(f))
  <2>1. CASE B = {}
    <3>1. Reach(f) = Entries[e].size /\ ~(x <= p)
      BY <1>1, <1>7, <2>1 DEF Reach
    <3>2. ASSUME NEW i \in k..(Entries[e].size - 1), NEW y \in 1..p, Covers(e, y, i)
          PROVE  FALSE
      <4>1. Stop(e, y) > k
        <5>1. Stop(e, y) \in Nat /\ i < Stop(e, y)
          BY <1>1, <3>2, SpanTypes DEF Covers
        <5> QED BY <1>1, <5>1
      <4> QED BY <1>2, <2>1, <4>1
    <3> QED BY <1>1, <3>1, <3>2 DEF Bare, Covered
  <2>2. CASE B # {}
    <3>1. /\ x \in 1..p /\ Stop(e, x) > k
          /\ \A y \in 1..p : y < x => Stop(e, y) <= k
      BY <1>3, <2>2
    <3>2. u = maximum(k - Start(e, x), 0)
      BY <2>2
    <3> HIDE DEF x, u, f, e
    <3>3. /\ Start(e, x) \in Nat /\ Stop(e, x) \in Nat
          /\ Entries[e].extents[x].len \in Nat
          /\ Stop(e, x) = Start(e, x) + Entries[e].extents[x].len
          /\ Stop(e, x) <= Entries[e].size
      BY <1>1, <3>1, SpanTypes
    <3>4. Reach(f) = Start(e, x) + u
      BY <1>1, <1>7, <3>1 DEF Reach
    <3>5. CASE Start(e, x) <= k
      <4>1. u = k - Start(e, x)
        BY <1>1, <3>2, <3>3, <3>5 DEF maximum
      <4>2. Reach(f) = k
        BY <1>1, <3>3, <3>4, <4>1
      <4>3. Bare(e, k, Reach(f))
        BY <1>1, <4>2 DEF Bare
      <4>4. Reach(f) \in Nat /\ k <= Reach(f) /\ Reach(f) <= Entries[e].size
        BY <1>1, <4>2
      <4>5. u <= Entries[e].extents[x].len
        BY <1>1, <3>1, <3>3, <4>1
      <4> QED BY <4>3, <4>4, <4>5, Zenon
    <3>6. CASE Start(e, x) > k
      <4>1. u = 0
        BY <1>1, <3>2, <3>3, <3>6 DEF maximum
      <4>2. Reach(f) = Start(e, x)
        BY <1>1, <3>3, <3>4, <4>1
      <4>3. ASSUME NEW i \in k..(Start(e, x) - 1), NEW y \in 1..p, Covers(e, y, i)
            PROVE  FALSE
        <5>1. /\ Start(e, y) \in Nat /\ Stop(e, y) \in Nat
              /\ Start(e, y) <= i /\ i < Stop(e, y) /\ i \in Int /\ k <= i
              /\ i < Start(e, x)
          <6>1. Start(e, y) \in Nat /\ Stop(e, y) \in Nat
            BY <1>1, SpanTypes
          <6>2. Start(e, y) <= i /\ i < Stop(e, y)
            BY <4>3, Zenon DEF Covers
          <6>3. i \in Int /\ k <= i /\ i < Start(e, x)
            BY <1>1, <3>3
          <6> QED
            BY <6>1, <6>2, <6>3
        <5>2. CASE y < x
          BY <1>1, <3>1, <5>1, <5>2
        <5>3. CASE y = x
          BY <3>3, <5>1, <5>3
        <5>4. CASE y > x
          <6>1. Stop(e, x) <= Start(e, y)
            BY <1>1, <3>1, <5>4, OrderedIs
          <6>2. Start(e, x) <= Stop(e, x)
            BY <3>3
          <6> QED BY <3>3, <5>1, <6>1, <6>2
        <5> QED BY <1>1, <3>1, <5>2, <5>3, <5>4
      <4>4. Bare(e, k, Reach(f))
        BY <4>2, <4>3 DEF Bare, Covered
      <4>5. k <= Reach(f) /\ Reach(f) \in Nat /\ Reach(f) <= Entries[e].size
        <5>1. k \in Nat /\ Entries[e].size \in Nat
          BY <1>1
        <5>2. Start(e, x) <= Entries[e].size
          BY <3>3, <5>1
        <5> QED
          BY <3>3, <3>6, <4>2, <5>1, <5>2
      <4>6. u <= Entries[e].extents[x].len
        BY <3>3, <4>1
      <4> QED BY <4>4, <4>5, <4>6, Zenon
    <3>7. Start(e, x) <= k \/ Start(e, x) > k
      BY <1>1, <3>3
    <3> QED BY <3>5, <3>6, <3>7
  <2> QED BY <2>1, <2>2
<1>9. Standing(f)
  <2> HIDE DEF x, u, f
  <2> QED BY <1>1, <1>7, <1>8 DEF Standing
<1> QED BY <1>1, <1>7, <1>8, <1>9

-----------------------------------------------------------------------------
(* The counters are bounded.                                               *)

Numbered == Control /\ Counting /\ Walking /\ Moving

LEMMA InBody ==
  ASSUME Control, Walking, state \in {"data", "recovery"}
  PROVE  fmt.body = "body" /\ fmt.entry > 0 /\ fmt.entry \in 1..Len(Entries)
BY EntriesLen DEF Control, FormatInStep, Walking, Standing, Readers

LEMMA KeepsCounting ==
  ASSUME Counting, UNCHANGED <<chain, held, opens, fileCount, declared, headed>>,
         skipped' \in SkipCodes \cup {skipped},
         fmt'.entry = fmt.entry, fmt'.body = "dead" \/ fmt.body # "dead"
  PROVE  Counting'
BY SkipAnswers DEF Counting, HeaderCounts

LEMMA CountersKept ==
  ASSUME Counting, UNCHANGED <<clientVars, entryVars>>,
         fmt' = fmt \/ (fmt'.entry = fmt.entry /\ fmt.body = "body")
  PROVE  Counting'
<1>1. UNCHANGED <<chain, held, opens, fileCount, declared, headed, skipped>>
  BY DEF clientVars, entryVars
<1>2. CASE fmt' = fmt
  BY <1>1, <1>2 DEF Counting, HeaderCounts
<1>3. CASE fmt'.entry = fmt.entry /\ fmt.body = "body"
  BY <1>1, <1>3, KeepsCounting
<1> QED BY <1>2, <1>3

LEMMA RefuseCounting == Counting /\ Refuse => Counting'
BY CountersKept DEF Refuse

LEMMA OpenCounting == Numbered /\ Open => Counting'
<1> SUFFICES ASSUME Numbered, Open PROVE Counting'
  OBVIOUS
<1>1. CASE Refuse
  BY <1>1, RefuseCounting DEF Numbered
<1>2. CASE ~Refuse
  <2>1. PICK code, s, c, h :
          /\ OpenEnds(code, s, c, h)
          /\ \/ c = chain /\ h = held
             \/ c = chain /\ h = held + 1
             \/ c = "none" /\ h = held
             \/ c = "open" /\ h = held + 1
             \/ c = "closed" /\ h = held
    BY <1>2 DEF Open, OpenerFails, NoMemory, NoFilter, NoFormat, Opened
  <2>2. opens' = opens + 1 /\ opens < MaxOpens /\ opens \in 0..MaxOpens
    BY <2>1 DEF Open, OpenEnds, Numbered, Counting
  <2>3. chain' = c /\ held' = h /\ UNCHANGED <<fileCount, declared, headed, skipped, fmt>>
    BY <2>1 DEF OpenEnds, entryVars
  <2>4. opens' \in 0..MaxOpens
    BY <2>2, ReadArchiveAssumption
  <2>5. held \in Nat /\ chain \in {"none", "open", "closed"} /\ (chain = "open" => held > 0)
    BY DEF Numbered, Counting
  <2>6. /\ held' \in Nat /\ chain' \in {"none", "open", "closed"}
        /\ chain' = "open" => held' > 0
    BY <2>1, <2>3, <2>5
  <2> QED BY <2>3, <2>4, <2>6 DEF Numbered, Counting, HeaderCounts
<1> QED BY <1>1, <1>2

LEMMA HeaderCounting == Numbered /\ NextHeader => Counting'
<1> SUFFICES ASSUME Numbered, NextHeader PROVE Counting'
  OBVIOUS
<1>1. CASE Refuse
  BY <1>1, RefuseCounting DEF Numbered
<1>2. CASE SkipFatal /\ state \in {"header", "data", "recovery"}
  <2>1. /\ UNCHANGED <<chain, held, opens, fileCount, declared>>
        /\ headed'.code = FATAL /\ headed'.skip = FATAL /\ skipped' = FATAL
        /\ fmt' = [fmt EXCEPT !.body = "dead"]
    BY <1>2, FatalSkip DEF SkipFatal, clientVars, Headed
  <2>2. fmt'.entry = fmt.entry /\ fmt'.body = "dead"
    BY <2>1, DeadStands DEF SamePlace, Numbered, Walking
  <2> QED BY <2>1, <2>2 DEF Numbered, Counting, HeaderCounts
<1>3. ASSUME state \in {"header", "data", "recovery"}, NEW r1 \in SkipCodes \cup {OK},
             r1 # FATAL, NEW f, Ready(f), NEW r2 \in HeaderCodes, HeaderEnds(r1, f, r2)
      PROVE  Counting'
  <2>1. /\ UNCHANGED <<chain, held, opens>> /\ fmt' = HeaderRead(f, r2)
        /\ fileCount' = IF r2 = EOF THEN fileCount ELSE fileCount + 1
        /\ declared' = IF r2 \in {OK, WARN} THEN Entries[fmt.entry + 1].declared ELSE -1
        /\ headed'.code = WorstOf(SkipReply(r1), r2) /\ headed'.skip = SkipReply(r1)
        /\ skipped' = r1
        /\ r2 = RETRY => fileCount - fmt.entry < MaxRetries
    BY <1>3 DEF HeaderEnds, clientVars, Headed
  <2>2. /\ r2 \in {OK, EOF, RETRY, WARN, FAILED, FATAL}
        /\ r1 \in {OK, WARN, EOF, FAILED} /\ SkipReply(r1) \in {OK, WARN, FAILED}
    BY <1>3, HeaderAnswers, SkipAnswers DEF SkipReply
  <2>3. /\ headed'.code \in {OK, EOF, RETRY, WARN, FAILED, FATAL}
        /\ {headed'.skip, skipped'} \subseteq {OK, EOF, WARN, FAILED, FATAL}
    BY <2>1, <2>2 DEF WorstOf
  <2>4. fmt.body # "dead"
    BY <1>3 DEF Numbered, Control, FormatInStep
  <2>5. /\ fileCount \in Nat /\ fmt.entry <= fileCount
        /\ fileCount <= fmt.entry + MaxRetries /\ MaxRetries \in Nat
        /\ fmt.entry \in Nat
    BY <2>4, ReadArchiveAssumption, EntriesLen
       DEF Numbered, Counting, HeaderCounts, Walking, Standing, Readers
  <2>6. CASE r2 \in {OK, WARN, FAILED} /\ fmt.entry # Len(Entries) /\ fmt' = NewBody(fmt)
    <3>1. fmt'.entry = fmt.entry + 1 /\ fmt'.body = "body" /\ fmt.entry + 1 \in 1..Len(Entries)
      BY <2>6, NewBodyStands DEF Numbered
    <3>2. fileCount' = fileCount + 1
      BY <2>1, <2>6, CodeValues
    <3>3. HeaderCounts'
      BY <2>5, <3>1, <3>2 DEF HeaderCounts
    <3>4. declared' \in Nat \cup {-1}
      BY <2>1, <3>1, EntryTypes
    <3> QED BY <2>1, <2>3, <3>3, <3>4 DEF Counting, Numbered
  <2>7. CASE r2 = RETRY /\ fmt' = [fmt EXCEPT !.body = "header"]
    <3>1. fmt'.entry = fmt.entry /\ fmt'.body = "header"
      BY <2>7, DeadStands DEF SamePlace, Numbered, Walking
    <3>2. fileCount' = fileCount + 1 /\ fileCount < fmt.entry + MaxRetries
      BY <2>1, <2>5, <2>7, CodeValues
    <3>3. HeaderCounts'
      BY <2>5, <3>1, <3>2 DEF HeaderCounts
    <3>4. declared' = -1
      BY <2>1, <2>7, CodeValues
    <3> QED BY <2>1, <2>3, <3>3, <3>4 DEF Counting, Numbered
  <2>8. CASE r2 \in {EOF, FATAL} /\ fmt' = [fmt EXCEPT !.body = "dead"]
    <3>1. fmt'.entry = fmt.entry /\ fmt'.body = "dead"
      BY <2>8, DeadStands DEF SamePlace, Numbered, Walking
    <3>2. fileCount' = fileCount + 1 \/ fileCount' = fileCount
      BY <2>1
    <3>3. HeaderCounts'
      BY <2>5, <3>1, <3>2 DEF HeaderCounts
    <3>4. declared' = -1
      BY <2>1, <2>8, CodeValues
    <3> QED BY <2>1, <2>3, <3>3, <3>4 DEF Counting, Numbered
  <2> QED BY <1>3, <2>1, <2>6, <2>7, <2>8, HeaderReads DEF Numbered
<1> QED BY <1>1, <1>2, <1>3, HeaderWays DEF Numbered

(* What a step that takes an answer of read_data does to the reader.       *)
LEMMA AnswerReader ==
  ASSUME Numbered, state = "data", NEW b \in DataAnswers, FormatAnswers(b)
  PROVE  /\ fmt' = b.after /\ fmt'.entry = fmt.entry /\ fmt'.origin = fmt.origin
         /\ fmt.body = "body" /\ Standing(fmt')
BY InBody, Answers DEF FormatAnswers, Numbered, Moving, SamePlace

LEMMA NextCounting == Numbered /\ [Next]_vars => Counting'
<1> SUFFICES ASSUME Numbered, [Next]_vars PROVE Counting'
  OBVIOUS
<1>1. CASE UNCHANGED vars
  BY <1>1 DEF vars, clientVars, entryVars, Counting, HeaderCounts, Numbered
<1>2. CASE Refuse
  BY <1>2, RefuseCounting DEF Numbered
<1>3. CASE Open
  BY <1>3, OpenCounting
<1>4. CASE NextHeader
  BY <1>4, HeaderCounting
<1>5. CASE DataSkip /\ ~Refuse
  <2>1. PICK r \in SkipCodes :
          /\ fmt' \in Skipped(r) /\ skipped' = r
          /\ UNCHANGED <<chain, held, opens, fileCount, declared, headed>>
    BY <1>5 DEF DataSkip, clientVars
  <2>2. state \in {"data", "recovery"}
    BY <1>5 DEF DataSkip, SkipStates
  <2>3. \E k \in {"header", "left", "dead"} : fmt' = [fmt EXCEPT !.body = k]
    BY <2>1, SkipLeaves
  <2>4. fmt'.entry = fmt.entry
    BY <2>3, DeadStands DEF SamePlace, Numbered, Walking
  <2> QED BY <2>1, <2>2, <2>4, InBody, KeepsCounting DEF Numbered
<1>6. CASE DataBlock /\ ~Refuse
  <2>1. PICK b \in DataAnswers : FormatAnswers(b) /\ UNCHANGED <<clientVars, entryVars>>
    BY <1>6 DEF DataBlock
  <2>2. state = "data"
    BY <1>6 DEF DataBlock
  <2> QED BY <2>1, <2>2, AnswerReader, CountersKept DEF Numbered
<1>7. CASE SeekData /\ ~Refuse
  <2>1. state = "data" /\ UNCHANGED <<clientVars, entryVars>>
    BY <1>7 DEF SeekData
  <2>2. fmt.body = "body"
    BY <2>1, InBody DEF Numbered
  <2>3. fmt'.entry = fmt.entry
    <3>1. CASE \E k \in 0..Entry.size : Seekable /\ Restart(k)
      BY <2>2, <3>1, PlacedStands DEF Restart, Numbered
    <3>2. CASE \E c : SeekFails(c)
      <4>1. fmt' = [fmt EXCEPT !.body = "dead"] \/ fmt' = [fmt EXCEPT !.body = @]
        BY <3>2 DEF SeekFails
      <4> QED BY <4>1, DeadStands DEF SamePlace, Numbered, Walking, Control, Shaped
    <3> QED BY <1>7, <3>1, <3>2 DEF SeekData
  <2> QED BY <2>1, <2>2, <2>3, CountersKept DEF Numbered
<1>8. CASE BeginFd \/ \E s \in Requests : BeginData(s)
  <2>1. Refuse \/ (UNCHANGED <<clientVars, entryVars>> /\ fmt' = fmt)
    BY <1>8 DEF BeginFd, BeginData
  <2> QED BY <1>2, <2>1, CountersKept DEF Numbered
<1>9. CASE DataRefill
  <2>1. PICK b \in DataAnswers : FormatAnswers(b)
    BY <1>9 DEF DataRefill
  <2>2. state = "data" /\ UNCHANGED <<clientVars, entryVars>>
    BY <1>9 DEF DataRefill
  <2> QED BY <2>1, <2>2, AnswerReader, CountersKept DEF Numbered
<1>10. CASE FdNext
  <2>1. PICK b \in DataAnswers : FormatAnswers(b)
    BY <1>10 DEF FdNext
  <2>2. state = "data" /\ UNCHANGED <<clientVars, entryVars>>
    BY <1>10 DEF FdNext, Numbered, Control, Running
  <2> QED BY <2>1, <2>2, AnswerReader, CountersKept DEF Numbered
<1>11. CASE DataRefused \/ DataOutOfOrder \/ DataCopy \/ FdWrite \/ FdOverrun
  <2>1. fmt' = fmt /\ UNCHANGED <<clientVars, entryVars>>
    BY <1>11 DEF DataRefused, DataOutOfOrder, DataCopy, FdWrite, FdOverrun
  <2> QED BY <2>1, CountersKept DEF Numbered
<1>12. CASE Close \/ Free
  <2>1. UNCHANGED <<opens, fileCount, declared, headed, skipped, fmt>>
    BY <1>12 DEF Close, Free, clientVars, entryVars, CloseFilters
  <2>2. /\ held \in Nat /\ chain \in {"none", "open", "closed"}
        /\ chain = "open" => held > 0
    BY DEF Numbered, Counting
  <2>3. /\ held' = held \/ (chain = "open" /\ held' = held - 1)
        /\ \/ chain' = chain /\ held' = held
           \/ chain' \in {"none", "closed"}
           \/ chain' = chain /\ chain # "open"
    BY <1>12 DEF Close, Free, clientVars, CloseFilters
  <2>4. /\ held' \in Nat /\ chain' \in {"none", "open", "closed"}
        /\ chain' = "open" => held' > 0
    BY <2>2, <2>3
  <2> QED BY <2>1, <2>4 DEF Numbered, Counting, HeaderCounts
<1> QED BY <1>1, <1>2, <1>3, <1>4, <1>5, <1>6, <1>7, <1>8, <1>9, <1>10, <1>11, <1>12
     DEF Next, DataStep, FdStep

-----------------------------------------------------------------------------
(* The format reader stands on a byte of its entry.                        *)

LEMMA KeepsWalking == Walking /\ fmt' = fmt => Walking'
BY DEF Walking

LEMMA NextWalking == Numbered /\ [Next]_vars => Walking'
<1> SUFFICES ASSUME Numbered, [Next]_vars PROVE Standing(fmt')
  BY DEF Walking
<1>0. Standing(fmt) /\ Control
  BY DEF Numbered, Walking
<1>1. CASE fmt' = fmt
  BY <1>0, <1>1
<1>2. ASSUME NEW k \in {"header", "left", "dead"}, fmt' = [fmt EXCEPT !.body = k]
      PROVE  Standing(fmt')
  BY <1>0, <1>2, DeadStands
<1>3. CASE NextHeader
  <2>1. CASE Refuse
    BY <1>1, <2>1 DEF Refuse
  <2>2. CASE SkipFatal
    BY <1>2, <2>2, FatalSkip
  <2>3. ASSUME NEW r1, NEW f, Ready(f), NEW r2 \in HeaderCodes, HeaderEnds(r1, f, r2)
        PROVE  Standing(fmt')
    <3>1. fmt' = HeaderRead(f, r2)
      BY <2>3 DEF HeaderEnds
    <3> QED BY <1>0, <1>2, <2>3, <3>1, HeaderReads, NewBodyStands DEF Numbered
  <2> QED BY <1>0, <1>3, <2>1, <2>2, <2>3, HeaderWays
<1>4. CASE DataSkip
  <2>1. Refuse \/ \E r \in SkipCodes : fmt' \in Skipped(r)
    BY <1>4 DEF DataSkip
  <2>2. Refuse \/ \E k \in {"header", "left", "dead"} : fmt' = [fmt EXCEPT !.body = k]
    BY <2>1, SkipLeaves
  <2> QED BY <1>1, <1>2, <2>2 DEF Refuse
<1>5. CASE DataBlock
  <2>1. Refuse \/ (state = "data" /\ \E b \in DataAnswers : FormatAnswers(b))
    BY <1>5 DEF DataBlock
  <2> QED BY <1>1, <2>1, AnswerReader DEF Refuse
<1>6. CASE SeekData
  <2>1. CASE Refuse
    BY <1>1, <2>1 DEF Refuse
  <2>2. ASSUME state = "data", Seekable, NEW k \in 0..Entry.size, Restart(k)
        PROVE  Standing(fmt')
    BY <1>0, <2>2, InBody, PlacedStands DEF Restart, Numbered
  <2>3. ASSUME NEW c, SeekFails(c)
        PROVE  Standing(fmt')
    <3>1. fmt' = [fmt EXCEPT !.body = "dead"] \/ fmt' = [fmt EXCEPT !.body = @]
      BY <2>3 DEF SeekFails
    <3>2. [fmt EXCEPT !.body = @] = fmt
      BY <1>0 DEF Control, Shaped
    <3> QED BY <1>1, <1>2, <3>1, <3>2
  <2> QED BY <1>6, <2>1, <2>2, <2>3 DEF SeekData
<1>7. CASE DataRefill
  <2>1. state = "data" /\ \E b \in DataAnswers : FormatAnswers(b)
    BY <1>7 DEF DataRefill
  <2> QED BY <2>1, AnswerReader
<1>8. CASE FdNext
  <2>1. state = "data" /\ \E b \in DataAnswers : FormatAnswers(b)
    BY <1>8 DEF FdNext, Numbered, Control, Running
  <2> QED BY <2>1, AnswerReader
<1>9. Open \/ BeginFd \/ (\E s \in Requests : BeginData(s)) => fmt' = fmt
  BY DEF Open, OpenerFails, NoMemory, NoFilter, NoFormat, Opened, OpenEnds, Refuse,
     BeginFd, BeginData
<1>10. DataRefused \/ DataOutOfOrder \/ DataCopy \/ FdWrite \/ FdOverrun => fmt' = fmt
  BY DEF DataRefused, DataOutOfOrder, DataCopy, FdWrite, FdOverrun
<1>11. Close \/ Free \/ UNCHANGED vars => fmt' = fmt
  BY DEF Close, Free, vars
<1> QED BY <1>1, <1>3, <1>4, <1>5, <1>6, <1>7, <1>8, <1>9, <1>10, <1>11
     DEF Next, DataStep, FdStep

-----------------------------------------------------------------------------
(* The offsets and the calls in progress.                                  *)

LEMMA CallOps ==
  ASSUME Moving
  PROVE  /\ call.op = "data" => InData(call)
         /\ call.op = "fd" => InFd(call)
         /\ call.op \in {"data", "fd"} => call # Idle /\ reply.op = "none"
BY DEF Moving, Idle, InData, InFd

LEMMA KeepsMoving ==
  ASSUME Moving, rd' = rd, mixed' = mixed, fdpos' = fdpos, call' = call,
         call = Idle \/ reply' = reply
  PROVE  Moving'
BY DEF Moving

LEMMA IdleMoving ==
  ASSUME Moving, Windowed(rd'), mixed' \in BOOLEAN, fdpos' \in Nat, call' = Idle
  PROVE  Moving'
BY DEF Moving

LEMMA NoDataWindowed == Windowed(NoData) /\ NoData.remaining = 0
  /\ NoData.offset = 0 /\ NoData.output = 0
BY DEF Windowed, NoData

LEMMA RefuseMoving == Moving /\ call = Idle /\ Refuse => Moving'
BY KeepsMoving DEF Refuse, dataVars, fdVars

(* Refilling the window keeps it one.                                      *)
LEMMA RefilledWindowed ==
  ASSUME Windowed(rd), NEW b, b.offset \in Nat, b.len \in Nat
  PROVE  /\ Windowed(Refilled(b)) /\ Refilled(b).output = rd.output
         /\ Refilled(b).offset = b.offset /\ Refilled(b).remaining = b.len
         /\ Refilled(b).block = b.block
<1>1. Refilled(b) \in [remaining : {b.len}, offset : {b.offset},
                        output : {rd.output}, block : {b.block}]
  BY DEF Refilled, Windowed
<1>2. rd.output \in Nat
  BY DEF Windowed
<1> QED BY <1>1, <1>2 DEF Windowed

(* What one pass of archive_read_data copies.                              *)
LEMMA CopySizes ==
  ASSUME Windowed(rd), InData(call), rd.offset >= rd.output
  PROVE  /\ Padding \in Nat /\ Copying \in Nat
         /\ Padding <= rd.offset - rd.output /\ Padding <= call.left
         /\ Copying <= rd.remaining /\ Padding + Copying <= call.left
         /\ Copying > 0 => Padding = rd.offset - rd.output
<1>1. /\ rd.offset \in Nat /\ rd.output \in Nat /\ rd.remaining \in Nat
      /\ call.left \in Nat
  BY DEF Windowed, InData
<1>2. /\ Padding \in Nat /\ Padding <= rd.offset - rd.output /\ Padding <= call.left
      /\ Padding = call.left \/ Padding = rd.offset - rd.output
  BY <1>1 DEF Padding, minimum
<1> HIDE DEF Padding
<1>3. /\ Copying \in Nat /\ Copying <= rd.remaining /\ Copying <= call.left - Padding
  BY <1>1, <1>2 DEF Copying, minimum
<1> QED BY <1>1, <1>2, <1>3

LEMMA CopyMoving == Moving /\ DataCopy => Moving'
<1> SUFFICES ASSUME Moving, DataCopy PROVE Moving'
  OBVIOUS
<1>1. InData(call) /\ Windowed(rd) /\ rd.offset >= rd.output
  BY CallOps DEF DataCopy, Moving
<1> DEFINE p == Padding
           c == Copying
<1>2. /\ p \in Nat /\ c \in Nat /\ c <= rd.remaining /\ p + c <= call.left
  BY <1>1, CopySizes
<1>3. /\ rd' = [remaining |-> rd.remaining - c, offset |-> rd.offset + c,
                output |-> rd.output + p + c, block |-> Further(rd.block, c)]
      /\ mixed' = mixed /\ fdpos' = fdpos
  BY DEF DataCopy, fdVars
<1>4. Windowed(rd')
  <2> HIDE DEF p, c
  <2> QED BY <1>1, <1>2, <1>3 DEF Windowed
<1>5. CASE call' = Idle
  BY <1>3, <1>4, <1>5, IdleMoving DEF Moving
<1>6. CASE call.left # p + c /\ call' = [call EXCEPT !.left = @ - (p + c), !.done = @ + (p + c)]
           /\ reply' = reply
  <2> HIDE DEF p, c
  <2>1. /\ call'.op = "data"
        /\ call' = [op |-> "data", left |-> call'.left, done |-> call'.done]
        /\ call'.left = call.left - (p + c) /\ call'.done = call.done + (p + c)
    BY <1>1, <1>6 DEF InData
  <2>2. InData(call')
    BY <1>1, <1>2, <1>6, <2>1 DEF InData
  <2>3. reply'.op = "none"
    BY <1>1, <1>6, CallOps DEF InData
  <2> QED BY <1>3, <1>4, <2>2, <2>3 DEF Moving
<1> QED BY <1>5, <1>6 DEF DataCopy, DataEnds

LEMMA ZeroesLen ==
  ASSUME NEW n \in Nat
  PROVE  Len(Zeroes(n)) = n /\ \A i \in 1..n : Zeroes(n)[i] = Hole
<1>1. Listed(Zeroes(n), n)
  BY DEF Zeroes, Listed
<1>2. Len(Zeroes(n)) = n
  BY <1>1, ListLen
<1> QED BY <1>2 DEF Zeroes

LEMMA PieceLen ==
  ASSUME NEW n \in Nat, NEW k
  PROVE  Len(Piece(k, n)) = n /\ \A i \in 1..n : Piece(k, n)[i] = <<k[1], k[2] + i - 1>>
<1>1. Listed(Piece(k, n), n)
  BY DEF Piece, Listed
<1>2. Len(Piece(k, n)) = n
  BY <1>1, ListLen
<1> QED BY <1>2 DEF Piece

(* Padding moves the descriptor up to the target or leaves it there.       *)
LEMMA PadMoves ==
  ASSUME NEW t \in Nat, InFd(call), fdpos \in Nat, PadTo(t)
  PROVE  /\ fdpos' \in Nat
         /\ fdpos' = IF t <= call.actual THEN fdpos ELSE fdpos + (t - call.actual)
<1>1. call.actual \in Nat
  BY DEF InFd
<1>2. CASE t <= call.actual
  BY <1>2 DEF PadTo, fdVars
<1>3. CASE ~(t <= call.actual) /\ canLseek
  BY <1>1, <1>3 DEF PadTo
<1>4. CASE ~(t <= call.actual) /\ ~canLseek
  <2>1. fdpos' = fdpos + Len(Zeroes(t - call.actual))
    BY <1>4 DEF PadTo, Write
  <2>2. t - call.actual \in Nat
    BY <1>1, <1>4
  <2>3. Len(Zeroes(t - call.actual)) = t - call.actual
    BY <2>2, ZeroesLen
  <2> QED BY <1>1, <1>4, <2>1, <2>2, <2>3
<1> QED BY <1>2, <1>3, <1>4

(* Zeroes that are cut off by a failing write are still some zeroes.       *)
LEMMA BreakMoves ==
  ASSUME NEW t \in Nat, InFd(call), fdpos \in Nat, PadBreaks(t)
  PROVE  fdpos' \in Nat
<1>1. PICK n \in 0..(t - call.actual - 1) : Write(Zeroes(n))
  BY DEF PadBreaks
<1>2. n \in Nat
  BY <1>1 DEF InFd
<1>3. fdpos' = fdpos + Len(Zeroes(n)) /\ Len(Zeroes(n)) = n
  BY <1>1, <1>2, ZeroesLen DEF Write
<1> QED BY <1>2, <1>3

(* A block is cut at the declared size: where it begins and how much of it *)
(* is left.                                                                *)
LEMMA CutSizes ==
  ASSUME declared \in Nat \cup {-1}, NEW o \in Nat, NEW l \in Nat
  PROVE  /\ Clipped(o) \in Nat /\ Clipped(o) <= o
         /\ Clipped(o + l) - Clipped(o) \in Nat
         /\ Clipped(o + l) - Clipped(o) <= l
         /\ Clipped(o + l) - Clipped(o) > 0 => Clipped(o) = o
         /\ declared >= 0 => Clipped(o + l) <= declared
         /\ (o + l # Clipped(o + l)) <=> (declared >= 0 /\ o + l > declared)
BY DEF Clipped, minimum

LEMMA FdNextMoving == Numbered /\ FdNext => Moving'
<1> SUFFICES ASSUME Numbered, FdNext PROVE Moving'
  OBVIOUS
<1>1. PICK b \in DataAnswers :
        /\ mixed' = (mixed \/ b.len > 0)
        /\ \/ FdBlock(b)
           \/ FdLast(b)
           \/ b.code < OK /\ FdEnds(b.code) /\ UNCHANGED fdVars
  BY DEF FdNext
<1>2. InFd(call) /\ rd' = rd /\ Windowed(rd) /\ mixed' \in BOOLEAN /\ fdpos \in Nat
  BY <1>1, CallOps DEF FdNext, Numbered, Moving
<1>3. b.offset \in Nat /\ b.len \in Nat /\ declared \in Nat \cup {-1}
  BY <1>2, InBody, Answers DEF FdNext, Numbered, Control, Running, Counting
<1> DEFINE t == Clipped(b.offset)
           z == Clipped(b.offset + b.len) - t
<1>4. t \in Nat /\ z \in Nat
  BY <1>3, CutSizes
<1> HIDE DEF t, z
<1>5. PadTo(t) \/ PadBreaks(t) \/ UNCHANGED fdVars
  BY <1>1 DEF FdBlock, FdLast, t
<1>6. fdpos' \in Nat
  BY <1>2, <1>4, <1>5, PadMoves, BreakMoves DEF fdVars
<1>7. CASE call' = Idle
  BY <1>2, <1>6, <1>7, IdleMoving DEF Numbered
<1>8. CASE call' # Idle
  <2>1. /\ call' = [call EXCEPT !.actual = maximum(@, t), !.left = z, !.block = b.block,
                                !.over = b.offset + b.len # t + z]
        /\ reply' = reply
    BY <1>1, <1>8, Zenon DEF FdBlock, FdLast, FdEnds, t, z
  <2>2. call' = [op |-> "fd", base |-> call.base, actual |-> maximum(call.actual, t),
                 left |-> z, block |-> b.block, over |-> b.offset + b.len # t + z,
                 whole |-> call.whole]
    BY <1>2, <2>1 DEF InFd
  <2>3. maximum(call.actual, t) \in Nat
    BY <1>2, <1>4 DEF InFd, maximum
  <2>4. InFd(call')
    BY <1>2, <1>4, <2>2, <2>3 DEF InFd
  <2>5. reply'.op = "none"
    BY <1>2, <2>1, CallOps DEF InFd, Numbered
  <2> QED BY <1>2, <1>6, <2>4, <2>5 DEF Moving
<1> QED BY <1>7, <1>8

LEMMA FdWriteMoving == Moving /\ FdWrite => Moving'
<1> SUFFICES ASSUME Moving, FdWrite PROVE Moving'
  OBVIOUS
<1>1. InFd(call) /\ Windowed(rd) /\ mixed \in BOOLEAN /\ fdpos \in Nat
  BY CallOps DEF FdWrite, Moving
<1>2. rd' = rd /\ mixed' = mixed
  BY DEF FdWrite, dataVars
<1>3. CASE call' = Idle /\ UNCHANGED fdVars
  BY <1>1, <1>2, <1>3, IdleMoving DEF fdVars
<1>4. ASSUME NEW n \in 1..call.left, Write(Piece(call.block, n)), reply' = reply,
             call' = [call EXCEPT !.actual = @ + n, !.left = @ - n,
                                  !.block = Further(@, n)]
      PROVE  Moving'
  <2>1. n \in Nat /\ n <= call.left
    BY <1>1, <1>4 DEF InFd
  <2>2. fdpos' = fdpos + n
    BY <1>4, <2>1, PieceLen DEF Write
  <2>3. call' = [op |-> "fd", base |-> call.base, actual |-> call.actual + n,
                 left |-> call.left - n, block |-> Further(call.block, n),
                 over |-> call.over, whole |-> call.whole]
    BY <1>1, <1>4 DEF InFd
  <2>4. InFd(call')
    BY <1>1, <2>1, <2>3 DEF InFd
  <2>5. reply'.op = "none"
    BY <1>1, <1>4, CallOps DEF InFd
  <2> QED BY <1>1, <1>2, <2>1, <2>2, <2>4, <2>5 DEF Moving
<1> QED BY <1>3, <1>4 DEF FdWrite, FdEnds

LEMMA NextMoving == Numbered /\ [Next]_vars => Moving'
<1> SUFFICES ASSUME Numbered, [Next]_vars PROVE Moving'
  OBVIOUS
<1>0. Moving /\ Windowed(rd) /\ mixed \in BOOLEAN /\ fdpos \in Nat
  BY DEF Numbered, Moving
<1>1. CASE UNCHANGED vars
  BY <1>0, <1>1, KeepsMoving DEF vars, dataVars, fdVars
<1>2. ASSUME call = Idle, Refuse PROVE Moving'
  BY <1>0, <1>2, RefuseMoving
<1>3. ASSUME call = Idle, UNCHANGED <<rd, mixed, fdVars, call>> PROVE Moving'
  BY <1>0, <1>3, KeepsMoving DEF fdVars
<1>4. CASE Open
  BY <1>2, <1>3, <1>4
     DEF Open, Starts, OpenerFails, NoMemory, NoFilter, NoFormat, Opened, OpenEnds, dataVars
<1>5. CASE NextHeader
  <2>1. call = Idle
    BY <1>5 DEF NextHeader, Starts
  <2>2. \/ Refuse \/ UNCHANGED <<rd, mixed, fdVars, call>>
        \/ rd' = NoData /\ mixed' = FALSE /\ UNCHANGED <<fdVars, call>>
    BY <1>5 DEF NextHeader, SkipFatal, HeaderEnds, dataVars
  <2> QED BY <1>0, <1>2, <1>3, <2>1, <2>2, IdleMoving, NoDataWindowed DEF fdVars
<1>6. CASE DataSkip
  BY <1>2, <1>3, <1>6 DEF DataSkip, Starts, dataVars
<1>7. CASE DataBlock
  <2>1. call = Idle
    BY <1>7 DEF DataBlock, Starts
  <2>2. Refuse \/ (\E b : mixed' = (mixed \/ b.len > 0) /\ UNCHANGED <<rd, fdVars, call>>)
    BY <1>7 DEF DataBlock
  <2> QED BY <1>0, <1>2, <2>1, <2>2, IdleMoving DEF fdVars
<1>8. CASE SeekData
  <2>1. call = Idle
    BY <1>8 DEF SeekData, Starts
  <2>2. \/ Refuse \/ UNCHANGED <<rd, mixed, fdVars, call>>
        \/ rd' = NoData /\ mixed' = FALSE /\ UNCHANGED <<fdVars, call>>
    BY <1>8 DEF SeekData, Restart, SeekFails, dataVars
  <2> QED BY <1>0, <1>2, <1>3, <2>1, <2>2, IdleMoving, NoDataWindowed DEF fdVars
<1>9. CASE \E s \in Requests : BeginData(s)
  <2>1. PICK s \in Requests : BeginData(s)
    BY <1>9
  <2>2. s \in Nat \ {0}
    BY <2>1, ReadArchiveAssumption
  <2>3. /\ call' = [op |-> "data", left |-> s, done |-> 0]
        /\ UNCHANGED <<rd, mixed, fdpos>> /\ reply'.op = "none"
    BY <2>1 DEF BeginData, dataVars, fdVars, Answer
  <2>4. InData(call')
    BY <2>2, <2>3 DEF InData
  <2> QED BY <1>0, <2>3, <2>4 DEF Moving
<1>10. CASE BeginFd
  <2>1. CASE Refuse
    BY <1>2, <1>10, <2>1 DEF BeginFd, Starts
  <2>2. CASE ~Refuse
    <3>1. /\ call' = [op |-> "fd", base |-> fdpos, actual |-> 0, left |-> 0,
                      block |-> Hole, over |-> FALSE,
                      whole |-> fmt.extent = 1 /\ fmt.used = 0 /\ fmt.origin = 0]
          /\ UNCHANGED <<rd, mixed, fdpos>> /\ reply'.op = "none"
      BY <1>10, <2>2 DEF BeginFd, dataVars, fdVars, Answer
    <3>2. InFd(call')
      BY <1>0, <3>1 DEF InFd
    <3> QED BY <1>0, <3>1, <3>2 DEF Moving
  <2> QED BY <2>1, <2>2
<1>11. CASE DataRefused \/ DataOutOfOrder
  BY <1>0, <1>11, IdleMoving DEF DataRefused, DataOutOfOrder, DataEnds, fdVars
<1>12. CASE DataRefill
  <2>1. PICK b \in DataAnswers :
          /\ rd' = Refilled(b)
          /\ call' = Idle \/ UNCHANGED <<call, reply>>
    BY <1>12 DEF DataRefill, DataEnds
  <2>2. state = "data" /\ mixed' = mixed /\ fdpos' = fdpos
    BY <1>12 DEF DataRefill, fdVars
  <2>3. b.offset \in Nat /\ b.len \in Nat
    BY <1>0, <2>2, InBody, Answers DEF Numbered
  <2>4. Windowed(rd')
    BY <1>0, <2>1, <2>3, RefilledWindowed
  <2>5. CASE call' = Idle
    BY <1>0, <2>2, <2>4, <2>5, IdleMoving
  <2>6. CASE UNCHANGED <<call, reply>>
    BY <1>0, <2>2, <2>4, <2>6 DEF Moving
  <2> QED BY <2>1, <2>5, <2>6
<1>13. CASE DataCopy
  BY <1>0, <1>13, CopyMoving
<1>14. CASE FdNext
  BY <1>14, FdNextMoving
<1>15. CASE FdWrite
  BY <1>0, <1>15, FdWriteMoving
<1>16. CASE FdOverrun
  BY <1>0, <1>16, IdleMoving DEF FdOverrun, FdEnds, dataVars, fdVars
<1>17. CASE Close \/ Free
  BY <1>3, <1>17 DEF Close, Free, Starts, dataVars
<1> QED BY <1>1, <1>4, <1>5, <1>6, <1>7, <1>8, <1>9, <1>10, <1>11, <1>12, <1>13,
        <1>14, <1>15, <1>16, <1>17 DEF Next, DataStep, FdStep

-----------------------------------------------------------------------------
(* The stream of archive_read_data.                                        *)

LEMMA KeepsStreaming ==
  ASSUME Streaming, fmt' = fmt, rd' = rd, got' = got, mixed' = mixed
  PROVE  Streaming'
BY DEF Streaming, Copied, Ahead, InHand, Behindhand

LEMMA RefuseStreaming == Streaming /\ Refuse => Streaming'
BY KeepsStreaming DEF Refuse, dataVars

(* A reader that leaves the body brings no more data.                      *)
LEMMA FadeStreaming ==
  ASSUME Streaming, SamePlace(fmt, fmt'), fmt'.body # "body", rd' = rd, got' = got,
         mixed' = mixed
  PROVE  Streaming'
BY DEF Streaming, Copied, Ahead, InHand, Behindhand, SamePlace

(* What was read is forgotten.                                             *)
LEMMA FreshStreaming ==
  ASSUME rd' = NoData, got' = <<>>, mixed' = FALSE, Standing(fmt'),
         fmt'.body = "body" /\ fmt'.entry > 0 /\ Ordered(fmt'.entry) =>
           Bare(fmt'.entry, fmt'.origin, Reach(fmt'))
  PROVE  Streaming'
<1> SUFFICES ASSUME fmt'.entry > 0, ~mixed', Ordered(fmt'.entry)
             PROVE  Copied' /\ Ahead' /\ InHand' /\ Behindhand'
  BY DEF Streaming
<1>1. /\ fmt'.origin \in Nat /\ fmt'.origin <= Reach(fmt') /\ Reach(fmt') \in Nat
      /\ Reach(fmt') <= Entries[fmt'.entry].size /\ Entries[fmt'.entry].size \in Nat
  BY ReachTypes
<1>2. rd'.remaining = 0 /\ rd'.offset = 0 /\ rd'.output = 0
  BY NoDataWindowed
<1>3. Copied'
  <2>1. Share(fmt'.entry, fmt'.origin, 0) = <<>>
    BY DEF Share
  <2> QED BY <1>2, <2>1 DEF Copied
<1>4. Bare(fmt'.entry, fmt'.origin + 0, fmt'.origin + 0)
  BY <1>1 DEF Bare
<1>5. Ahead'
  BY <1>1, <1>2, <1>4 DEF Ahead
<1>6. InHand'
  BY <1>2 DEF InHand
<1>7. fmt'.origin + 0 + 0 = fmt'.origin
  BY <1>1
<1>8. Behindhand'
  BY <1>1, <1>2, <1>7 DEF Behindhand
<1> QED BY <1>3, <1>5, <1>6, <1>8

(* A block that another call has taken.                                    *)
LEMMA TakenStreaming ==
  ASSUME Numbered, Streaming, state = "data", NEW b \in DataAnswers, FormatAnswers(b),
         mixed' = (mixed \/ b.len > 0), rd' = rd, got' = got
  PROVE  Streaming'
<1>1. /\ fmt' = b.after /\ fmt.body = "body" /\ Standing(fmt) /\ Standing(fmt')
      /\ SamePlace(fmt, fmt') /\ fmt.entry > 0
      /\ GivesData(b) \/ GivesEnd(b) \/ GivesNothing(b)
      /\ b.offset \in Nat /\ b.len \in Nat
  BY AnswerReader, InBody, Answers DEF Numbered, Moving, Walking, SamePlace
<1> SUFFICES ASSUME ~mixed', Ordered(fmt.entry)
             PROVE  Copied' /\ Ahead' /\ InHand' /\ Behindhand'
  BY <1>1 DEF Streaming, SamePlace
<1>2. b.len = 0 /\ ~mixed /\ mixed' = mixed
  <2>1. ~(b.len > 0) /\ ~mixed
    OBVIOUS
  <2>2. b.len = 0
    BY <1>1, <2>1
  <2>3. mixed' = mixed
    BY <2>1, Zenon DEF Numbered, Moving
  <2> QED BY <2>1, <2>2, <2>3
<1>3. CASE GivesData(b)
  <2>1. Copied /\ Ahead /\ InHand /\ Behindhand
    BY <1>1, <1>2 DEF Streaming
  <2>2. Copied' /\ Ahead' /\ InHand'
    BY <1>1, <2>1 DEF Copied, Ahead, InHand, SamePlace
  <2> DEFINE p == fmt.origin + rd.offset + rd.remaining
  <2>3. /\ Reach(fmt) \in Nat /\ Reach(b.after) \in Nat /\ p \in Nat
    <3>1. rd.offset \in Nat /\ rd.remaining \in Nat
      BY DEF Numbered, Moving, Windowed
    <3>2. /\ Reach(fmt) \in Nat /\ Reach(b.after) \in Nat /\ fmt.origin \in Nat
      BY <1>1, ReachTypes DEF SamePlace
    <3> QED BY <3>1, <3>2
  <2>4. p <= Reach(fmt) /\ Bare(fmt.entry, p, Reach(fmt))
    BY <1>1, <2>1 DEF Behindhand
  <2>5. Reach(fmt) <= Reach(b.after) /\ Bare(fmt.entry, Reach(fmt), Reach(b.after))
    <3>1. Reach(fmt) + b.len = Reach(fmt)
      BY <1>2, <2>3
    <3> QED BY <1>3, <3>1 DEF GivesData
  <2> HIDE DEF p
  <2>6. p <= Reach(b.after) /\ Bare(fmt.entry, p, Reach(b.after))
    BY <2>3, <2>4, <2>5, BareJoins
  <2>7. Behindhand'
    BY <1>1, <2>6 DEF Behindhand, SamePlace, p
  <2> QED BY <2>2, <2>7
<1>4. CASE GivesEnd(b) \/ (GivesNothing(b) /\ b.code # FATAL)
  <2>1. fmt' = fmt
    BY <1>1, <1>4 DEF GivesEnd, GivesNothing
  <2> QED BY <1>1, <1>2, <2>1 DEF Streaming, Copied, Ahead, InHand, Behindhand
<1>5. CASE GivesNothing(b) /\ b.code = FATAL
  <2>1. fmt'.body # "body"
    BY <1>1, <1>5, DeadStands DEF GivesNothing
  <2> QED BY <1>1, <1>2, <2>1, FadeStreaming DEF Streaming, SamePlace
<1> QED BY <1>1, <1>3, <1>4, <1>5

(* The block that archive_read_data asks for.                              *)
LEMMA RefillStreaming == Numbered /\ Streaming /\ DataRefill => Streaming'
<1> SUFFICES ASSUME Numbered, Streaming, DataRefill PROVE Streaming'
  OBVIOUS
<1>1. PICK b \in DataAnswers : FormatAnswers(b) /\ rd' = Refilled(b)
  BY DEF DataRefill
<1>2. NeedsBlock /\ state = "data" /\ got' = got /\ mixed' = mixed
  BY DEF DataRefill
<1>3. /\ fmt' = b.after /\ fmt.body = "body" /\ Standing(fmt) /\ Standing(fmt')
      /\ SamePlace(fmt, fmt') /\ fmt.entry > 0
      /\ GivesData(b) \/ GivesEnd(b) \/ GivesNothing(b)
      /\ b.offset \in Nat /\ b.len \in Nat
      /\ fmt'.body = IF b.code = FATAL THEN "dead" ELSE "body"
  BY <1>1, <1>2, AnswerReader, InBody, Answers DEF Numbered, Moving, Walking, SamePlace
<1> SUFFICES ASSUME ~mixed, Ordered(fmt.entry)
             PROVE  Copied' /\ Ahead' /\ InHand' /\ Behindhand'
  BY <1>2, <1>3 DEF Streaming, SamePlace
<1> DEFINE e == fmt.entry
           o == fmt.origin
<1>4. Copied /\ Ahead /\ InHand /\ Behindhand
  BY <1>3 DEF Streaming
<1>5. /\ rd'.output = rd.output /\ rd'.offset = b.offset /\ rd'.remaining = b.len
      /\ rd'.block = b.block
      /\ rd.output \in Nat /\ rd.offset = rd.output /\ rd.remaining = 0
  BY <1>1, <1>2, <1>3, RefilledWindowed DEF Numbered, Moving, NeedsBlock, Windowed
<1>6. Copied'
  BY <1>2, <1>3, <1>4, <1>5 DEF Copied, SamePlace
<1>7. /\ Reach(fmt) \in Nat /\ o \in Nat /\ Entries[e].size \in Nat
      /\ Reach(fmt) <= Entries[e].size /\ Reach(b.after) \in Nat
  BY <1>3, ReachTypes DEF SamePlace
<1>8. o + rd.output <= Reach(fmt) /\ Bare(e, o + rd.output, Reach(fmt))
  <2>1. o + rd.offset + rd.remaining = o + rd.output
    BY <1>5, <1>7
  <2> QED BY <1>3, <1>4, <2>1 DEF Behindhand
<1>9. CASE GivesData(b)
  <2>1. /\ o + b.offset = Reach(fmt) /\ b.block = <<e, o + b.offset>>
        /\ Reach(fmt) + b.len <= Entries[e].size
        /\ Filled(e, Reach(fmt), Reach(fmt) + b.len)
        /\ Reach(fmt) + b.len <= Reach(b.after)
        /\ Bare(e, Reach(fmt) + b.len, Reach(b.after))
    BY <1>9 DEF GivesData
  <2>2. Ahead'
    <3>1. rd.output <= b.offset
      BY <1>3, <1>5, <1>7, <1>8, <2>1
    <3> QED BY <1>3, <1>5, <1>8, <2>1, <3>1 DEF Ahead, SamePlace
  <2>3. InHand'
    BY <1>3, <1>5, <2>1 DEF InHand, SamePlace
  <2>4. Behindhand'
    BY <1>3, <1>5, <2>1 DEF Behindhand, SamePlace
  <2> QED BY <1>6, <2>2, <2>3, <2>4
<1>10. CASE GivesEnd(b)
  <2>1. /\ o + b.offset = Reach(fmt) /\ Reach(fmt) = Entries[e].size /\ b.len = 0
        /\ fmt' = fmt
    BY <1>3, <1>10 DEF GivesEnd
  <2>2. Ahead'
    <3>1. rd.output <= b.offset
      BY <1>3, <1>5, <1>7, <1>8, <2>1
    <3>2. o + b.offset + b.len <= Entries[e].size
      BY <1>3, <1>7, <2>1
    <3> QED BY <1>3, <1>5, <1>8, <2>1, <3>1, <3>2 DEF Ahead
  <2>3. InHand'
    BY <1>3, <1>5, <2>1 DEF InHand
  <2>4. Behindhand'
    <3>1. o + b.offset + b.len = Reach(fmt)
      BY <1>3, <1>7, <2>1
    <3>2. Bare(e, Reach(fmt), Reach(fmt))
      BY <1>7 DEF Bare
    <3> QED BY <1>5, <1>7, <2>1, <3>1, <3>2 DEF Behindhand
  <2> QED BY <1>6, <2>2, <2>3, <2>4
<1>11. CASE GivesNothing(b)
  <2>1. b.len = 0 /\ b.offset = rd.offset
    BY <1>11 DEF GivesNothing
  <2>2. Ahead' /\ InHand'
    BY <1>3, <1>4, <1>5, <2>1 DEF Ahead, InHand, SamePlace
  <2>3. Behindhand'
    <3>1. b.code # FATAL => fmt' = fmt
      BY <1>3, <1>11 DEF GivesNothing
    <3> QED BY <1>3, <1>4, <1>5, <2>1, <3>1 DEF Behindhand
  <2> QED BY <1>6, <2>2, <2>3
<1> QED BY <1>3, <1>9, <1>10, <1>11

(* Two lists end to end, by their elements.                                *)
IsJoined(q, s, t, n, m) ==
  /\ Listed(q, n + m)
  /\ \A i \in 1..(n + m) : q[i] = IF i <= n THEN s[i] ELSE t[i - n]

LEMMA JoinedLists ==
  ASSUME NEW n \in Nat, NEW m \in Nat, NEW s, NEW t, Listed(s, n), Listed(t, m)
  PROVE  IsJoined(s \o t, s, t, n, m)
<1>1. Len(s) = n /\ Len(t) = m
  BY ListLen
<1>2. s \o t = [i \in 1..(Len(s) + Len(t)) |-> IF i <= Len(s) THEN s[i] ELSE t[i - Len(s)]]
  BY <1>1 DEF Listed
<1>3. s \o t = [i \in 1..(n + m) |-> IF i <= n THEN s[i] ELSE t[i - n]]
  BY <1>1, <1>2
<1> QED BY <1>3 DEF Listed, IsJoined

(* A byte of a hole, and a byte of a piece of data.                        *)
LEMMA BareByte ==
  ASSUME NEW e \in 1..Len(Entries), NEW lo \in Nat, NEW hi \in Nat, Bare(e, lo, hi),
         hi <= Entries[e].size, NEW j \in (lo + 1)..hi
  PROVE  Content(e)[j] = Hole
<1>1. j - 1 \in Nat /\ j - 1 \in lo..(hi - 1) /\ j - 1 < Entries[e].size /\ (j - 1) + 1 = j
  BY EntryTypes
<1>2. ~Covered(e, j - 1)
  BY <1>1 DEF Bare
<1>3. Content(e)[(j - 1) + 1] = Hole
  BY <1>1, <1>2, ContentIs
<1> QED BY <1>1, <1>3

LEMMA FilledByte ==
  ASSUME NEW e \in 1..Len(Entries), NEW lo \in Nat, NEW hi \in Nat, Filled(e, lo, hi),
         hi <= Entries[e].size, NEW j \in (lo + 1)..hi
  PROVE  Content(e)[j] = <<e, j - 1>>
<1>1. j - 1 \in Nat /\ j - 1 \in lo..(hi - 1) /\ j - 1 < Entries[e].size /\ (j - 1) + 1 = j
  BY EntryTypes
<1>2. Covered(e, j - 1)
  BY <1>1 DEF Filled
<1>3. Content(e)[(j - 1) + 1] = <<e, j - 1>>
  BY <1>1, <1>2, ContentIs
<1> QED BY <1>1, <1>3

(* Bytes that go on with an entry where a share of it ends.                *)
GoesOn(e, o, n, m, t) ==
  Listed(t, m) /\ \A i \in 1..m : t[i] = Content(e)[o + (n + i)]

Extends(s, t, q) == s \o t = q

LEMMA ShareGrows ==
  ASSUME NEW e, NEW o \in Nat, NEW n \in Nat, NEW m \in Nat, NEW t, GoesOn(e, o, n, m, t)
  PROVE  Extends(Share(e, o, n), t, Share(e, o, n + m))
<1> DEFINE C == Content(e)
           s == Share(e, o, n)
           q == s \o t
<1>1. Listed(s, n) /\ \A i \in 1..n : s[i] = C[o + i]
  BY DEF Listed, Share
<1>3. Listed(t, m) /\ \A i \in 1..m : t[i] = C[o + (n + i)]
  BY DEF GoesOn
<1>2. IsJoined(q, s, t, n, m)
  <2>1. Listed(s, n) /\ Listed(t, m)
    BY <1>1, <1>3
  <2> HIDE DEF s
  <2> QED BY <2>1, JoinedLists, Zenon
<1> HIDE DEF C, s, q
<1>4. ASSUME NEW i \in 1..(n + m) PROVE q[i] = C[o + i]
  <2>1. CASE i <= n
    BY <1>1, <1>2, <2>1 DEF IsJoined
  <2>2. CASE ~(i <= n)
    <3>1. i - n \in 1..m /\ n + (i - n) = i
      BY <2>2
    <3>2. q[i] = t[i - n]
      BY <1>2, <2>2 DEF IsJoined
    <3>3. t[i - n] = C[o + (n + (i - n))]
      BY <1>3, <3>1
    <3> QED BY <3>1, <3>2, <3>3
  <2> QED BY <2>1, <2>2
<1>5. q = [i \in 1..(n + m) |-> C[o + i]]
  BY <1>2, <1>4 DEF Listed, IsJoined
<1> QED BY <1>5 DEF Share, C, s, q, Extends

(* What is copied continues the contents of the entry.                     *)
LEMMA ZeroesGoOn ==
  ASSUME NEW e \in 1..Len(Entries), NEW o \in Nat, NEW u \in Nat, NEW f \in Nat,
         NEW p \in Nat, u + p <= f, o + f <= Entries[e].size, Bare(e, o + u, o + f)
  PROVE  GoesOn(e, o, u, p, Zeroes(p))
<1>1. Listed(Zeroes(p), p)
  BY DEF Zeroes, Listed
<1>2. ASSUME NEW i \in 1..p PROVE Zeroes(p)[i] = Content(e)[o + (u + i)]
  <2>1. /\ o + (u + i) \in (o + u + 1)..(o + f)
        /\ o + u \in Nat /\ o + f \in Nat
    OBVIOUS
  <2>2. Content(e)[o + (u + i)] = Hole
    BY <2>1, BareByte
  <2> QED BY <2>2 DEF Zeroes
<1> QED BY <1>1, <1>2 DEF GoesOn

LEMMA PieceGoesOn ==
  ASSUME NEW e \in 1..Len(Entries), NEW o \in Nat, NEW f \in Nat, NEW c \in Nat, NEW k,
         o + f + c <= Entries[e].size,
         c > 0 => k = <<e, o + f>> /\ Filled(e, o + f, o + f + c)
  PROVE  GoesOn(e, o, f, c, Piece(k, c))
<1>1. Listed(Piece(k, c), c)
  BY DEF Piece, Listed
<1>2. ASSUME NEW i \in 1..c PROVE Piece(k, c)[i] = Content(e)[o + (f + i)]
  <2>1. k = <<e, o + f>> /\ Filled(e, o + f, o + f + c)
    OBVIOUS
  <2>2. /\ o + (f + i) \in (o + f + 1)..(o + f + c)
        /\ o + f \in Nat /\ o + f + c \in Nat
    OBVIOUS
  <2>3. Content(e)[o + (f + i)] = <<e, o + (f + i) - 1>>
    BY <2>1, <2>2, FilledByte
  <2>4. Piece(k, c)[i] = <<e, (o + f) + i - 1>>
    BY <2>1 DEF Piece
  <2>5. (o + f) + i - 1 = o + (f + i) - 1
    OBVIOUS
  <2> QED BY <2>3, <2>4, <2>5
<1> QED BY <1>1, <1>2 DEF GoesOn

LEMMA CopyContinues ==
  ASSUME NEW e \in 1..Len(Entries), NEW o \in Nat, NEW u \in Nat, NEW f \in Nat,
         NEW p \in Nat, NEW c \in Nat, NEW k,
         u + p <= f, c > 0 => p = f - u, o + f + c <= Entries[e].size,
         Bare(e, o + u, o + f),
         c > 0 => k = <<e, o + f>> /\ Filled(e, o + f, o + f + c)
  PROVE  /\ Extends(Share(e, o, u), Zeroes(p), Share(e, o, u + p))
         /\ Extends(Share(e, o, u + p), Piece(k, c), Share(e, o, (u + p) + c))
<1>1. Entries[e].size \in Nat
  BY EntryTypes
<1>2. /\ o + f <= Entries[e].size /\ u + p \in Nat
      /\ o + (u + p) + c <= Entries[e].size
  BY <1>1
<1>3. GoesOn(e, o, u, p, Zeroes(p))
  BY <1>2, ZeroesGoOn
<1>4. Extends(Share(e, o, u), Zeroes(p), Share(e, o, u + p))
  BY <1>3, ShareGrows
<1>5. c > 0 => k = <<e, o + (u + p)>> /\ Filled(e, o + (u + p), o + (u + p) + c)
  <2>1. c > 0 => u + p = f
    OBVIOUS
  <2> QED BY <2>1
<1>6. GoesOn(e, o, u + p, c, Piece(k, c))
  BY <1>2, <1>5, PieceGoesOn
<1>7. Extends(Share(e, o, u + p), Piece(k, c), Share(e, o, (u + p) + c))
  BY <1>2, <1>6, ShareGrows
<1> QED BY <1>4, <1>7

LEMMA CopyStreaming == Numbered /\ Streaming /\ DataCopy => Streaming'
<1> SUFFICES ASSUME Numbered, Streaming, DataCopy PROVE Streaming'
  OBVIOUS
<1>1. fmt' = fmt /\ mixed' = mixed
  BY DEF DataCopy
<1> SUFFICES ASSUME fmt.entry > 0, ~mixed, Ordered(fmt.entry)
             PROVE  Copied' /\ Ahead' /\ InHand' /\ Behindhand'
  BY <1>1 DEF Streaming
<1>2. InData(call) /\ Windowed(rd) /\ rd.offset >= rd.output
  BY CallOps DEF DataCopy, Numbered, Moving
<1> DEFINE p == Padding
           c == Copying
           e == fmt.entry
           o == fmt.origin
           u == rd.output
           f == rd.offset
           r == rd.remaining
<1>3. /\ p \in Nat /\ c \in Nat /\ p <= f - u /\ c <= r
      /\ c > 0 => p = f - u
  BY <1>2, CopySizes
<1>4. /\ rd' = [remaining |-> r - c, offset |-> f + c, output |-> u + p + c,
                block |-> Further(rd.block, c)]
      /\ got' = got \o Zeroes(p) \o Piece(rd.block, c)
  BY DEF DataCopy
<1>5. Copied /\ Ahead /\ InHand /\ Behindhand
  BY DEF Streaming
<1>6. /\ e \in 1..Len(Entries) /\ o \in Nat /\ u \in Nat /\ f \in Nat /\ r \in Nat
      /\ Entries[e].size \in Nat /\ Reach(fmt) \in Nat
  BY <1>2, ReachTypes DEF Numbered, Walking, Windowed
<1>7. /\ o + f + r <= Entries[e].size /\ Bare(e, o + u, o + f) /\ u <= f
      /\ got = Share(e, o, u)
  BY <1>5 DEF Ahead, Copied
<1>8. r > 0 => rd.block = <<e, o + f>> /\ Filled(e, o + f, o + f + r)
  BY <1>5 DEF InHand
<1>9. /\ rd'.remaining = r - c /\ rd'.offset = f + c /\ rd'.output = u + p + c
      /\ rd'.block = Further(rd.block, c)
  <2> HIDE DEF p, c
  <2> QED BY <1>4
<1>e. fmt.entry = e /\ fmt.origin = o
  OBVIOUS
<1>b. fmt.body = "body" => o + f + r <= Reach(fmt) /\ Bare(e, o + f + r, Reach(fmt))
  BY <1>5 DEF Behindhand
<1> HIDE DEF p, c, e, o, u, f, r
<1>10. u + p <= f /\ o + f + c <= Entries[e].size /\ r - c \in Nat
  <2>1. u + p <= f
    BY <1>3, <1>6
  <2>2. o + f + c <= o + f + r
    BY <1>3, <1>6
  <2>3. o + f + r <= Entries[e].size
    BY <1>7
  <2>4. o + f + c <= Entries[e].size
    BY <1>3, <1>6, <2>2, <2>3
  <2>5. r - c \in Nat
    BY <1>3, <1>6
  <2> QED BY <2>1, <2>4, <2>5
<1>11. c > 0 => /\ rd.block = <<e, o + f>> /\ Filled(e, o + f, o + f + c)
                /\ Filled(e, o + (f + c), o + (f + c) + (r - c))
  <2> SUFFICES ASSUME c > 0
               PROVE  /\ rd.block = <<e, o + f>> /\ Filled(e, o + f, o + f + c)
                      /\ Filled(e, o + (f + c), o + (f + c) + (r - c))
    OBVIOUS
  <2>1. rd.block = <<e, o + f>> /\ Filled(e, o + f, o + f + r)
    BY <1>3, <1>6, <1>8
  <2>2. Filled(e, o + f, o + f + c)
    BY <1>3, <1>6, <2>1 DEF Filled
  <2>3. Filled(e, o + (f + c), o + (f + c) + (r - c))
    BY <1>3, <1>6, <2>1 DEF Filled
  <2> QED BY <2>1, <2>2, <2>3
<1>12. Copied'
  <2>1. got' = Share(e, o, u + p + c)
    <3> DEFINE k == rd.block
    <3>0. c > 0 => k = <<e, o + f>> /\ Filled(e, o + f, o + f + c)
      BY <1>11
    <3> HIDE DEF k
    <3>1. /\ Extends(Share(e, o, u), Zeroes(p), Share(e, o, u + p))
          /\ Extends(Share(e, o, u + p), Piece(k, c), Share(e, o, (u + p) + c))
      BY <1>3, <1>6, <1>7, <1>10, <3>0, CopyContinues
    <3> QED BY <1>4, <1>7, <3>1, Zenon DEF k, Extends
  <2> QED BY <1>1, <1>9, <1>e, <2>1 DEF Copied
<1>13. Ahead'
  <2>0. u \in Nat /\ p \in Nat /\ c \in Nat /\ f \in Nat /\ o \in Nat
    BY <1>3, <1>6
  <2>1. u + p + c <= f + c
    <3>1. u + p <= f
      BY <1>10
    <3> QED BY <2>0, <3>1
  <2>2. o + (f + c) + (r - c) <= Entries[e].size
    BY <1>3, <1>6, <1>7
  <2>3. Bare(e, o + (u + p + c), o + (f + c))
    <3>1. CASE c = 0
      BY <1>3, <1>6, <1>7, <3>1 DEF Bare
    <3>2. CASE c > 0
      <4>0. p = f - u
        BY <1>3, <3>2
      <4>1. o + (u + p + c) = o + (f + c)
        BY <2>0, <4>0
      <4> QED BY <1>3, <1>6, <4>1 DEF Bare
    <3> QED BY <1>3, <3>1, <3>2
  <2> QED BY <1>1, <1>9, <1>e, <2>1, <2>2, <2>3 DEF Ahead
<1>14. InHand'
  <2>1. CASE c = 0
    <3>1. r > 0 => /\ Further(rd.block, c) = <<e, o + (f + c)>>
                   /\ Filled(e, o + (f + c), o + (f + c) + (r - c))
      <4>1. f + c = f /\ r - c = r
        BY <1>6, <2>1
      <4>2. r > 0 => Further(rd.block, 0) = <<e, o + f>>
        BY <1>6, <1>8 DEF Further
      <4> QED BY <1>8, <2>1, <4>1, <4>2
    <3> QED BY <1>1, <1>6, <1>9, <1>e, <2>1, <3>1 DEF InHand
  <2>2. CASE c > 0
    <3>1. Further(rd.block, c) = <<e, o + (f + c)>>
      BY <1>3, <1>6, <1>11, <2>2 DEF Further
    <3> QED BY <1>1, <1>9, <1>11, <1>e, <2>2, <3>1 DEF InHand
  <2> QED BY <1>3, <2>1, <2>2
<1>15. Behindhand'
  <2>1. o + (f + c) + (r - c) = o + f + r
    BY <1>3, <1>6
  <2> QED BY <1>1, <1>9, <1>b, <1>e, <2>1 DEF Behindhand
<1> QED BY <1>12, <1>13, <1>14, <1>15

(* A reader that fails for good stands where it stood.                     *)
LEMMA Faded ==
  ASSUME Shaped(fmt), NEW k \in {"header", "left", "dead"}, fmt' = [fmt EXCEPT !.body = k]
  PROVE  SamePlace(fmt, fmt') /\ fmt'.body # "body"
BY DEF Shaped, SamePlace

LEMMA NextStreaming == Numbered /\ Streaming /\ [Next]_vars => Streaming'
<1> SUFFICES ASSUME Numbered, Streaming, [Next]_vars PROVE Streaming'
  OBVIOUS
<1>0. Standing(fmt) /\ Standing(fmt') /\ Control /\ Shaped(fmt) /\ Walking
  BY NextWalking DEF Numbered, Walking, Control
<1>1. ASSUME Refuse PROVE Streaming'
  BY <1>1, RefuseStreaming
<1>2. ASSUME fmt' = fmt, UNCHANGED dataVars PROVE Streaming'
  BY <1>2, KeepsStreaming DEF dataVars
<1>3. ASSUME NEW k \in {"header", "left", "dead"}, fmt' = [fmt EXCEPT !.body = k],
             UNCHANGED dataVars
      PROVE  Streaming'
  BY <1>0, <1>3, Faded, FadeStreaming DEF dataVars
<1>4. CASE NextHeader
  <2>1. CASE SkipFatal
    <3>1. fmt' = [fmt EXCEPT !.body = "dead"] /\ UNCHANGED dataVars
      BY <2>1, FatalSkip DEF SkipFatal
    <3> QED BY <1>3, <3>1
  <2>2. ASSUME NEW r1, NEW f, Ready(f), NEW r2 \in HeaderCodes, HeaderEnds(r1, f, r2)
        PROVE  Streaming'
    <3>1. fmt' = HeaderRead(f, r2) /\ rd' = NoData /\ got' = <<>> /\ mixed' = FALSE
      BY <2>2 DEF HeaderEnds
    <3>2. CASE fmt.entry # Len(Entries) /\ fmt' = NewBody(fmt)
      <4>1. /\ fmt'.entry = fmt.entry + 1 /\ fmt'.origin = 0
            /\ Ordered(fmt.entry + 1) => Bare(fmt.entry + 1, 0, Reach(fmt'))
        BY <1>0, <3>2, NewBodyStands
      <4> QED BY <1>0, <3>1, <4>1, FreshStreaming
    <3>3. ASSUME NEW k \in {"header", "dead"}, fmt' = [fmt EXCEPT !.body = k]
          PROVE  Streaming'
      BY <1>0, <3>1, <3>3, Faded, FreshStreaming
    <3> QED BY <1>0, <2>2, <3>1, <3>2, <3>3, HeaderReads
  <2> QED BY <1>0, <1>1, <1>4, <2>1, <2>2, HeaderWays
<1>5. CASE DataSkip
  <2>1. Refuse \/ (UNCHANGED dataVars /\ \E r \in SkipCodes : fmt' \in Skipped(r))
    BY <1>5 DEF DataSkip
  <2>2. \/ Refuse
        \/ /\ UNCHANGED dataVars
           /\ \E k \in {"header", "left", "dead"} : fmt' = [fmt EXCEPT !.body = k]
    BY <2>1, SkipLeaves
  <2> QED BY <1>1, <1>3, <2>2
<1>6. CASE DataBlock
  <2>1. \/ Refuse
        \/ state = "data" /\ \E b \in DataAnswers :
             /\ FormatAnswers(b) /\ mixed' = (mixed \/ b.len > 0)
             /\ rd' = rd /\ got' = got
    BY <1>6 DEF DataBlock
  <2> QED BY <1>1, <2>1, TakenStreaming
<1>7. CASE SeekData
  <2>1. ASSUME state = "data", Seekable, NEW k \in 0..Entry.size, Restart(k)
        PROVE  Streaming'
    <3>1. fmt.body = "body"
      BY <1>0, <2>1, InBody
    <3>2. /\ fmt' = Placed(k) /\ rd' = NoData /\ got' = <<>> /\ mixed' = FALSE
      BY <2>1 DEF Restart
    <3>3. /\ fmt'.entry = fmt.entry /\ fmt'.origin = k
          /\ Bare(fmt.entry, k, Reach(fmt'))
      BY <1>0, <2>1, <3>1, <3>2, PlacedStands
    <3> QED BY <1>0, <3>2, <3>3, FreshStreaming
  <2>2. ASSUME NEW c, SeekFails(c)
        PROVE  Streaming'
    <3>1. fmt' = [fmt EXCEPT !.body = "dead"] \/ fmt' = [fmt EXCEPT !.body = @]
      BY <2>2 DEF SeekFails
    <3>2. [fmt EXCEPT !.body = @] = fmt
      BY <1>0 DEF Shaped
    <3> QED BY <1>2, <1>3, <2>2, <3>1, <3>2 DEF SeekFails
  <2> QED BY <1>1, <1>7, <2>1, <2>2 DEF SeekData
<1>8. CASE DataRefill
  BY <1>8, RefillStreaming
<1>9. CASE DataCopy
  BY <1>9, CopyStreaming
<1>10. CASE FdNext
  <2>1. /\ state = "data" /\ rd' = rd /\ got' = got
        /\ \E b \in DataAnswers : FormatAnswers(b) /\ mixed' = (mixed \/ b.len > 0)
    BY <1>0, <1>10 DEF FdNext, Control, Running
  <2> QED BY <2>1, TakenStreaming
<1>11. CASE Open \/ BeginFd
  <2>1. Refuse \/ (fmt' = fmt /\ UNCHANGED dataVars)
    BY <1>11 DEF Open, OpenerFails, NoMemory, NoFilter, NoFormat, Opened, OpenEnds, BeginFd
  <2> QED BY <1>1, <1>2, <2>1
<1>12. CASE \/ \E s \in Requests : BeginData(s)
            \/ DataRefused \/ DataOutOfOrder \/ FdWrite \/ FdOverrun \/ Close \/ Free
            \/ UNCHANGED vars
  <2>1. fmt' = fmt /\ UNCHANGED dataVars
    BY <1>12 DEF BeginData, DataRefused, DataOutOfOrder, FdWrite, FdOverrun, Close, Free,
       vars, dataVars
  <2> QED BY <1>2, <2>1
<1> QED BY <1>4, <1>5, <1>6, <1>7, <1>8, <1>9, <1>10, <1>11, <1>12
        DEF Next, DataStep, FdStep

-----------------------------------------------------------------------------
(* The file behind the descriptor.                                         *)

FileTypes == fdpos \in Nat /\ FileBehind

LEMMA BehindIsHole ==
  ASSUME FileTypes, NEW q \in Nat, q > fdpos
  PROVE  View(file, q) = Hole
BY DEF FileTypes, FileBehind, View

(* A write changes nothing before the descriptor.                          *)
LEMMA WriteShows ==
  ASSUME FileTypes, NEW m \in Nat, NEW bytes, Listed(bytes, m), Write(bytes)
  PROVE  /\ fdpos' = fdpos + m /\ FileTypes'
         /\ \A q \in 1..fdpos : View(file', q) = View(file, q)
         /\ \A i \in 1..m : View(file', fdpos + i) = bytes[i]
<1> DEFINE l == Len(file)
<1>1. Len(bytes) = m
  BY ListLen
<1>2. l \in Nat /\ l <= fdpos /\ fdpos \in Nat
  BY DEF FileTypes, FileBehind
<1>3. fdpos' = fdpos + m /\ file' = Written(bytes)
  BY <1>1 DEF Write
<1>4. maximum(l, fdpos + m) = fdpos + m
  BY <1>2 DEF maximum
<1>5. file' = [i \in 1..(fdpos + m) |->
                 IF i \in (fdpos + 1)..(fdpos + m) THEN bytes[i - fdpos]
                 ELSE IF i <= l THEN file[i] ELSE Hole]
  BY <1>1, <1>3, <1>4 DEF Written
<1> HIDE DEF l
<1>6. Listed(file', fdpos + m) /\ Len(file') = fdpos + m
  <2>1. Listed(file', fdpos + m)
    BY <1>5 DEF Listed
  <2>2. fdpos + m \in Nat
    BY <1>2
  <2> QED BY <2>1, <2>2, ListLen
<1>7. FileTypes'
  <2>1. fdpos' \in Nat /\ Len(file') \in 0..fdpos'
    BY <1>2, <1>3, <1>6
  <2>2. Listed(file', Len(file'))
    BY <1>6
  <2> QED BY <2>1, <2>2 DEF FileTypes, FileBehind
<1>8. ASSUME NEW q \in 1..fdpos PROVE View(file', q) = View(file, q)
  <2>1. q \in 1..(fdpos + m) /\ q \notin (fdpos + 1)..(fdpos + m)
    BY <1>2
  <2>2. View(file', q) = file'[q]
    BY <1>2, <1>6 DEF View
  <2>3. file'[q] = IF q <= l THEN file[q] ELSE Hole
    BY <1>5, <2>1
  <2> QED BY <2>2, <2>3 DEF View, l
<1>9. ASSUME NEW i \in 1..m PROVE View(file', fdpos + i) = bytes[i]
  <2>1. /\ fdpos + i \in 1..(fdpos + m) /\ fdpos + i \in (fdpos + 1)..(fdpos + m)
        /\ (fdpos + i) - fdpos = i
    BY <1>2
  <2>2. View(file', fdpos + i) = file'[fdpos + i]
    BY <1>2, <1>6 DEF View
  <2>3. file'[fdpos + i] = bytes[(fdpos + i) - fdpos]
    BY <1>5, <2>1
  <2> QED BY <2>1, <2>2, <2>3
<1> QED BY <1>3, <1>7, <1>8, <1>9

(* Padding leaves what the file shows alone, whether it seeks or writes.   *)
LEMMA PadShows ==
  ASSUME FileTypes, InFd(call), NEW t \in Nat, PadTo(t)
  PROVE  /\ FileTypes' /\ fdpos <= fdpos'
         /\ fdpos' = IF t <= call.actual THEN fdpos ELSE fdpos + (t - call.actual)
         /\ \A q \in 1..fdpos' : View(file', q) = View(file, q)
<1>0. call.actual \in Nat /\ fdpos \in Nat /\ fdpos' \in Nat
      /\ fdpos' = IF t <= call.actual THEN fdpos ELSE fdpos + (t - call.actual)
  BY PadMoves DEF InFd, FileTypes
<1>1. fdpos <= fdpos'
  BY <1>0
<1>2. CASE file' = file
  <2>1. FileTypes'
    BY <1>0, <1>1, <1>2 DEF FileTypes, FileBehind
  <2> QED BY <1>0, <1>1, <1>2, <2>1
<1>3. CASE file' # file
  <2>1. t > call.actual /\ Write(Zeroes(t - call.actual))
    BY <1>0, <1>3 DEF PadTo, fdVars
  <2> DEFINE m == t - call.actual
  <2>2. m \in Nat /\ Listed(Zeroes(m), m)
    BY <1>0, <2>1 DEF Zeroes, Listed
  <2>a. Write(Zeroes(m))
    BY <2>1
  <2> HIDE DEF m
  <2>3. /\ fdpos' = fdpos + m /\ FileTypes'
        /\ \A q \in 1..fdpos : View(file', q) = View(file, q)
        /\ \A i \in 1..m : View(file', fdpos + i) = Zeroes(m)[i]
    BY <2>2, <2>a, WriteShows
  <2>4. ASSUME NEW q \in 1..fdpos', q > fdpos PROVE View(file', q) = View(file, q)
    <3>1. q - fdpos \in 1..m /\ fdpos + (q - fdpos) = q /\ q \in Nat
      BY <1>0, <2>2, <2>3, <2>4
    <3>2. View(file', q) = Zeroes(m)[q - fdpos]
      BY <2>3, <3>1
    <3>3. Zeroes(m)[q - fdpos] = Hole
      BY <3>1 DEF Zeroes
    <3> QED BY <2>4, <3>1, <3>2, <3>3, BehindIsHole
  <2>5. ASSUME NEW q \in 1..fdpos' PROVE View(file', q) = View(file, q)
    <3>1. q <= fdpos => q \in 1..fdpos
      BY <1>0
    <3>2. q <= fdpos \/ q > fdpos
      BY <1>0
    <3> QED BY <2>3, <2>4, <3>1, <3>2
  <2> QED BY <1>0, <1>1, <2>3, <2>5
<1> QED BY <1>2, <1>3

(* Nor does padding that breaks off spoil the file.                        *)
LEMMA BreakShows ==
  ASSUME FileTypes, InFd(call), NEW t \in Nat, PadBreaks(t)
  PROVE  FileTypes'
<1>1. PICK n \in 0..(t - call.actual - 1) : Write(Zeroes(n))
  BY DEF PadBreaks
<1>2. n \in Nat /\ Listed(Zeroes(n), n)
  BY <1>1 DEF InFd, Zeroes, Listed
<1> QED BY <1>1, <1>2, WriteShows

LEMMA QuietWriting ==
  ASSUME FileTypes, UNCHANGED <<file, fdpos>>, call'.op # "fd"
  PROVE  Writing'
BY DEF Writing, FileTypes, FileBehind

LEMMA EndedWriting ==
  ASSUME FileTypes', call'.op # "fd"
  PROVE  Writing'
BY DEF Writing, FileTypes

(* A copy that begins.                                                     *)
LEMMA BeginFdWriting == Numbered /\ Writing /\ BeginFd => Writing'
<1> SUFFICES ASSUME Numbered, Writing, BeginFd PROVE Writing'
  OBVIOUS
<1>0. FileTypes /\ call = Idle /\ Idle.op # "fd"
  BY DEF Numbered, Moving, Writing, FileTypes, BeginFd, Starts, Idle
<1>1. CASE Refuse
  BY <1>0, <1>1, QuietWriting DEF Refuse, fdVars
<1>2. CASE ~Refuse
  <2>1. /\ call' = [op |-> "fd", base |-> fdpos, actual |-> 0, left |-> 0,
                    block |-> Hole, over |-> FALSE,
                    whole |-> fmt.extent = 1 /\ fmt.used = 0 /\ fmt.origin = 0]
        /\ fmt' = fmt /\ file' = file /\ fdpos' = fdpos /\ declared' = declared
        /\ state = "data"
    BY <1>2 DEF BeginFd, fdVars, entryVars
  <2>2. /\ call'.base = fdpos /\ call'.actual = 0 /\ call'.left = 0
        /\ call'.whole = (fmt.extent = 1 /\ fmt.used = 0 /\ fmt.origin = 0)
    BY <2>1
  <2>3. /\ fmt.entry \in 1..Len(Entries) /\ fmt.origin \in Nat /\ fmt.origin <= Reach(fmt)
        /\ Reach(fmt) \in Nat
    BY <2>1, InBody, ReachTypes DEF Numbered, Walking
  <2>4. Within'
    <3>1. fdpos = fdpos + 0 /\ (declared >= 0 => 0 + 0 <= declared)
          /\ fmt.origin + 0 + 0 <= Reach(fmt)
      BY <1>0, <2>3 DEF Numbered, Counting, FileTypes
    <3> QED BY <2>1, <2>2, <3>1 DEF Within
  <2>5. ASSUME Ordered(fmt.entry), call'.whole PROVE Whole'
    <3>1. fmt.extent = 1 /\ fmt.used = 0 /\ fmt.origin = 0
      BY <2>2, <2>5
    <3>2. Bare(fmt.entry, 0, Reach(fmt))
      <4>1. CASE 1 <= Pieces(fmt.entry)
        <5>1. Reach(fmt) = Start(fmt.entry, 1)
          <6>1. Start(fmt.entry, 1) \in Nat
            BY <2>3, <4>1, EntryTypes, SpanTypes
          <6> QED BY <3>1, <4>1, <6>1 DEF Reach
        <5> QED BY <2>3, <2>5, <4>1, <5>1, FirstGap
      <4>2. CASE ~(1 <= Pieces(fmt.entry))
        <5>1. Reach(fmt) = Entries[fmt.entry].size
          BY <3>1, <4>2 DEF Reach
        <5> QED BY <2>3, <2>5, <4>2, <5>1, FirstGap
      <4> QED BY <4>1, <4>2
    <3>3. Bare(fmt.entry, 0 + 0, Reach(fmt))
      BY <3>2
    <3> QED BY <2>1, <2>2, <3>1, <3>3 DEF Whole
  <2>6. FileBehind'
    BY <1>0, <2>1 DEF FileTypes, FileBehind
  <2> QED BY <2>1, <2>4, <2>5, <2>6 DEF Writing
<1> QED BY <1>1, <1>2

(* Bytes of the block, written at the descriptor.                          *)
LEMMA FdWriteWriting == Numbered /\ Writing /\ FdWrite => Writing'
<1> SUFFICES ASSUME Numbered, Writing, FdWrite PROVE Writing'
  OBVIOUS
<1>0. FileTypes /\ InFd(call) /\ fmt' = fmt /\ declared' = declared /\ Idle.op # "fd"
  BY CallOps DEF Numbered, Moving, Writing, FileTypes, FdWrite, entryVars, Idle
<1>1. CASE call' = Idle /\ UNCHANGED fdVars
  BY <1>0, <1>1, QuietWriting DEF fdVars
<1>2. ASSUME NEW n \in 1..call.left, Write(Piece(call.block, n)),
             call' = [call EXCEPT !.actual = @ + n, !.left = @ - n,
                                  !.block = Further(@, n)]
      PROVE  Writing'
  <2> DEFINE k == call.block
             e == fmt.entry
             a == call.actual
             l == call.left
             base == call.base
  <2>1. n \in Nat /\ n <= l /\ a \in Nat /\ l \in Nat /\ base \in Nat /\ fdpos \in Nat
    BY <1>0, <1>2 DEF InFd, FileTypes
  <2>2. /\ call'.op = "fd" /\ call'.base = base /\ call'.actual = a + n
        /\ call'.left = l - n /\ call'.block = Further(k, n)
        /\ call'.over = call.over /\ call'.whole = call.whole
    BY <1>0, <1>2 DEF InFd
  <2>3. Listed(Piece(k, n), n) /\ \A i \in 1..n : Piece(k, n)[i] = <<k[1], k[2] + i - 1>>
    BY DEF Listed, Piece
  <2>4. Write(Piece(k, n))
    BY <1>2
  <2>e. fmt.entry = e /\ call.actual = a /\ call.left = l /\ call.base = base
        /\ call.block = k
    OBVIOUS
  <2> HIDE DEF k, e, a, l, base
  <2>5. /\ fdpos' = fdpos + n /\ FileTypes'
        /\ \A q \in 1..fdpos : View(file', q) = View(file, q)
        /\ \A i \in 1..n : View(file', fdpos + i) = Piece(k, n)[i]
    BY <1>0, <2>1, <2>3, <2>4, WriteShows
  <2> SUFFICES ASSUME Ordered(e) PROVE Within' /\ (call.whole => Whole')
    BY <1>0, <2>2, <2>5, <2>e DEF Writing, FileTypes
  <2>6. Within /\ (call.whole => Whole)
    BY <1>0, <2>e DEF Writing, InFd
  <2>7. /\ fdpos = base + a
        /\ declared >= 0 => a + l <= declared
        /\ ~call.over => fmt.origin + a + l <= Reach(fmt)
    BY <2>6, <2>e DEF Within
  <2>8. Within'
    <3>1. fdpos' = base + (a + n) /\ (a + n) + (l - n) = a + l
      BY <2>1, <2>5, <2>7
    <3>2. fmt.origin \in Nat
      BY DEF Numbered, Walking, Standing, Readers
    <3>3. fmt.origin + (a + n) + (l - n) = fmt.origin + a + l
      BY <2>1, <3>2
    <3> QED BY <1>0, <2>2, <2>7, <3>1, <3>3 DEF Within
  <2>9. ASSUME call.whole PROVE Whole'
    <3>1. /\ fmt.origin = 0
          /\ \A i \in 1..a : Content(e)[i] = View(file, base + i)
          /\ k = <<e, a>> /\ Filled(e, a, a + l) /\ a + l <= Entries[e].size
          /\ ~call.over => Bare(e, a + l, Reach(fmt))
      BY <2>1, <2>6, <2>9, <2>e DEF Whole
    <3>2. e \in 1..Len(Entries)
      BY <1>0, InBody, <2>e DEF Numbered, Control, Running, InFd
    <3>3. ASSUME NEW i \in 1..(a + n) PROVE Content(e)[i] = View(file', base + i)
      <4>1. CASE i <= a
        <5>1. i \in 1..a /\ base + i \in 1..fdpos
          BY <2>1, <2>7, <4>1
        <5> QED BY <2>5, <3>1, <5>1
      <4>2. CASE ~(i <= a)
        <5>1. i - a \in 1..n /\ fdpos + (i - a) = base + i /\ i \in (a + 1)..(a + l)
              /\ a + l \in Nat
          BY <2>1, <2>7, <4>2
        <5>2. Content(e)[i] = <<e, i - 1>>
          BY <2>1, <3>1, <3>2, <5>1, FilledByte
        <5>3. View(file', base + i) = <<k[1], k[2] + (i - a) - 1>>
          BY <2>3, <2>5, <5>1
        <5>4. k[1] = e /\ k[2] = a /\ a + (i - a) - 1 = i - 1
          BY <2>1, <3>1, <5>1
        <5> QED BY <5>2, <5>3, <5>4
      <4> QED BY <4>1, <4>2
    <3>4. /\ Further(k, n) = <<e, a + n>> /\ Filled(e, a + n, (a + n) + (l - n))
          /\ (a + n) + (l - n) <= Entries[e].size
      <4>1. (a + n) + (l - n) = a + l
        BY <2>1
      <4>2. Filled(e, a + n, a + l)
        BY <2>1, <3>1, FilledPart
      <4> QED BY <3>1, <4>1, <4>2 DEF Further
    <3>5. ~call.over => Bare(e, (a + n) + (l - n), Reach(fmt))
      <4>1. (a + n) + (l - n) = a + l
        BY <2>1
      <4> QED BY <3>1, <4>1
    <3> QED BY <1>0, <2>2, <2>e, <3>1, <3>3, <3>4, <3>5 DEF Whole
  <2> QED BY <2>8, <2>9
<1> QED BY <1>1, <1>2 DEF FdWrite, FdEnds

(* A block that is cut and padded to, and the end of the entry: where the  *)
(* copy stands afterwards, and what the file shows of the entry.           *)
LEMMA FdPads ==
  ASSUME Numbered, Writing, call.op = "fd", call.left = 0, ~call.over,
         Ordered(fmt.entry), NEW b, b.offset \in Nat, b.len \in Nat,
         fmt.origin + b.offset = Reach(fmt), NEW t, t = Clipped(b.offset),
         PadTo(t) \/ UNCHANGED fdVars
  PROVE  /\ FileTypes' /\ t \in Nat /\ call.actual \in Nat /\ call.base \in Nat
         /\ call.actual <= t /\ t <= b.offset
         /\ PadTo(t) => fdpos' = call.base + t
         /\ call.whole /\ PadTo(t) =>
              /\ fmt.origin = 0
              /\ \A i \in 1..t : Content(fmt.entry)[i] = View(file', call.base + i)
<1> DEFINE e == fmt.entry
           a == call.actual
           base == call.base
<1>0. FileTypes /\ InFd(call) /\ Within /\ (call.whole => Whole)
  BY CallOps DEF Numbered, Moving, Writing, FileTypes
<1>1. /\ a \in Nat /\ base \in Nat /\ fdpos \in Nat /\ declared \in Nat \cup {-1}
      /\ fmt.origin \in Nat
  BY <1>0 DEF InFd, FileTypes, Numbered, Counting, Walking, Standing, Readers
<1>2. e \in 1..Len(Entries) /\ Reach(fmt) \in Nat /\ Reach(fmt) <= Entries[e].size
      /\ Entries[e].size \in Nat
  BY InBody, ReachTypes DEF Numbered, Control, Running, Walking
<1>3. /\ fdpos = base + a
      /\ declared >= 0 => a + 0 <= declared
      /\ fmt.origin + a + 0 <= Reach(fmt)
  BY <1>0 DEF Within
<1>4. t \in Nat /\ t <= b.offset /\ (declared >= 0 => t = minimum(b.offset, declared))
      /\ (~(declared >= 0) => t = b.offset)
  BY <1>1, CutSizes DEF Clipped
<1>5. a <= t
  <2>1. a <= b.offset
    BY <1>1, <1>3
  <2>2. CASE declared >= 0
    BY <1>1, <1>3, <1>4, <2>1, <2>2 DEF minimum
  <2>3. CASE ~(declared >= 0)
    BY <1>4, <2>1, <2>3
  <2> QED BY <2>2, <2>3
<1>6. FileTypes'
  <2>1. CASE PadTo(t)
    BY <1>0, <1>4, <2>1, PadShows
  <2>2. CASE UNCHANGED fdVars
    BY <1>0, <2>2 DEF fdVars, FileTypes, FileBehind
  <2> QED BY <2>1, <2>2
<1>7. ASSUME PadTo(t)
      PROVE  /\ fdpos' = base + t
             /\ \A q \in 1..fdpos' : View(file', q) = View(file, q)
  <2>1. /\ fdpos' = IF t <= call.actual THEN fdpos ELSE fdpos + (t - call.actual)
        /\ \A q \in 1..fdpos' : View(file', q) = View(file, q)
    BY <1>0, <1>4, <1>7, PadShows
  <2>2. fdpos' = base + t
    BY <1>1, <1>3, <1>4, <1>5, <2>1
  <2> QED BY <2>1, <2>2
<1>8. ASSUME call.whole, PadTo(t)
      PROVE  /\ fmt.origin = 0
             /\ \A i \in 1..t : Content(e)[i] = View(file', base + i)
  <2>1. /\ fmt.origin = 0
        /\ \A i \in 1..a : Content(e)[i] = View(file, base + i)
        /\ Bare(e, a + 0, Reach(fmt))
    BY <1>0, <1>8 DEF Whole
  <2>e. fmt.entry = e /\ call.actual = a /\ call.base = base
    OBVIOUS
  <2> HIDE DEF e, a, base
  <2>2. ASSUME NEW i \in 1..t PROVE Content(e)[i] = View(file', base + i)
    <3>1. base + i \in 1..fdpos' /\ base + i \in Nat
      BY <1>1, <1>4, <1>7, <1>8
    <3>2. View(file', base + i) = View(file, base + i)
      BY <1>7, <1>8, <3>1
    <3>3. CASE i <= a
      <4>1. i \in 1..a
        BY <3>3
      <4> QED BY <2>1, <3>2, <4>1
    <3>4. CASE ~(i <= a)
      <4>1. base + i > fdpos
        BY <1>1, <1>3, <3>4
      <4>2. View(file, base + i) = Hole
        BY <1>0, <3>1, <4>1, BehindIsHole
      <4>3. i \in (a + 1)..Reach(fmt) /\ Bare(e, a, Reach(fmt))
        <5>1. i <= Reach(fmt)
          BY <1>1, <1>2, <1>4, <2>1
        <5>2. a + 0 = a
          BY <1>1
        <5> QED BY <1>1, <1>2, <2>1, <3>4, <5>1, <5>2
      <4>4. Content(e)[i] = Hole
        BY <1>1, <1>2, <4>3, BareByte
      <4> QED BY <3>2, <4>2, <4>4
    <3> QED BY <3>3, <3>4
  <2> QED BY <2>1, <2>2
<1> QED BY <1>1, <1>4, <1>5, <1>6, <1>7, <1>8

LEMMA FdNextWriting == Numbered /\ Writing /\ FdNext => Writing' /\ FdPromise'
<1> SUFFICES ASSUME Numbered, Writing, FdNext PROVE Writing' /\ FdPromise'
  OBVIOUS
<1>1. PICK b \in DataAnswers :
        /\ FormatAnswers(b)
        /\ \/ FdBlock(b)
           \/ FdLast(b)
           \/ b.code < OK /\ FdEnds(b.code) /\ UNCHANGED fdVars
  BY DEF FdNext
<1>2. /\ call.op = "fd" /\ call.left = 0 /\ ~call.over /\ declared' = declared
      /\ state = "data" /\ InFd(call) /\ FileTypes /\ reply.op = "none"
  BY CallOps DEF FdNext, entryVars, Numbered, Moving, Control, Running, Writing, FileTypes
<1>3. /\ fmt' = b.after /\ fmt.body = "body" /\ SamePlace(fmt, fmt') /\ fmt.entry > 0
      /\ GivesData(b) \/ GivesEnd(b) \/ GivesNothing(b)
      /\ b.offset \in Nat /\ b.len \in Nat /\ Standing(fmt) /\ Standing(fmt')
  BY <1>1, <1>2, AnswerReader, InBody, Answers
     DEF Numbered, Moving, Walking, SamePlace
<1>4. Idle.op # "fd" /\ reply.op # "fd"
  BY <1>2 DEF Idle
<1> DEFINE t == Clipped(b.offset)
           z == Clipped(b.offset + b.len) - t
           e == fmt.entry
           o == fmt.origin
           a == call.actual
           base == call.base
<1>5. /\ e \in 1..Len(Entries) /\ o \in Nat /\ Entries[e].size \in Nat
      /\ Reach(fmt) \in Nat /\ Reach(fmt') \in Nat /\ Reach(fmt) <= Entries[e].size
      /\ fmt'.entry = e /\ fmt'.origin = o
  BY <1>3, ReachTypes DEF SamePlace
<1>6. declared \in Nat \cup {-1}
  BY DEF Numbered, Counting
<1>7. CASE FdBlock(b)
  <2>1. b.code = OK /\ (PadTo(t) \/ PadBreaks(t))
    BY <1>7 DEF FdBlock
  <2>2. GivesData(b)
    BY <1>3, <2>1, CodeValues DEF GivesEnd, GivesNothing
  <2>3. /\ o + b.offset = Reach(fmt)
        /\ b.block = <<e, o + b.offset>>
        /\ Reach(fmt) + b.len <= Entries[e].size
        /\ Filled(e, Reach(fmt), Reach(fmt) + b.len)
        /\ Ordered(e) =>
             /\ Reach(fmt) + b.len <= Reach(fmt')
             /\ Bare(e, Reach(fmt) + b.len, Reach(fmt'))
    BY <1>3, <2>2 DEF GivesData
  <2>4. FileTypes'
    <3>1. CASE PadTo(t)
      BY <1>2, <1>3, <1>6, <3>1, CutSizes, PadShows
    <3>2. CASE PadBreaks(t)
      BY <1>2, <1>3, <1>6, <3>2, CutSizes, BreakShows
    <3> QED BY <2>1, <3>1, <3>2
  <2>5. CASE call' = Idle
    <3>1. Writing'
      BY <1>4, <2>4, <2>5, EndedWriting
    <3>2. reply'.code = FATAL \/ reply' = reply
      BY <1>7 DEF FdBlock, FdEnds
    <3>3. FdPromise'
      BY <1>4, <3>2, CodeValues DEF FdPromise, FdFaithful
    <3> QED BY <3>1, <3>3
  <2>6. CASE call' # Idle
    <3>1. /\ call' = [call EXCEPT !.actual = maximum(@, t), !.left = z, !.block = b.block,
                                  !.over = b.offset + b.len # t + z]
          /\ reply' = reply /\ PadTo(t)
      BY <1>7, <2>6 DEF FdBlock, FdEnds
    <3>2. FdPromise'
      BY <1>4, <3>1 DEF FdPromise, FdFaithful
    <3>3. /\ call'.op = "fd" /\ call'.base = base /\ call'.actual = maximum(a, t)
          /\ call'.left = z /\ call'.block = b.block /\ call'.whole = call.whole
          /\ call'.over = (b.offset + b.len # t + z)
      <4> HIDE DEF t, z
      <4> QED BY <1>2, <3>1 DEF InFd
    <3> SUFFICES ASSUME Ordered(e) PROVE Within' /\ (call.whole => Whole')
      BY <1>5, <2>4, <3>2, <3>3 DEF Writing, FileTypes
    <3>4. /\ t \in Nat /\ a \in Nat /\ base \in Nat /\ a <= t /\ t <= b.offset
          /\ fdpos' = base + t
          /\ call.whole => /\ o = 0
                           /\ \A i \in 1..t : Content(e)[i] = View(file', base + i)
      BY <1>2, <1>3, <2>3, <3>1, FdPads
    <3>5. /\ z \in Nat /\ z <= b.len
          /\ z > 0 => t = b.offset
          /\ declared >= 0 => t + z <= declared
      <4>1. /\ Clipped(b.offset + b.len) - t \in Nat
            /\ Clipped(b.offset + b.len) - t <= b.len
            /\ Clipped(b.offset + b.len) - t > 0 => t = b.offset
            /\ declared >= 0 => Clipped(b.offset + b.len) <= declared
        BY <1>3, <1>6, CutSizes
      <4>2. Clipped(b.offset + b.len) \in Nat
        BY <1>3, <1>6 DEF Clipped, minimum
      <4>3. t + z = Clipped(b.offset + b.len)
        BY <3>4, <4>2
      <4> QED BY <4>1, <4>3
    <3>6. maximum(a, t) = t
      BY <3>4 DEF maximum
    <3>e. fmt.entry = e /\ fmt.origin = o /\ call.actual = a /\ call.base = base
      OBVIOUS
    <3> DEFINE s == b.offset
               l == b.len
    <3>7. s \in Nat /\ l \in Nat /\ b.offset = s /\ b.len = l
      BY <1>3
    <3> HIDE DEF t, z, e, o, a, base, s, l
    <3>8. call'.over = (s + l # t + z)
      BY <3>3, <3>7
    <3>9. Within'
      <4>1. s + l = t + z => o + t + z <= Reach(fmt')
        <5>1. o + s = Reach(fmt) /\ Reach(fmt) + l <= Reach(fmt')
          BY <2>3, <3>7
        <5>2. o \in Nat /\ Reach(fmt') \in Nat /\ t \in Nat /\ z \in Nat
          BY <1>5, <3>4, <3>5
        <5> QED BY <3>7, <5>1, <5>2
      <4> QED BY <1>2, <1>5, <3>3, <3>4, <3>5, <3>6, <3>8, <4>1 DEF Within
    <3>10. ASSUME call.whole PROVE Whole'
      <4>1. o = 0 /\ Reach(fmt) = s
        BY <1>5, <2>3, <3>4, <3>7, <3>10
      <4>2. z > 0 => /\ b.block = <<e, t>> /\ Filled(e, t, t + z)
                     /\ t + z <= Entries[e].size
        <5> SUFFICES ASSUME z > 0
                     PROVE  /\ b.block = <<e, t>> /\ Filled(e, t, t + z)
                            /\ t + z <= Entries[e].size
          OBVIOUS
        <5>1. t = s /\ o + s = s
          BY <3>5, <3>7, <4>1
        <5>2. Filled(e, s, s + l) /\ s + l <= Entries[e].size
          BY <2>3, <3>7, <4>1
        <5>3. Filled(e, s, s + z) /\ s + z <= Entries[e].size
          BY <1>5, <3>5, <3>7, <5>2 DEF Filled
        <5> QED BY <2>3, <3>7, <5>1, <5>3
      <4>3. s + l = t + z => Bare(e, t + z, Reach(fmt'))
        <5>1. Bare(e, s + l, Reach(fmt'))
          BY <2>3, <3>7, <4>1
        <5> QED BY <5>1
      <4> QED BY <1>5, <3>3, <3>4, <3>6, <3>8, <3>10, <4>1, <4>2, <4>3 DEF Whole
    <3> QED BY <3>9, <3>10
  <2> QED BY <2>5, <2>6
<1>8. CASE FdLast(b)
  <2>1. b.code = EOF /\ (PadTo(t) \/ PadBreaks(t)) /\ call' = Idle
    BY <1>8 DEF FdLast, FdEnds
  <2>2. GivesEnd(b)
    BY <1>3, <2>1, CodeValues DEF GivesData, GivesNothing
  <2>3. o + b.offset = Entries[e].size /\ Reach(fmt) = Entries[e].size /\ fmt' = fmt
    BY <1>3, <2>2 DEF GivesEnd
  <2>4. FileTypes'
    <3>1. CASE PadTo(t)
      BY <1>2, <1>3, <1>6, <3>1, CutSizes, PadShows
    <3>2. CASE PadBreaks(t)
      BY <1>2, <1>3, <1>6, <3>2, CutSizes, BreakShows
    <3> QED BY <2>1, <3>1, <3>2
  <2>5. Writing'
    BY <1>4, <2>1, <2>4, EndedWriting
  <2>6. ASSUME reply'.code = OK, reply'.whole, Ordered(e)
        PROVE  /\ fdpos' = reply'.base + Entries[e].size
               /\ \A i \in 1..Entries[e].size :
                    Content(e)[i] = View(file', reply'.base + i)
    <3>1. /\ reply'.base = base /\ reply'.whole = call.whole
      BY <1>8 DEF FdLast, FdEnds
    <3>2. PadTo(t) /\ ~(b.offset > a /\ b.offset # t)
      BY <1>8, <2>6, CodeValues DEF FdLast, FdEnds
    <3>3. /\ t \in Nat /\ a \in Nat /\ base \in Nat /\ a <= t /\ t <= b.offset
          /\ fdpos' = base + t /\ o = 0
          /\ \A i \in 1..t : Content(e)[i] = View(file', base + i)
      BY <1>2, <1>3, <2>3, <2>6, <3>1, <3>2, FdPads
    <3>4. t = Entries[e].size
      <4> HIDE DEF t, a, e, o
      <4>1. b.offset = Entries[e].size
        BY <1>3, <1>5, <2>3, <3>3
      <4> QED BY <1>3, <3>2, <3>3, <4>1
    <3> QED BY <3>1, <3>3, <3>4
  <2>7. FdPromise'
    <3>1. fmt'.entry = e /\ Entry' = Entries[e]
      BY <1>5 DEF Entry
    <3> HIDE DEF e
    <3> QED BY <2>6, <3>1 DEF FdPromise, FdFaithful, View
  <2> QED BY <2>5, <2>7
<1>9. CASE b.code < OK /\ FdEnds(b.code) /\ UNCHANGED fdVars
  <2>1. Writing'
    BY <1>2, <1>4, <1>9, QuietWriting DEF FdEnds, fdVars
  <2>2. reply'.code # OK
    BY <1>3, <1>9, CodeValues DEF FdEnds, GivesData, GivesEnd, GivesNothing
  <2> QED BY <2>1, <2>2 DEF FdPromise, FdFaithful
<1> QED BY <1>1, <1>7, <1>8, <1>9

LEMMA NextWriting == Numbered /\ Writing /\ [Next]_vars => Writing'
<1> SUFFICES ASSUME Numbered, Writing, [Next]_vars PROVE Writing'
  OBVIOUS
<1>0. /\ FileTypes /\ Idle.op # "fd"
      /\ call.op = "data" => InData(call)
  BY CallOps DEF Numbered, Moving, Writing, FileTypes, Idle
<1>1. ASSUME call.op # "fd", call' = call, UNCHANGED fdVars PROVE Writing'
  BY <1>0, <1>1, QuietWriting DEF fdVars
<1>2. CASE UNCHANGED vars
  BY <1>2 DEF vars, fdVars, entryVars, Writing, FileBehind, Within, Whole
<1>3. CASE Open \/ NextHeader \/ DataSkip \/ DataBlock \/ SeekData \/ Close \/ Free
  <2>1. call = Idle
    BY <1>3 DEF Open, NextHeader, DataSkip, DataBlock, SeekData, Close, Free, Starts
  <2>2. call' = call /\ UNCHANGED fdVars
    <3>1. CASE Open
      BY <3>1 DEF Open, OpenerFails, NoMemory, NoFilter, NoFormat, Opened, OpenEnds, Refuse
    <3>2. CASE NextHeader
      BY <3>2 DEF NextHeader, SkipFatal, HeaderEnds, Refuse
    <3>3. CASE DataSkip \/ DataBlock
      BY <3>3 DEF DataSkip, DataBlock, Refuse
    <3>4. CASE SeekData
      BY <3>4 DEF SeekData, Refuse
    <3>5. CASE Close \/ Free
      BY <3>5 DEF Close, Free
    <3> QED BY <1>3, <3>1, <3>2, <3>3, <3>4, <3>5
  <2> QED BY <1>0, <1>1, <2>1, <2>2
<1>4. CASE \E s \in Requests : BeginData(s)
  <2>1. call'.op # "fd" /\ UNCHANGED fdVars
    BY <1>4 DEF BeginData
  <2> QED BY <1>0, <2>1, QuietWriting DEF fdVars
<1>5. CASE DataRefused \/ DataRefill \/ DataOutOfOrder \/ DataCopy
  <2>1. call.op = "data" /\ UNCHANGED fdVars
    BY <1>5 DEF DataRefused, DataRefill, DataOutOfOrder, DataCopy
  <2>2. \/ call' = Idle \/ call' = call
        \/ \E n : call' = [call EXCEPT !.left = @ - n, !.done = @ + n]
    BY <1>5 DEF DataRefused, DataRefill, DataOutOfOrder, DataCopy, DataEnds
  <2>3. call'.op # "fd"
    BY <1>0, <2>1, <2>2 DEF InData
  <2> QED BY <1>0, <2>1, <2>3, QuietWriting DEF fdVars
<1>6. CASE FdOverrun
  <2>1. call' = Idle /\ UNCHANGED fdVars
    BY <1>6 DEF FdOverrun, FdEnds
  <2> QED BY <1>0, <2>1, QuietWriting DEF fdVars
<1> QED BY <1>2, <1>3, <1>4, <1>5, <1>6, BeginFdWriting, FdNextWriting, FdWriteWriting
        DEF Next, DataStep, FdStep

-----------------------------------------------------------------------------
(* The answers.                                                            *)

Plain(r) == r.op \notin {"data", "fd"}

LEMMA PlainPromises ==
  ASSUME Plain(reply') PROVE ZeroPromise' /\ FdPromise'
BY DEF Plain, ZeroPromise, FdPromise, FdFaithful

(* A read that answers 0 has been told the end of the entry.               *)
LEMMA DataPromises == Numbered /\ Streaming /\ DataStep => ZeroPromise' /\ FdPromise'
<1> SUFFICES ASSUME Numbered, Streaming, DataStep PROVE ZeroPromise' /\ FdPromise'
  OBVIOUS
<1>0. InData(call) /\ Plain(reply)
  BY CallOps DEF Numbered, DataStep, DataRefused, DataRefill, DataOutOfOrder, DataCopy,
     Plain
<1>1. ASSUME NEW n, n # 0, DataEnds(n) PROVE ZeroPromise' /\ FdPromise'
  BY <1>1 DEF DataEnds, Answer, ZeroPromise, FdPromise, FdFaithful
<1>2. ASSUME UNCHANGED reply PROVE ZeroPromise' /\ FdPromise'
  BY <1>0, <1>2, PlainPromises
<1>3. CASE DataRefused \/ DataOutOfOrder
  BY <1>1, <1>3, CodeValues DEF DataRefused, DataOutOfOrder
<1>4. CASE DataRefill
  <2>1. PICK b \in DataAnswers :
          /\ FormatAnswers(b) /\ rd' = Refilled(b)
          /\ IF AtEnd(b) THEN DataEnds(call.done)
             ELSE IF b.code < OK THEN DataEnds(b.code)
             ELSE UNCHANGED <<call, reply>>
    BY <1>4 DEF DataRefill
  <2>2. CASE AtEnd(b)
    <3>1. b.code = EOF /\ b.offset = rd.output /\ state = "data"
      BY <1>4, <2>2 DEF AtEnd, DataRefill
    <3>2. /\ fmt' = b.after /\ fmt.entry > 0 /\ b.offset \in Nat /\ b.len \in Nat
          /\ GivesData(b) \/ GivesEnd(b) \/ GivesNothing(b)
      BY <2>1, <3>1, InBody, Answers DEF FormatAnswers, Numbered, Moving
    <3>3. GivesEnd(b)
      BY <3>1, <3>2, CodeValues DEF GivesData, GivesNothing
    <3>4. fmt' = fmt /\ fmt.origin + rd.output = Entries[fmt.entry].size
      BY <3>1, <3>2, <3>3 DEF GivesEnd
    <3>5. rd'.output = rd.output
      BY <2>1, <3>2, RefilledWindowed DEF Numbered, Moving
    <3>6. ZeroPromise'
      BY <3>2, <3>4, <3>5 DEF ZeroPromise
    <3>7. FdPromise'
      BY <2>1, <2>2 DEF DataEnds, Answer, FdPromise, FdFaithful
    <3> QED BY <3>6, <3>7
  <2>3. CASE ~AtEnd(b) /\ b.code < OK
    <3>1. b.code # 0 /\ DataEnds(b.code)
      <4>1. DataEnds(b.code)
        BY <2>1, <2>3
      <4>2. b.code # 0
        BY <2>3, CodeValues
      <4> QED BY <4>1, <4>2
    <3> QED BY <1>1, <3>1
  <2>4. CASE ~AtEnd(b) /\ ~(b.code < OK)
    BY <1>2, <2>1, <2>4
  <2> QED BY <2>2, <2>3, <2>4
<1>5. CASE DataCopy
  <2> DEFINE n == Padding + Copying
  <2>1. \/ call.left = n /\ DataEnds(call.done + n)
        \/ UNCHANGED reply
    BY <1>5 DEF DataCopy
  <2>2. ASSUME call.left = n, DataEnds(call.done + n)
        PROVE  ZeroPromise' /\ FdPromise'
    <3>1. call.left \in Nat \ {0} /\ call.done \in Nat
      BY <1>0 DEF InData
    <3> HIDE DEF n
    <3>2. call.done + n # 0
      BY <2>2, <3>1
    <3> QED BY <1>1, <2>2, <3>2
  <2> QED BY <1>2, <2>1, <2>2
<1> QED BY <1>3, <1>4, <1>5 DEF DataStep

LEMMA NextPromises ==
  Serving /\ [Next]_vars => ZeroPromise' /\ FdPromise'
<1> SUFFICES ASSUME Serving, [Next]_vars PROVE ZeroPromise' /\ FdPromise'
  OBVIOUS
<1>0. Numbered /\ Streaming /\ Writing
  BY DEF Serving, Numbered
<1>1. CASE UNCHANGED vars
  <2>1. ZeroPromise'
    BY <1>1 DEF Serving, ZeroPromise, vars, dataVars
  <2>2. FdPromise'
    BY <1>1 DEF Serving, FdPromise, FdFaithful, Entry, vars, fdVars
  <2> QED BY <2>1, <2>2
<1>2. CASE Open
  <2>1. Plain(reply')
    BY <1>2 DEF Open, OpenerFails, NoMemory, NoFilter, NoFormat, Opened, OpenEnds, Refuse,
       Answer, Plain
  <2> QED BY <2>1, PlainPromises
<1>3. CASE NextHeader
  <2>1. Plain(reply')
    BY <1>3 DEF NextHeader, SkipFatal, HeaderEnds, Refuse, Answer, Plain
  <2> QED BY <2>1, PlainPromises
<1>4. CASE DataSkip \/ DataBlock
  <2>1. Plain(reply')
    BY <1>4 DEF DataSkip, DataBlock, Refuse, Answer, Plain
  <2> QED BY <2>1, PlainPromises
<1>5. CASE SeekData
  <2>1. Plain(reply')
    BY <1>5 DEF SeekData, Restart, SeekFails, Refuse, Answer, Plain
  <2> QED BY <2>1, PlainPromises
<1>6. CASE Close \/ Free
  <2>1. Plain(reply')
    BY <1>6 DEF Close, Free, Answer, Plain
  <2> QED BY <2>1, PlainPromises
<1>7. CASE BeginFd \/ \E s \in Requests : BeginData(s)
  <2>1. Plain(reply')
    BY <1>7 DEF BeginFd, BeginData, Refuse, Answer, Plain
  <2> QED BY <2>1, PlainPromises
<1>8. CASE DataStep
  BY <1>0, <1>8, DataPromises
<1>9. CASE FdNext
  <2>1. FdPromise'
    BY <1>0, <1>9, FdNextWriting
  <2>2. reply'.op = "fd" \/ reply' = reply
    BY <1>9 DEF FdNext, FdBlock, FdLast, FdEnds
  <2>3. reply.op = "none"
    BY <1>0, <1>9, CallOps DEF FdNext, Numbered
  <2> QED BY <2>1, <2>2, <2>3 DEF ZeroPromise
<1>10. CASE FdWrite \/ FdOverrun
  <2>1. reply' = reply \/ (reply'.op = "fd" /\ reply'.code \in {FATAL, FAILED})
    <3>1. FdWrite => reply' = reply \/ FdEnds(FATAL)
      BY DEF FdWrite
    <3>2. FdOverrun => FdEnds(FAILED)
      BY DEF FdOverrun
    <3> QED BY <1>10, <3>1, <3>2 DEF FdEnds
  <2>2. reply.op = "none"
    BY <1>0, <1>10, CallOps DEF FdWrite, FdOverrun, Numbered
  <2>3. FATAL # OK /\ FAILED # OK
    BY CodeValues
  <2> QED BY <2>1, <2>2, <2>3 DEF ZeroPromise, FdPromise, FdFaithful
<1> QED BY <1>1, <1>2, <1>3, <1>4, <1>5, <1>6, <1>7, <1>8, <1>9, <1>10 DEF Next, FdStep

LEMMA InitServing == Init => Serving
<1> SUFFICES ASSUME Init PROVE Serving
  OBVIOUS
<1>1. fmt = [entry |-> 0, extent |-> 1, used |-> 0, origin |-> 0, body |-> "header"]
  BY DEF Init
<1>2. fmt.entry = 0 /\ fmt.origin = 0 /\ fmt.body = "header" /\ fmt \in Readers
  <2>1. 0 \in 0..Len(Entries)
    BY EntriesLen
  <2> QED BY <1>1, <2>1 DEF Readers
<1>3. Control
  BY InitControl
<1>4. Counting
  BY <1>2, CodeValues, ReadArchiveAssumption DEF Init, Counting, HeaderCounts, Headed
<1>5. Walking
  BY <1>2 DEF Walking, Standing
<1>6. Moving
  BY NoDataWindowed DEF Init, Moving, Answer
<1>7. Streaming
  BY <1>2 DEF Streaming
<1>8. Writing
  BY DEF Init, Writing, FileBehind, Listed, Idle
<1>9. ZeroPromise /\ FdPromise
  BY DEF Init, Answer, ZeroPromise, FdPromise, FdFaithful
<1> QED BY <1>3, <1>4, <1>5, <1>6, <1>7, <1>8, <1>9 DEF Serving

LEMMA NextServing == Serving /\ [Next]_vars => Serving'
<1> SUFFICES ASSUME Serving, [Next]_vars PROVE Serving'
  OBVIOUS
<1>1. Numbered /\ Streaming /\ Writing
  BY DEF Serving, Numbered
<1>2. Control'
  BY <1>1, NextControl DEF Numbered
<1> QED BY <1>1, <1>2, NextCounting, NextWalking, NextMoving, NextStreaming, NextWriting,
        NextPromises DEF Serving

LEMMA SpecServing == Spec => []Serving
BY InitServing, NextServing, PTL DEF Spec

-----------------------------------------------------------------------------
(* What the application may rely on.                                       *)

LEMMA SubSeqIs ==
  ASSUME NEW s, NEW m \in Nat, NEW n \in Nat, NEW k \in Nat, n + 1 = m + k
  PROVE  SubSeq(s, m, n) = [i \in 1..k |-> s[m + i - 1]] /\ Len(SubSeq(s, m, n)) = k
<1> DEFINE S == {s[i] : i \in m..n}
           q == SubSeq(s, m, n)
<1>1. \A i \in m..n : s[i] \in S
  OBVIOUS
<1>2. m \in Int /\ n \in Int /\ n - m + 1 = k
  OBVIOUS
<1> HIDE DEF S
<1>3. /\ q \in Seq(S) /\ Len(q) = IF m <= n THEN n - m + 1 ELSE 0
      /\ \A i \in 1..(n - m + 1) : q[i] = s[m + i - 1]
  BY <1>1, <1>2, SubSeqProperties
<1> HIDE DEF q
<1>4. Len(q) = k /\ \A i \in 1..k : q[i] = s[m + i - 1]
  BY <1>2, <1>3
<1>5. q = [i \in 1..k |-> q[i]]
  BY <1>3, <1>4
<1>6. q = [i \in 1..k |-> s[m + i - 1]]
  BY <1>4, <1>5
<1> QED BY <1>4, <1>6 DEF q

(* The rest of an entry from the place of the last seek, and the beginning *)
(* of that rest.                                                           *)
LEMMA RestIsShare ==
  ASSUME NEW e \in 1..Len(Entries), NEW o \in Nat, NEW n \in Nat,
         o + n <= Entries[e].size
  PROVE  LET rest == SubSeq(Content(e), o + 1, Entries[e].size)
         IN  /\ Len(rest) = Entries[e].size - o
             /\ SubSeq(rest, 1, n) = Share(e, o, n)
             /\ o + n = Entries[e].size => rest = Share(e, o, n)
<1> DEFINE z == Entries[e].size
           C == Content(e)
           k == z - o
           rest == SubSeq(C, o + 1, z)
<1>1. z \in Nat
  BY EntryTypes
<1>2. k \in Nat /\ n <= k /\ o + 1 \in Nat /\ z + 1 = (o + 1) + k
      /\ (o + n = z => n = k)
  BY <1>1
<1> HIDE DEF C, z, k
<1>a. o + 1 \in Nat /\ z \in Nat /\ k \in Nat /\ z + 1 = (o + 1) + k
  BY <1>1, <1>2
<1>3. rest = [i \in 1..k |-> C[(o + 1) + i - 1]] /\ Len(rest) = k
  BY <1>a, SubSeqIs
<1>4. \A i \in 1..k : rest[i] = C[o + i]
  <2>1. ASSUME NEW i \in 1..k PROVE rest[i] = C[o + i]
    <3>1. (o + 1) + i - 1 = o + i
      OBVIOUS
    <3> HIDE DEF rest
    <3> QED BY <1>3, <3>1
  <2> QED BY <2>1
<1>e. rest = SubSeq(C, o + 1, z)
  OBVIOUS
<1> HIDE DEF rest
<1>5. SubSeq(rest, 1, n) = [i \in 1..n |-> rest[1 + i - 1]]
  BY SubSeqIs
<1>6. [i \in 1..n |-> rest[1 + i - 1]] = [i \in 1..n |-> C[o + i]]
  <2>1. ASSUME NEW i \in 1..n PROVE rest[1 + i - 1] = C[o + i]
    BY <1>2, <1>4
  <2> QED BY <2>1
<1>7. k = n => rest = [i \in 1..n |-> C[o + i]]
  <2>1. ASSUME k = n PROVE rest = [i \in 1..n |-> C[o + i]]
    <3>1. \A i \in 1..n : C[(o + 1) + i - 1] = C[o + i]
      OBVIOUS
    <3> QED BY <1>3, <2>1, <3>1
  <2> QED BY <2>1
<1> QED BY <1>2, <1>3, <1>5, <1>6, <1>7, <1>e DEF Share, C, z, k

LEMMA ServingStream == Serving => StreamFaithful /\ ZeroMeansEnd
<1> SUFFICES ASSUME Serving PROVE StreamFaithful /\ ZeroMeansEnd
  OBVIOUS
<1>1. ASSUME fmt.entry > 0, ~mixed, Ordered(fmt.entry)
      PROVE  /\ fmt.entry \in 1..Len(Entries)
             /\ fmt.origin \in Nat /\ rd.output \in Nat /\ Entry.size \in Nat
             /\ fmt.origin + rd.output <= Entry.size
             /\ got = Share(fmt.entry, fmt.origin, rd.output)
             /\ Len(got) = rd.output
  <2>1. /\ fmt.entry \in 1..Len(Entries) /\ fmt.origin \in Nat /\ rd.output \in Nat
        /\ rd.offset \in Nat /\ rd.remaining \in Nat /\ Entry.size \in Nat
    BY <1>1, ReachTypes DEF Serving, Walking, Moving, Windowed, Entry
  <2>2. Copied /\ Ahead
    BY <1>1 DEF Serving, Streaming
  <2>3. fmt.origin + rd.output <= Entry.size
    BY <2>1, <2>2 DEF Ahead, Entry
  <2>4. Len(got) = rd.output
    <3>1. Listed(got, rd.output)
      BY <2>2 DEF Copied, Share, Listed
    <3> QED BY <2>1, <3>1, ListLen
  <2> QED BY <2>1, <2>2, <2>3, <2>4 DEF Copied
<1>2. StreamFaithful
  <2> SUFFICES ASSUME fmt.entry > 0, ~mixed, Ordered(fmt.entry)
               PROVE  /\ Len(got) = rd.output /\ rd.output <= Len(FromOrigin)
                      /\ got = SubSeq(FromOrigin, 1, rd.output)
    BY DEF StreamFaithful
  <2>1. /\ Len(FromOrigin) = Entry.size - fmt.origin
        /\ SubSeq(FromOrigin, 1, rd.output) = Share(fmt.entry, fmt.origin, rd.output)
    BY <1>1, RestIsShare DEF FromOrigin, Entry
  <2> QED BY <1>1, <2>1
<1>3. ZeroMeansEnd
  <2> SUFFICES ASSUME reply.op = "data", reply.code = 0, ~mixed, Ordered(fmt.entry)
               PROVE  got = FromOrigin
    BY DEF ZeroMeansEnd
  <2>1. fmt.entry > 0 /\ fmt.origin + rd.output = Entry.size
    BY DEF Serving, ZeroPromise, Entry
  <2>2. FromOrigin = Share(fmt.entry, fmt.origin, rd.output)
    BY <1>1, <2>1, RestIsShare DEF FromOrigin, Entry
  <2> QED BY <1>1, <2>1, <2>2
<1> QED BY <1>2, <1>3

LEMMA ServingTypes == Serving => TypeOK
<1> SUFFICES ASSUME Serving PROVE TypeOK
  OBVIOUS
<1>1. /\ fmt.entry \in 0..Len(Entries) /\ fmt.extent \in Nat \ {0} /\ fmt.used \in Nat
      /\ fmt.origin \in Nat /\ fmt.body \in {"header", "body", "left", "dead", "astray"}
  BY DEF Serving, Walking, Standing, Readers
<1>2. fileCount \in 0..(Len(Entries) + MaxRetries + 1)
  BY <1>1, EntriesLen, ReadArchiveAssumption DEF Serving, Counting, HeaderCounts
<1>3. rd.remaining \in Nat /\ rd.offset \in Nat /\ rd.output \in Nat
  BY DEF Serving, Moving, Windowed
<1> QED BY <1>1, <1>2, <1>3 DEF Serving, Control, Counting, Moving, TypeOK

LEMMA ServingFd == Serving => FdWithinDeclared /\ FdFaithful
<1> SUFFICES ASSUME Serving PROVE FdWithinDeclared /\ FdFaithful
  OBVIOUS
<1>1. FdWithinDeclared
  <2> SUFFICES ASSUME call.op = "fd", declared >= 0, Ordered(fmt.entry)
               PROVE  fdpos - call.base <= declared
    BY DEF FdWithinDeclared
  <2>1. InFd(call) /\ Within
    BY CallOps DEF Serving, Writing
  <2>2. /\ fdpos = call.base + call.actual
        /\ call.actual + call.left <= declared
    BY <2>1 DEF Within
  <2> QED BY <2>1, <2>2 DEF InFd, Serving, Counting
<1> QED BY <1>1 DEF Serving, FdPromise

(* The counters and offsets stay in their ranges: file_count counts the    *)
(* headers, and no offset or remainder of archive_read_data gets negative. *)
THEOREM CountersBounded == Spec => []TypeOK
BY SpecServing, ServingTypes, PTL

(* archive_read_data copies the entry: whatever blocks the format cuts it  *)
(* into, whatever buffers the application offers, and whatever errors and  *)
(* seeks fall in between, what was copied is the beginning of the entry.   *)
THEOREM StreamIsEntry == Spec => []StreamFaithful
BY SpecServing, ServingStream, PTL

(* An answer of 0 from archive_read_data means the whole entry.            *)
THEOREM ZeroIsEnd == Spec => []ZeroMeansEnd
BY SpecServing, ServingStream, PTL

(* archive_read_data_into_fd stays within the declared size of the entry.  *)
THEOREM WithinDeclared == Spec => []FdWithinDeclared
BY SpecServing, ServingFd, PTL

(* ARCHIVE_OK from archive_read_data_into_fd means that the descriptor has *)
(* the entry, whether it can seek or gets the zeroes of the holes.         *)
THEOREM FdIsEntry == Spec => []FdFaithful
BY SpecServing, ServingFd, PTL

-----------------------------------------------------------------------------
(* Entries whose header failed.  An answer of FAILED that comes from       *)
(* skipping the entry before is another matter: the data of an entry with  *)
(* a good header behind it can be read.                                    *)

LEMMA WorstIsHeader ==
  ASSUME NEW r1 \in SkipCodes \cup {OK}, r1 # FATAL, NEW r2 \in HeaderCodes,
         WorstOf(SkipReply(r1), r2) = FAILED, SkipReply(r1) # FAILED
  PROVE  r2 = FAILED
<1>1. SkipReply(r1) \in {OK, WARN}
  BY SkipAnswers DEF SkipReply
<1> QED BY <1>1, HeaderAnswers, CodeValues DEF WorstOf

LEMMA NextRefused ==
  ASSUME Control, Refused, [Next]_vars
  PROVE  Refused'
<1>1. ASSUME headed' = headed, state' # "data" \/ state' = state, rd' = rd \/ rd' = NoData
      PROVE  Refused'
  BY <1>1 DEF Refused, HeaderFailed
<1>2. ASSUME Refuse PROVE Refused'
  BY <1>1, <1>2 DEF Refuse, entryVars, dataVars
<1>3. CASE NextHeader
  <2>1. CASE SkipFatal
    BY <2>1, CodeValues DEF SkipFatal, Headed, Refused, HeaderFailed
  <2>2. ASSUME NEW r1 \in SkipCodes \cup {OK}, r1 # FATAL, NEW f, NEW r2 \in HeaderCodes,
               HeaderEnds(r1, f, r2)
        PROVE  Refused'
    <3>1. /\ headed'.skip = SkipReply(r1) /\ headed'.code = WorstOf(SkipReply(r1), r2)
          /\ rd' = NoData /\ state' = StateAfter(r2)
      BY <2>2 DEF HeaderEnds, Headed
    <3>2. WorstOf(SkipReply(r1), r2) = FAILED /\ SkipReply(r1) # FAILED => r2 = FAILED
      BY <2>2, WorstIsHeader
    <3>3. StateAfter(FAILED) = "recovery"
      BY CodeValues DEF StateAfter
    <3> QED BY <3>1, <3>2, <3>3 DEF Refused, HeaderFailed
  <2> QED BY <1>2, <1>3, <2>1, <2>2, HeaderWays
<1>4. CASE Open
  <2>1. CASE Refuse
    BY <1>2, <2>1
  <2>2. ASSUME NEW code, NEW s, NEW c, NEW h, OpenEnds(code, s, c, h),
               s # "data" \/ s = state
        PROVE  Refused'
    BY <1>1, <2>2 DEF OpenEnds, entryVars, dataVars
  <2> QED BY <1>4, <2>1, <2>2
          DEF Open, OpenerFails, NoMemory, NoFilter, NoFormat, Opened
<1>5. CASE DataSkip
  <2>1. \/ Refuse
        \/ \E r : /\ state' = IF r = FATAL THEN "fatal" ELSE "header"
                  /\ UNCHANGED <<headed, dataVars>>
    BY <1>5 DEF DataSkip
  <2> QED BY <1>1, <1>2, <2>1 DEF dataVars
<1>6. CASE DataBlock
  <2>1. \/ Refuse
        \/ \E b : FormatAnswers(b) /\ UNCHANGED <<entryVars, rd>>
    BY <1>6 DEF DataBlock
  <2> QED BY <1>1, <1>2, <2>1 DEF entryVars, FormatAnswers
<1>7. CASE SeekData
  <2>1. \/ Refuse
        \/ /\ UNCHANGED entryVars
           /\ (\E k : Restart(k)) \/ (\E c : SeekFails(c))
    BY <1>7 DEF SeekData
  <2>2. ASSUME NEW k, Restart(k), UNCHANGED entryVars PROVE Refused'
    BY <1>1, <2>2 DEF Restart, entryVars
  <2>3. ASSUME NEW c, SeekFails(c), UNCHANGED entryVars PROVE Refused'
    BY <1>1, <2>3 DEF SeekFails, entryVars, dataVars
  <2> QED BY <1>2, <2>1, <2>2, <2>3
<1>8. CASE DataRefill
  <2>1. state = "data" /\ headed' = headed
    BY <1>8 DEF DataRefill, entryVars
  <2> QED BY <2>1 DEF Refused, HeaderFailed
<1>9. CASE DataCopy
  <2>1. ~NeedsBlock /\ headed' = headed
    BY <1>9 DEF DataCopy, entryVars
  <2>2. rd # NoData
    BY <2>1, NoDataWindowed DEF NeedsBlock
  <2> QED BY <2>1, <2>2 DEF Refused, HeaderFailed
<1>10. CASE FdNext
  <2>1. (\E b : FormatAnswers(b)) /\ UNCHANGED <<entryVars, rd>>
    BY <1>10 DEF FdNext
  <2> QED BY <1>1, <2>1 DEF entryVars, FormatAnswers
<1>11. CASE BeginFd \/ \E s \in Requests : BeginData(s)
  <2>1. Refuse \/ UNCHANGED <<state, entryVars, dataVars>>
    BY <1>11 DEF BeginFd, BeginData
  <2> QED BY <1>1, <1>2, <2>1 DEF entryVars, dataVars
<1>12. CASE DataRefused \/ DataOutOfOrder
  BY <1>1, <1>12 DEF DataRefused, DataOutOfOrder, entryVars
<1>13. CASE FdWrite \/ FdOverrun
  BY <1>1, <1>13 DEF FdWrite, FdOverrun, entryVars, dataVars
<1>14. CASE Close \/ Free
  BY <1>1, <1>14 DEF Close, Free, entryVars, dataVars
<1>15. CASE UNCHANGED vars
  BY <1>1, <1>15 DEF vars, entryVars, dataVars
<1> QED BY <1>3, <1>4, <1>5, <1>6, <1>7, <1>8, <1>9, <1>10, <1>11, <1>12, <1>13,
        <1>14, <1>15 DEF Next, DataStep, FdStep

(* What was copied is a list, also when the application mixes calls.       *)
Collected == Len(got) \in Nat /\ Listed(got, Len(got))

LEMMA CopyCollected ==
  ASSUME NEW s, Len(s) \in Nat, Listed(s, Len(s)), NEW p \in Nat, NEW c \in Nat, NEW k,
         NEW q, q = s \o Zeroes(p) \o Piece(k, c)
  PROVE  Len(q) \in Nat /\ Listed(q, Len(q))
<1> DEFINE t == s \o Zeroes(p)
           n == Len(s)
<1>1. Listed(Zeroes(p), p) /\ Listed(Piece(k, c), c)
  BY DEF Listed, Zeroes, Piece
<1>2. n \in Nat /\ n + p \in Nat /\ n + p + c \in Nat /\ Listed(s, n)
  OBVIOUS
<1>3. IsJoined(t, s, Zeroes(p), n, p)
  <2> HIDE DEF n
  <2> QED BY <1>1, <1>2, JoinedLists, Zenon
<1>4. Listed(t, n + p)
  BY <1>3 DEF IsJoined
<1>e. q = t \o Piece(k, c)
  OBVIOUS
<1>5. IsJoined(q, t, Piece(k, c), n + p, c)
  <2> HIDE DEF n, t
  <2> QED BY <1>1, <1>2, <1>4, <1>e, JoinedLists, Zenon
<1>6. Listed(q, n + p + c)
  BY <1>5 DEF IsJoined
<1>7. Len(q) = n + p + c
  BY <1>2, <1>6, ListLen
<1> QED BY <1>2, <1>6, <1>7

LEMMA NextCollected == Moving /\ Collected /\ [Next]_vars => Collected'
<1> SUFFICES ASSUME Moving, Collected, [Next]_vars PROVE Collected'
  OBVIOUS
<1>1. ASSUME got' = got \/ got' = <<>> PROVE Collected'
  <2>1. Len(<<>>) \in Nat /\ Listed(<<>>, Len(<<>>))
    BY DEF Listed
  <2> QED BY <1>1, <2>1 DEF Collected
<1>2. CASE DataCopy
  <2>1. got' = got \o Zeroes(Padding) \o Piece(rd.block, Copying)
    BY <1>2 DEF DataCopy
  <2>2. InData(call) /\ Windowed(rd) /\ rd.offset >= rd.output
    BY <1>2, CallOps DEF DataCopy, Moving
  <2>3. Padding \in Nat /\ Copying \in Nat
    BY <2>2, CopySizes
  <2> QED BY <2>1, <2>3, CopyCollected DEF Collected
<1>3. CASE NextHeader
  BY <1>1, <1>3 DEF NextHeader, Refuse, SkipFatal, HeaderEnds, dataVars
<1>4. CASE SeekData
  BY <1>1, <1>4 DEF SeekData, Refuse, Restart, SeekFails, dataVars
<1>5. CASE Open
  BY <1>1, <1>5 DEF Open, OpenerFails, NoMemory, NoFilter, NoFormat, Opened, OpenEnds,
     Refuse, dataVars
<1>6. CASE DataSkip \/ DataBlock \/ BeginFd
  BY <1>1, <1>6 DEF DataSkip, DataBlock, BeginFd, Refuse, dataVars
<1>7. CASE \E s \in Requests : BeginData(s)
  BY <1>1, <1>7 DEF BeginData, dataVars
<1>8. CASE DataRefused \/ DataRefill \/ DataOutOfOrder
  BY <1>1, <1>8 DEF DataRefused, DataRefill, DataOutOfOrder
<1>9. CASE FdStep
  BY <1>1, <1>9 DEF FdStep, FdNext, FdWrite, FdOverrun, dataVars
<1>10. CASE Close \/ Free \/ UNCHANGED vars
  BY <1>1, <1>10 DEF Close, Free, vars, dataVars
<1> QED BY <1>2, <1>3, <1>4, <1>5, <1>6, <1>7, <1>8, <1>9, <1>10 DEF Next, DataStep

(* A step that hands out bytes needs a body that may be read or a block in *)
(* hand; an archive that refuses the entry has neither.                    *)
LEMMA HandsOutStates ==
  ASSUME Control, Moving, FileTypes, Collected, Refused, Next, HeaderFailed
  PROVE  ~HandsOut
<1>0. /\ state # "data" /\ NeedsBlock /\ call.op # "fd"
      /\ call.op = "data" => reply.op = "none"
      /\ Len(got) \in Nat /\ Len(file) \in Nat
  BY NoDataWindowed, CallOps
     DEF Refused, NeedsBlock, Control, Running, FileTypes, FileBehind, Collected
<1>1. ASSUME got' = got \/ got' = <<>>, file' = file, reply'.op # "block"
      PROVE  ~HandsOut
  BY <1>0, <1>1 DEF HandsOut
<1>2. ASSUME Refuse PROVE ~HandsOut
  BY <1>1, <1>2 DEF Refuse, Answer, dataVars, fdVars
<1>3. CASE Open
  BY <1>1, <1>2, <1>3 DEF Open, OpenerFails, NoMemory, NoFilter, NoFormat, Opened,
     OpenEnds, Answer, dataVars, fdVars
<1>4. CASE NextHeader
  BY <1>1, <1>2, <1>4 DEF NextHeader, SkipFatal, HeaderEnds, Answer, dataVars, fdVars
<1>5. CASE DataSkip
  <2>1. \/ Refuse
        \/ got' = got /\ file' = file /\ reply'.op = "skip"
    BY <1>5 DEF DataSkip, Answer, dataVars, fdVars
  <2> QED BY <1>1, <1>2, <2>1
<1>6. CASE DataBlock \/ SeekData \/ BeginFd
  BY <1>0, <1>2, <1>6 DEF DataBlock, SeekData, BeginFd
<1>7. CASE \E s \in Requests : BeginData(s)
  BY <1>1, <1>7 DEF BeginData, Answer, dataVars, fdVars
<1>8. CASE DataStep
  <2>1. DataRefused
    BY <1>0, <1>8 DEF DataStep, DataRefill, DataOutOfOrder, DataCopy
  <2> QED BY <1>1, <2>1 DEF DataRefused, DataEnds, Answer, fdVars
<1>9. CASE FdStep
  BY <1>0, <1>9 DEF FdStep, FdNext, FdWrite, FdOverrun
<1>10. CASE Close
  BY <1>1, <1>10 DEF Close, Answer, dataVars, fdVars
<1>11. CASE Free
  BY <1>1, <1>11 DEF Free, Answer, dataVars, fdVars
<1> QED BY <1>3, <1>4, <1>5, <1>6, <1>7, <1>8, <1>9, <1>10, <1>11 DEF Next

(* No byte of an entry is handed out once its header has failed, by any of *)
(* the calls: what was left of the entry before is forgotten with it.      *)
THEOREM FailedStaysRefused == Spec => FailedEntryRefused
<1> DEFINE Step == HandsOut => headed.code # FAILED \/ headed.skip = FAILED
<1>1. Init => Refused /\ Collected
  BY CodeValues DEF Init, Refused, HeaderFailed, Headed, Collected, Listed
<1>2. Serving /\ Refused /\ Collected /\ [Next]_vars => Refused' /\ Collected'
  BY NextRefused, NextCollected DEF Serving
<1>3. Serving /\ Refused /\ Collected /\ [Next]_vars => [Step]_vars
  <2>1. Serving => Control /\ Moving /\ FileTypes
    BY DEF Serving, Moving, Writing, FileTypes
  <2> QED BY <2>1, HandsOutStates DEF HeaderFailed
<1> HIDE DEF Step
<1>4. Spec => [][Step]_vars
  BY SpecServing, <1>1, <1>2, <1>3, PTL DEF Spec
<1> QED BY <1>4 DEF FailedEntryRefused, Step

=============================================================================
