---------------------------- MODULE WriteArchive ----------------------------
(***************************************************************************)
(* The life of a struct archive_write (archive_write.c): settings, open,   *)
(* headers, entry data, close, fail and free, with the format ustar and    *)
(* the filter b64encode, over the client filter of WriteClient.            *)
(*                                                                         *)
(* A call of the API begins with one action and then runs in stages, each  *)
(* of which has bytes to put out.  Bytes are counted, not carried.         *)
(***************************************************************************)
EXTENDS WriteClient

CONSTANTS
  Record,         \* ustar's header and block length, 512
  NullLength,     \* a->null_length, 1024
  Line,           \* input bytes in an encoded line, LBYTES
  Buffer,         \* the encoder's output buffer, 65536
  Entries,        \* what may be added: [size, kind], kind "good", "odd" for one
                  \* with a WARN, "refused" for one without a path name or one
                  \* that is the archive itself
  Amounts,        \* lengths the application gives to archive_write_data
  BlockSizes, LastSizes,    \* settings it makes
  MaxOpens,       \* bound: calls of archive_write_open2
  MaxEntries,     \* bound: calls of archive_write_header
  MaxData         \* bound: calls of archive_write_data

ASSUME WriteArchiveAssumption ==
  /\ {Record, NullLength, Line, Buffer} \subseteq Nat \ {0}
  /\ Buffer > 1    \* there is room for the mark at the beginning
  /\ \A e \in Entries : e.size \in Nat
  /\ Amounts \subseteq Nat /\ BlockSizes \subseteq Nat /\ LastSizes \subseteq Int
  /\ MaxOpens \in Nat /\ MaxEntries \in Nat /\ MaxData \in Nat
  /\ MaxShorts \in Nat

VARIABLES
  state,          \* archive.state; "freed", "abandoned" or "crashed" at the end
  format,         \* a format has been set
  encoder,        \* state of the encoder; "none" when it is not in the chain
  hold, encoded,  \* the encoder's hold_len and length of encoded_buff
  remaining, padding,  \* ustar's entry_bytes_remaining and entry_padding
  call,           \* call in progress: op, stage, todo, result so far, entry
  reply,          \* last answer; broke: a callback failed during the call
  opens, opened, closes, frees,  \* calls of open2; of the client's callbacks
  headers, datas, \* calls of archive_write_header and archive_write_data
  output,         \* history: bytes the format has put out
  framed          \* history: where the entry of the last header has to end

encoderVars == <<encoder, hold, encoded>>
formatVars  == <<format, remaining, padding, framed>>
clientCalls == <<opens, opened, closes, frees>>
bounds      == <<headers, datas>>
vars == <<blockVars, client, copyVars, got, histVars, state, encoderVars, formatVars,
          call, reply, clientCalls, bounds, output>>

Idle == [op |-> "idle"]
Answer(op, code) == [op |-> op, code |-> code, broke |-> broke]

Init ==
  /\ ClientInit /\ bytes_per_block \in BlockSizes /\ bytes_in_last_block \in LastSizes
  /\ state = "new" /\ format \in BOOLEAN
  /\ encoder \in {"none", "new"} /\ hold = 0 /\ encoded = 0
  /\ remaining = 0 /\ padding = 0 /\ framed = 0
  /\ call = Idle /\ reply = [op |-> "none", code |-> OK, broke |-> FALSE]
  /\ opens = 0 /\ opened = 0 /\ closes = 0 /\ frees = 0
  /\ headers = 0 /\ datas = 0 /\ output = 0

(* A call that returns at once.                                            *)
Returns(op, code) == reply' = [op |-> op, code |-> code, broke |-> FALSE] /\ UNCHANGED call

(* A call that has something to write.                                     *)
Begins(op, stage, todo, entry) ==
  /\ call' = [op |-> op, stage |-> stage, todo |-> todo, ret |-> OK, entry |-> entry]
  /\ broke' = FALSE /\ got' = OK
  /\ UNCHANGED <<reply, copyVars, fed, given, inOrder, failed, shorts, ragged>>

Ends(op, code) == call' = Idle /\ reply' = Answer(op, code)

Ready == call = Idle /\ state \notin {"freed", "abandoned", "crashed"}

NoEntry == [size |-> 0, kind |-> "none"]

-----------------------------------------------------------------------------
(* Settings, and archive_check_magic on a call out of its states.          *)

Allowed(op) ==
  CASE op = "set"    -> {"new"}
    [] op = "open"   -> {"new"}
    [] op = "header" -> {"header", "data"}
    [] op = "data"   -> {"data"}
    [] op = "finish" -> {"header", "data"}

Refuse ==
  /\ Ready
  /\ \E op \in {"set", "open", "header", "data", "finish"} : state \notin Allowed(op)
  /\ state' = "fatal" /\ Returns("refused", FATAL)
  /\ UNCHANGED <<blockVars, client, copyVars, got, histVars, encoderVars, formatVars,
                 clientCalls, bounds, output>>

(* archive_write_set_bytes_in_last_block is allowed at any time.           *)
SetLastBlock ==
  /\ Ready /\ state # "fatal"
  /\ bytes_in_last_block' \in LastSizes /\ Returns("set", OK)
  /\ UNCHANGED <<bytes_per_block, client, copyVars, got, histVars, state, encoderVars,
                 formatVars, clientCalls, bounds, output>>

(* archive_write_fail answers no code, but the number of the state.        *)
Fail ==
  /\ Ready
  /\ state' = "fatal"
  /\ UNCHANGED <<blockVars, client, copyVars, got, histVars, encoderVars, formatVars,
                 call, reply, clientCalls, bounds, output>>

-----------------------------------------------------------------------------
(* archive_write_open2: the client filter is opened first.                 *)

(* The client is not closed when a filter before it fails to open. *)
OpenFailsFaulty(o, c) ==
  /\ client' = "none" /\ encoder' = "none" /\ hold' = 0 /\ encoded' = 0
  /\ opened' = opened + o /\ UNCHANGED closes /\ frees' = frees + 1
  /\ Returns("open", FATAL)
  /\ UNCHANGED <<state, base, avail>>

(* The filters are closed and freed; the state stays as it is.             *)
OpenFails(o, c) ==
  /\ client' = "none" /\ encoder' = "none" /\ hold' = 0 /\ encoded' = 0
  /\ opened' = opened + o /\ closes' = closes + c /\ frees' = frees + 1
  /\ Returns("open", FATAL)
  /\ UNCHANGED <<state, base, avail>>

Open ==
  /\ Ready /\ state = "new" /\ opens < MaxOpens
  /\ opens' = opens + 1
  /\ \/ Faults \cap {"opener", "alloc"} # {} /\ OpenFails(0, 0)
     \/ "alloc" \in Faults /\ encoder = "new" /\ OpenFails(1, 1)
     \/ /\ client' = "open" /\ avail' = 0 /\ opened' = opened + 1
        /\ IF encoder = "none" THEN UNCHANGED encoderVars
           ELSE encoder' = "open" /\ encoded' = 1 /\ UNCHANGED hold
        /\ state' = "header" /\ Returns("open", OK)
        /\ UNCHANGED <<base, closes, frees>>
  /\ UNCHANGED <<blockVars, job, got, histVars, formatVars, bounds, output>>

-----------------------------------------------------------------------------
(* Putting bytes through the chain                                         *)

First == IF encoder # "none" THEN encoder ELSE client

(* A block longer than the buffer is not thought of. *)
EncoderBufferFaulty ==
  IF bytes_per_block = 0 THEN Buffer ELSE Buffer - (Buffer % bytes_per_block)

(* bs: the buffer is a multiple of the client's blocks.                    *)
EncoderBuffer ==
  IF bytes_per_block > Buffer THEN bytes_per_block
  ELSE IF bytes_per_block = 0 THEN Buffer
  ELSE Buffer - (Buffer % bytes_per_block)

(* la_b64_encode: a line of n bytes grows, also by its end.                *)
Encoded(n) == n + 1

(* archive_filter_b64encode_write up to its loop.                          *)
Encode(n) ==
  /\ hold' = (hold + n) % Line
  /\ encoded' = encoded + ((hold + n) \div Line) * Encoded(Line)

(* The loop over full output buffers runs.                                 *)
Encoding == encoder = "open" /\ encoded >= EncoderBuffer

Stages == {"finish", "header", "body", "trailer"}

(* The next __archive_write_output of the stage: __archive_write_nulls     *)
(* cuts at null_length.  Without a chain the code reads a null pointer.    *)
Put ==
  /\ call # Idle /\ job = NoJob /\ ~Encoding
  /\ call.stage \in Stages /\ call.todo > 0 /\ got = OK
  /\ LET n == IF call.stage \in {"finish", "trailer"}
              THEN minimum(call.todo, NullLength) ELSE call.todo
     IN  \/ /\ First = "none"
            /\ state' = "crashed" /\ call' = Idle
            /\ UNCHANGED <<copyVars, got, histVars, hold, encoded, output>>
         \/ /\ First \notin {"none", "open"}
            /\ got' = FATAL
            /\ UNCHANGED <<state, call, copyVars, histVars, hold, encoded, output>>
         \/ /\ First = "open"
            /\ call' = [call EXCEPT !.todo = @ - n] /\ output' = output + n
            /\ IF encoder = "open"
               THEN Encode(n) /\ UNCHANGED <<copyVars, got, histVars>>
               ELSE ClientWrite(n) /\ UNCHANGED <<hold, encoded>>
            /\ UNCHANGED state
  /\ UNCHANGED <<blockVars, client, encoder, formatVars, reply, clientCalls, bounds>>

(* The answer of the previous write is overwritten.                        *)
PutEncoded ==
  /\ Encoding /\ job = NoJob
  /\ ClientWrite(EncoderBuffer)
  /\ encoded' = encoded - EncoderBuffer
  /\ UNCHANGED <<blockVars, client, state, encoder, hold, formatVars, call, reply,
                 clientCalls, bounds, output>>

ClientSteps ==
  /\ call # Idle
  /\ FlushBuffer \/ WriteDirect \/ KeepRest \/ WriteLast
  /\ UNCHANGED <<blockVars, client, state, encoderVars, formatVars, call, reply,
                 clientCalls, bounds, output>>

StageOver(stage) ==
  /\ call # Idle /\ call.stage = stage /\ job = NoJob /\ ~Encoding
  /\ call.todo = 0 \/ got # OK

-----------------------------------------------------------------------------
(* archive_write_header, archive_write_finish_entry, archive_write_data    *)

(* What finish_entry has to put out, if the state asks for it.             *)
Unfinished == IF state = "data" THEN remaining + padding ELSE 0

HeaderBegins(e) ==
  /\ Ready /\ state \in Allowed("header") /\ headers < MaxEntries
  /\ headers' = headers + 1
  /\ IF format
     THEN Begins("header", "finish", Unfinished, e) /\ UNCHANGED state
     ELSE /\ state' = "fatal" /\ Returns("header", FATAL)
          /\ UNCHANGED <<copyVars, got, histVars>>
  /\ UNCHANGED <<blockVars, client, encoderVars, formatVars, clientCalls, datas, output>>

(* The state and the answer behind a stage that fails.                     *)
Dies == state' = "fatal" /\ Ends(call.op, FATAL)

HeaderFinishesEntry ==
  /\ StageOver("finish") /\ call.op = "header"
  /\ remaining' = 0 /\ padding' = 0
  /\ \/ got # OK /\ Dies
     \/ /\ got = OK /\ call.entry.kind = "refused"
        /\ state' = "header" /\ Ends("header", FAILED)
     \/ got = OK /\ "alloc" \in Faults /\ call.entry.kind # "refused" /\ Dies
     \/ /\ got = OK /\ call.entry.kind # "refused"
        /\ state' = "header" /\ call' = [call EXCEPT !.stage = "header", !.todo = Record]
        /\ UNCHANGED reply
  /\ UNCHANGED <<blockVars, client, copyVars, got, histVars, encoderVars, format, framed,
                 clientCalls, bounds, output>>

(* An entry of a whole number of records is padded. *)
PaddingFaulty(size) == Record - (size % Record)

Padding(size) == (Record - (size % Record)) % Record

HeaderEnds ==
  /\ StageOver("header")
  /\ \/ got # OK /\ Dies /\ UNCHANGED <<remaining, padding, framed>>
     \/ LET size == call.entry.size IN
        /\ got = OK
        /\ remaining' = size /\ padding' = Padding(size)
        /\ framed' = output + Record * ((size + Record - 1) \div Record)
        /\ state' = "data"
        /\ Ends("header", IF call.entry.kind = "odd" THEN WARN ELSE OK)
  /\ UNCHANGED <<blockVars, client, copyVars, got, histVars, encoderVars, format,
                 clientCalls, bounds, output>>

FinishBegins ==
  /\ Ready /\ state \in Allowed("finish")
  /\ Begins("finish", "finish", Unfinished, NoEntry)
  /\ UNCHANGED <<blockVars, client, state, encoderVars, formatVars, clientCalls, bounds, output>>

FinishEnds ==
  /\ StageOver("finish") /\ call.op = "finish"
  /\ remaining' = 0 /\ padding' = 0
  /\ \/ got # OK /\ Dies
     \/ got = OK /\ state' = "header" /\ Ends("finish", OK)
  /\ UNCHANGED <<blockVars, client, copyVars, got, histVars, encoderVars, format, framed,
                 clientCalls, bounds, output>>

(* More than what remains of the entry is written. *)
AcceptedFaulty(s) == s

Accepted(s) == minimum(s, remaining)

DataBegins(s) ==
  /\ Ready /\ state \in Allowed("data") /\ datas < MaxData
  /\ datas' = datas + 1
  /\ Begins("data", "body", Accepted(s), NoEntry)
  /\ remaining' = remaining - Accepted(s)
  /\ UNCHANGED <<blockVars, client, state, encoderVars, format, padding, framed,
                 clientCalls, headers, output>>

DataEnds ==
  /\ StageOver("body")
  /\ \/ got # OK /\ Dies
     \/ got = OK /\ Ends("data", OK) /\ UNCHANGED state
  /\ UNCHANGED <<blockVars, client, copyVars, got, histVars, encoderVars, formatVars,
                 clientCalls, bounds, output>>

-----------------------------------------------------------------------------
(* archive_write_close and archive_write_free                              *)

(* __archive_write_filters_free and the end of free; after a fatal error   *)
(* nothing has been closed.                                                *)
Freed ==
  /\ state' = IF state = "fatal" THEN "abandoned" ELSE "freed"
  /\ frees' = frees + (IF client = "none" THEN 0 ELSE 1)

CloseBegins(op) ==
  /\ Ready
  /\ state \notin {"new", "closed"} /\ (op = "free" => state # "fatal")
  /\ Begins(op, "finish", Unfinished, NoEntry)
  /\ UNCHANGED <<blockVars, client, state, encoderVars, formatVars, clientCalls, bounds, output>>

CloseNothing ==
  /\ Ready /\ state \in {"new", "closed"}
  /\ Returns("nothing", OK)
  /\ UNCHANGED <<blockVars, client, copyVars, got, histVars, state, encoderVars, formatVars,
                 clientCalls, bounds, output>>

(* free of an archive that is new or closed, or after a fatal error.       *)
FreeOnly ==
  /\ Ready /\ state \in {"new", "closed", "fatal"}
  /\ Freed /\ Returns("free", OK)
  /\ UNCHANGED <<blockVars, client, copyVars, got, histVars, encoderVars, formatVars,
                 opens, opened, closes, bounds, output>>

(* What the filters answer is not kept. *)
WorstFaulty == call.ret

(* The result so far and the stage that comes next.                        *)
Worst == minimum(call.ret, got)
Goes(stage, todo) ==
  call' = [call EXCEPT !.stage = stage, !.todo = todo, !.ret = Worst] /\ UNCHANGED reply

CloseFinishesEntry ==
  /\ StageOver("finish") /\ call.op \in {"close", "free"}
  /\ IF state = "data" THEN remaining' = 0 /\ padding' = 0 ELSE UNCHANGED <<remaining, padding>>
  /\ Goes("trailer", IF format THEN 2 * Record ELSE 0) /\ got' = OK
  /\ UNCHANGED <<blockVars, client, copyVars, histVars, state, encoderVars, format, framed,
                 clientCalls, bounds, output>>

TrailerEnds ==
  /\ StageOver("trailer") /\ Goes("filters", 0) /\ got' = OK
  /\ UNCHANGED <<blockVars, client, copyVars, histVars, state, encoderVars, formatVars,
                 clientCalls, bounds, output>>

AtFilters(stage) == call # Idle /\ call.stage = stage /\ job = NoJob

(* archive_filter_b64encode_close: a last line and the end mark.  The last *)
(* block is not to be padded, but a fatal archive refuses that setting.    *)
EncoderCloses ==
  /\ AtFilters("filters") /\ encoder = "open"
  /\ bytes_in_last_block' = IF state = "fatal" THEN bytes_in_last_block ELSE 1
  /\ ClientWrite(encoded + (IF hold = 0 THEN 0 ELSE Encoded(hold)) + 1)
  /\ encoded' = 0 /\ Goes("encoder", 0)
  /\ UNCHANGED <<bytes_per_block, client, state, encoder, hold, formatVars,
                 clientCalls, bounds, output>>

EncoderClosed ==
  /\ AtFilters("encoder")
  /\ encoder' = IF got = OK THEN "closed" ELSE "fatal"
  /\ Goes("filters", 0) /\ got' = OK
  /\ UNCHANGED <<blockVars, client, copyVars, histVars, state, hold, encoded, formatVars,
                 clientCalls, bounds, output>>

ClientCloses ==
  /\ AtFilters("filters") /\ encoder # "open" /\ client = "open"
  /\ ClientClose /\ Goes("client", 0)
  /\ UNCHANGED <<blockVars, client, state, encoderVars, formatVars, clientCalls, bounds, output>>

(* Nothing was open, or the client's closer is called, whatever it answers.*)
CloseEnds ==
  /\ \/ AtFilters("filters") /\ encoder # "open" /\ client # "open" /\ UNCHANGED <<client, closes>>
     \/ /\ call # Idle /\ call.stage = "client" /\ job.at \in {"idle", "last"} /\ job.left = 0
        /\ client' = (IF got = OK THEN "closed" ELSE "fatal") /\ closes' = closes + 1
  /\ job' = NoJob
  /\ IF call.op = "close"
     THEN state' = (IF state = "fatal" THEN "fatal" ELSE "closed") /\ Ends("close", Worst)
     ELSE state' = "closed" /\ call' = [call EXCEPT !.stage = "free", !.ret = Worst] /\ UNCHANGED reply
  /\ UNCHANGED <<blockVars, base, avail, got, histVars, encoderVars, formatVars,
                 opens, opened, frees, bounds, output>>

FreeEnds ==
  /\ call # Idle /\ call.stage = "free"
  /\ Freed /\ Ends("free", call.ret)
  /\ UNCHANGED <<blockVars, client, copyVars, got, histVars, encoderVars, formatVars,
                 opens, opened, closes, bounds, output>>

-----------------------------------------------------------------------------

Calls ==
  \/ Refuse \/ SetLastBlock \/ Fail \/ Open
  \/ \E e \in Entries : HeaderBegins(e)
  \/ FinishBegins
  \/ \E s \in Amounts : DataBegins(s)
  \/ CloseBegins("close") \/ CloseBegins("free") \/ CloseNothing \/ FreeOnly

Runs ==
  \/ Put \/ PutEncoded \/ ClientSteps
  \/ HeaderFinishesEntry \/ HeaderEnds \/ FinishEnds \/ DataEnds
  \/ CloseFinishesEntry \/ TrailerEnds
  \/ EncoderCloses \/ EncoderClosed \/ ClientCloses \/ CloseEnds \/ FreeEnds

Next == Calls \/ Runs

Spec == Init /\ [][Next]_vars

(* A call that has begun goes on.                                          *)
FairSpec == Spec /\ WF_vars(Runs)

-----------------------------------------------------------------------------
(* Properties                                                              *)

States == {"new", "header", "data", "closed", "fatal", "freed", "abandoned", "crashed"}
FilterStates == {"none", "new", "open", "closed", "fatal"}
Codes == {OK, WARN, FAILED, FATAL}

(* Types; the copy buffer never holds more than a block, and less than one *)
(* between writes unless the last write failed.                            *)
TypeOK ==
  /\ state \in States /\ client \in FilterStates /\ encoder \in FilterStates
  /\ avail \in 0..bytes_per_block /\ (job.at \in {"idle", "blocks"} /\ ~failed /\ avail > 0
                                       => avail < bytes_per_block)
  /\ job.at \in {"idle", "flush", "blocks", "last"} /\ {job.left, job.done} \subseteq Nat
  /\ {base, fed, given, shorts, output, framed, encoded, remaining, padding} \subseteq Nat
  /\ hold \in 0..(Line - 1) /\ got \in Codes /\ reply.code \in Codes
  /\ {format, inOrder, failed, broke, ragged, reply.broke} \subseteq BOOLEAN
  /\ call = Idle \/ (call.todo \in Nat /\ call.ret \in Codes)

(* Until a callback fails the client gets every byte once and in order:    *)
(* those passed to the client filter are with the client or in the copy    *)
(* buffer, those the format has put out are there or in the encoder.       *)
Lines(n) == (n \div Line) * Encoded(Line)
Delivered ==
  /\ ~failed => inOrder
  /\ ~failed /\ job = NoJob /\ client = "open" => given + avail = fed
  /\ encoder = "open" /\ (call = Idle \/ call.stage # "encoder") =>
       hold = output % Line /\ fed + encoded = 1 + Lines(output)
  /\ encoder = "none" /\ client = "open" => fed = output

(* A close that answers OK has handed over everything the format has put   *)
(* out, with the lines and marks of the encoder, and the last block is     *)
(* padded to a whole block or to a multiple of bytes_in_last_block.        *)
Whole ==
  IF encoder = "none" THEN output
  ELSE 1 + Lines(output) + (IF output % Line = 0 THEN 0 ELSE Encoded(output % Line)) + 1
LastUnit ==
  IF bytes_per_block = 0 THEN 1
  ELSE IF bytes_in_last_block <= 0 THEN bytes_per_block
  ELSE minimum(bytes_in_last_block, bytes_per_block)
ClosedComplete ==
  state = "closed" /\ reply.op = "close" /\ reply.code = OK /\ ~failed =>
    /\ inOrder /\ fed = Whole /\ given >= fed /\ given - fed < LastUnit
    /\ bytes_per_block > 0 /\ shorts = 0 =>
         LET tail == given % bytes_per_block IN tail # 0 => tail % LastUnit = 0

(* An entry takes up a header and its declared size in whole records,      *)
(* whatever the application writes for it and also when it is refused; at  *)
(* the end there are two records more.                                     *)
EntryFramed ==
  call = Idle =>
    /\ state = "data" => output + remaining + padding = framed
    /\ state = "header" => output = framed
    /\ state = "closed" /\ reply.op = "close" /\ reply.code = OK =>
         output = framed + (IF format THEN 2 * Record ELSE 0)

(* The closer is called once for every opener that succeeded, at the       *)
(* latest by a free that is not after a fatal error, and the freer once    *)
(* for every open.                                                         *)
OpenerMatched ==
  /\ client = "open" => opened = closes + 1
  /\ state \in {"new", "closed", "freed"} /\ call = Idle => opened = closes
  /\ closes <= opened
  /\ state \in {"freed", "abandoned"} => frees = opens

(* Only an open client is written to, and every call of the write callback *)
(* but the last one gets a whole block, unless the client writes short.    *)
Blocked ==
  [][given' # given => /\ opened = closes + 1
                       /\ bytes_per_block > 0 /\ shorts = 0 => ~ragged]_vars

(* Without a filter before the client filter, the failure of a callback is *)
(* the answer of the call during which it happened.                        *)
ErrorsReported == reply.broke /\ encoder = "none" => reply.code = FATAL

(* The same for every chain.                                               *)
EveryErrorReported == reply.broke => reply.code = FATAL

(* A call that has begun returns.                                          *)
CallsReturn == call # Idle ~> call = Idle
=============================================================================
