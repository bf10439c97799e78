---------------------------- MODULE WriteClient ----------------------------
(***************************************************************************)
(* The last filter of a struct archive_write: it cuts the output of the    *)
(* filters before it into blocks for the client's write callback           *)
(* (archive_write_client_write and archive_write_client_close in           *)
(* archive_write.c).  One step is one call of the write callback.          *)
(*                                                                         *)
(* The bytes that were passed to the filter are numbered from 1 and the    *)
(* padding of the last block goes on counting, so the contents of the copy *)
(* buffer are an interval, and so is what one callback is given.           *)
(* WriteArchive composes the filter with its callers.                      *)
(***************************************************************************)
EXTENDS Integers

CONSTANTS
  Faults,           \* what may go wrong in and under the library, see each use
  MaxShorts         \* bound: callbacks that take less than they are given

OK     == 0         \* ARCHIVE_OK and so on
WARN   == -20
FAILED == -25
FATAL  == -30

VARIABLES
  bytes_per_block,  \* 0 for no blocking
  bytes_in_last_block,
  client,           \* state of this filter; "none" before open and when freed
  base, avail,      \* copy buffer: number of the byte before it, bytes it holds
  job,              \* the loop being run: at, bytes left to do, bytes done
  got,              \* what the last write to a filter answered
  fed,              \* history: bytes passed to this filter
  given,            \* history: bytes the client has taken
  inOrder,          \* history: every byte given was the next one
  failed, broke,    \* history: a callback has failed, ever and in this call
  shorts,           \* history: callbacks that took less than they were given
  ragged            \* history: a callback was given another length than a block

copyVars  == <<base, avail, job>>
histVars  == <<fed, given, inOrder, failed, broke, shorts, ragged>>
blockVars == <<bytes_per_block, bytes_in_last_block>>

(* Variants named ...Faulty are the code with one plausible slip; they are *)
(* what the properties are tried against.                                  *)

NoJob == [at |-> "idle", left |-> 0, done |-> 0]

minimum(a, b) == IF a < b THEN a ELSE b

ClientInit ==
  /\ client = "none" /\ base = 0 /\ avail = 0 /\ job = NoJob /\ got = OK
  /\ fed = 0 /\ given = 0 /\ inOrder = TRUE
  /\ failed = FALSE /\ broke = FALSE /\ shorts = 0 /\ ragged = FALSE

(* The client takes n of the len bytes behind number `from'.               *)
Taken(from, len, n) ==
  /\ given' = given + n
  /\ inOrder' = (inOrder /\ from = given)
  /\ shorts' = shorts + (IF n < len THEN 1 ELSE 0)
  /\ ragged' = (ragged \/ len # bytes_per_block)
  /\ UNCHANGED <<fed, failed, broke>>

Takes(len) == {n \in 1..len : n = len \/ shorts < MaxShorts}

(* Ends the loop with an error, as a callback that answers 0 or less does. *)
WriterFails ==
  /\ "write" \in Faults
  /\ job' = NoJob /\ got' = FATAL /\ failed' = TRUE /\ broke' = TRUE
  /\ UNCHANGED <<base, avail, fed, given, inOrder, shorts, ragged>>

(* How many of n new bytes go to a copy buffer that is not empty.          *)
Filled(n) == IF avail > 0 THEN minimum(n, bytes_per_block - avail) ELSE 0

(* __archive_write_filter on this filter, which is open, and the start of  *)
(* client_write.                                                           *)
ClientWrite(n) ==
  /\ fed' = fed + n /\ avail' = avail + Filled(n)
  /\ job' = [at   |-> IF avail > 0 /\ avail' = bytes_per_block THEN "flush" ELSE "blocks",
             left |-> n - Filled(n), done |-> 0]
  /\ UNCHANGED <<base, got, given, inOrder, failed, broke, shorts, ragged>>

(* After a short write the block is started again. *)
FlushedFaulty(n) ==
  IF n = bytes_per_block
  THEN avail' = 0 /\ job' = [at |-> "blocks", left |-> job.left, done |-> 0]
  ELSE UNCHANGED <<avail, job>>

Flushed(n) ==
  IF job.done + n = bytes_per_block
  THEN avail' = 0 /\ job' = [at |-> "blocks", left |-> job.left, done |-> 0]
  ELSE job' = [job EXCEPT !.done = @ + n] /\ UNCHANGED avail

(* The copy buffer is full and is written out.                             *)
FlushBuffer ==
  /\ job.at = "flush"
  /\ \/ \E n \in Takes(bytes_per_block - job.done) :
          /\ Taken(base + job.done, bytes_per_block - job.done, n)
          /\ Flushed(n)
          /\ UNCHANGED <<base, got>>
     \/ WriterFails

(* All that is left goes at once. *)
DirectLengthFaulty == job.left

(* Full blocks go directly to the client; without blocking, everything.    *)
DirectLength == IF bytes_per_block = 0 THEN job.left ELSE bytes_per_block

WriteDirect ==
  /\ job.at = "blocks" /\ job.left >= bytes_per_block /\ job.left > 0
  /\ \/ \E n \in Takes(DirectLength) :
          /\ Taken(fed - job.left, DirectLength, n)
          /\ job' = [job EXCEPT !.left = @ - n]
          /\ UNCHANGED <<base, avail, got>>
     \/ WriterFails

(* What is left goes to the copy buffer, which is empty unless nothing is. *)
KeepRest ==
  /\ job.at = "blocks" /\ (job.left = 0 \/ job.left < bytes_per_block)
  /\ IF job.left = 0 THEN UNCHANGED <<base, avail>>
     ELSE base' = fed - job.left /\ avail' = avail + job.left
  /\ job' = NoJob /\ got' = OK
  /\ UNCHANGED histVars

-----------------------------------------------------------------------------
(* archive_write_client_close                                              *)

(* A setting of bytes_in_last_block that exceeds the block is not cut.     *)
LastBlockFaulty ==
  IF bytes_in_last_block <= 0 THEN bytes_per_block
  ELSE bytes_in_last_block * ((avail + bytes_in_last_block - 1) \div bytes_in_last_block)

(* The length of the last block with its padding.                          *)
LastBlock ==
  IF bytes_in_last_block <= 0 THEN bytes_per_block
  ELSE minimum(bytes_per_block,
         bytes_in_last_block * ((avail + bytes_in_last_block - 1) \div bytes_in_last_block))

ClientClose ==
  /\ got' = OK
  /\ job' = [at |-> "last", left |-> IF avail = 0 THEN 0 ELSE LastBlock, done |-> 0]
  /\ UNCHANGED <<base, avail, histVars>>

WriteLast ==
  /\ job.at = "last" /\ job.left > 0
  /\ \/ \E n \in Takes(job.left) :
          /\ Taken(base + job.done, job.left, n)
          /\ job' = [job EXCEPT !.left = @ - n, !.done = @ + n]
          /\ UNCHANGED <<base, avail, got>>
     \/ WriterFails
=============================================================================
