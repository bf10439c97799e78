-------------------------- MODULE ProgramFilters --------------------------
(***************************************************************************)
(* Chains of external programs as filters of an archive that is read       *)
(* (archive_read_support_filter_program.c) or written                      *)
(* (archive_write_add_filter_program.c), over the pipes of ChildProcess.   *)
(*                                                                         *)
(* Filter 1 is next to the client of a reader and next to the format of a  *)
(* writer, so bytes always go from filter p to filter p + 1.  at[p] is     *)
(* where the function of filter p stands; only one of them runs, the       *)
(* others on the way to it are in "upstream" or "passing".  The caller     *)
(* opens, reads or writes as often as it likes, and closes.                *)
(***************************************************************************)
EXTENDS ChildProcess

CONSTANTS
  OutBuf,     \* out_buf_len of a reader, child_buf_len of a writer
  Stream,     \* bound: bytes the source has, bytes the caller gives
  MaxLate     \* bound: writes after a write has failed

ASSUME FilterAssumption == {OutBuf, Stream} \subseteq Nat \ {0} /\ MaxLate \in Nat

VARIABLES
  direction,  \* "read" or "write"
  at,         \* where the function of each filter stands
  total,      \* bytes in the buffer of each filter: out_buf, child_buf
  block,      \* reader: bytes of each filter that were not consumed; 0 is the source
  left,       \* writer: bytes left of the call of each filter
  answer,     \* reader: "", "eof", "fatal" for good; writer: of the last call
  state,      \* writer: state of each filter
  call,       \* the caller's call, its answer, the filter it is opening or closing
  source,     \* reader: bytes the source has left; writer: bytes the caller has left
  handed,     \* bytes handed to the reader's caller, to the writer's client
  faulted     \* history: a write to a program or the client failed; writes since

frames == <<at, total, block, left, answer>>
outer  == <<direction, state, call, source, handed, faulted>>
vars   == <<childVars, frames, outer>>

Smaller(a, b) == IF a < b THEN a ELSE b

Init ==
  /\ ChildInit
  /\ direction \in {"read", "write"}
  /\ at = [p \in Chain |-> "idle"] /\ total = [p \in Chain |-> 0]
  /\ block = [p \in 0..Depth |-> 0] /\ left = [p \in Chain |-> 0]
  /\ answer = [p \in 0..Depth |-> ""] /\ state = [p \in Chain |-> "new"]
  /\ call = [op |-> "open", reply |-> "", now |-> IF direction = "read" THEN 1 ELSE Depth]
  /\ source = Stream /\ handed = 0 /\ faulted = [any |-> FALSE, late |-> 0]

Reading == direction = "read"
Writing == direction = "write"
Goes(p, place) == at' = [at EXCEPT ![p] = place]
Replies(r) == call' = [call EXCEPT !.op = "none", !.reply = r]

-----------------------------------------------------------------------------
(* Opening: __archive_read_program from the source up while the filters    *)
(* are chosen, __archive_write_program_open from the client up.            *)

OpenNext(p) == call' = IF p = (IF Reading THEN Depth ELSE 1)
                       THEN [call EXCEPT !.op = "none", !.reply = "ok"]
                       ELSE [call EXCEPT !.now = IF Reading THEN p + 1 ELSE p - 1]

Launch ==
  /\ call.op = "open"
  /\ LET p == call.now IN
       /\ Create(p) /\ OpenNext(p)
       /\ state' = [state EXCEPT ![p] = "open"]
  /\ UNCHANGED <<frames, direction, source, handed, faulted>>

(* The program cannot be started: the filters that are open are closed.    *)
LaunchFails ==
  /\ call.op = "open" /\ "launch" \in Faults
  /\ state' = [state EXCEPT ![call.now] = "fatal"]
  /\ call' = [op |-> "close", reply |-> "fatal", now |-> IF Reading THEN Depth ELSE 1]
  /\ UNCHANGED <<childVars, frames, direction, source, handed, faulted>>

-----------------------------------------------------------------------------
(* Reading: program_filter_read and child_read.                            *)

(* Filter q is asked for a block: __archive_read_filter_ahead behind its   *)
(* checks for bytes, the end and an error.                                 *)
Asks(q) == block[q] = 0 /\ answer[q] = ""

(* A negative answer: a failure for good; what this call had read is lost. *)
Breaks(p) ==
  /\ answer' = [answer EXCEPT ![p] = "fatal"]
  /\ total' = [total EXCEPT ![p] = 0] /\ Goes(p, "idle")
  /\ UNCHANGED block

Returns(p, n) ==
  /\ block' = [block EXCEPT ![p] = n]
  /\ answer' = [answer EXCEPT ![p] = IF n = 0 THEN "eof" ELSE @]
  /\ total' = [total EXCEPT ![p] = 0] /\ Goes(p, "idle")

ReadSource ==
  /\ Reading /\ at[1] = "upstream" /\ Asks(0)
  /\ \/ \E n \in 1..source : /\ block' = [block EXCEPT ![0] = n]
                             /\ source' = source - n /\ UNCHANGED answer
     \/ /\ source = 0 /\ answer' = [answer EXCEPT ![0] = "eof"]
        /\ UNCHANGED <<block, source>>
     \/ /\ "client" \in Faults /\ answer' = [answer EXCEPT ![0] = "fatal"]
        /\ UNCHANGED <<block, source>>
  /\ UNCHANGED <<childVars, at, total, left, direction, state, call, handed, faulted>>

(* program_filter_read is called: the child has nothing more once our end  *)
(* of its output is closed.                                                *)
BeginRead(q) ==
  /\ Reading /\ at[q] = "idle" /\ Asks(q)
  /\ IF q = Depth THEN call.op = "read" ELSE at[q + 1] = "upstream"
  /\ IF child_stdout[q] = "closed" THEN Returns(q, 0)
     ELSE Goes(q, "read") /\ UNCHANGED <<total, block, answer>>
  /\ UNCHANGED <<childVars, left, outer>>

ReadOutput(p) ==
  /\ Reading /\ at[p] = "read" /\ OutPipe(p) > 0
  /\ \E n \in 1..Smaller(OutPipe(p), OutBuf - total[p]) :
       /\ Drain(p, n)
       /\ IF total[p] + n = OutBuf THEN Returns(p, OutBuf)
          ELSE total' = [total EXCEPT ![p] = @ + n] /\ UNCHANGED <<at, block, answer>>
  /\ UNCHANGED <<left, outer>>

OutputOver(p) ==
  /\ Reading /\ at[p] = "read" /\ OutPipe(p) = 0 /\ OutputEnded(p)
  /\ Goes(p, "stop")
  /\ UNCHANGED <<childVars, total, block, left, answer, outer>>

(* Once the input is over the output is read with blocking calls.          *)
NothingYet(p) ==
  /\ Reading /\ at[p] = "read" /\ OutPipe(p) = 0 /\ ~OutputEnded(p)
  /\ child_stdout[p] = "open"
  /\ Goes(p, "upstream")
  /\ UNCHANGED <<childVars, total, block, left, answer, outer>>

InputOver(p) ==
  /\ Reading /\ at[p] = "upstream" /\ answer[p - 1] # ""
  /\ EndInput(p)
  /\ IF answer[p - 1] = "fatal" THEN Breaks(p)
     ELSE Goes(p, "read") /\ UNCHANGED <<total, block, answer>>
  /\ UNCHANGED <<left, outer>>

(* The child takes no more input: what it still writes can be read.        *)
InputRefused(p) ==
  /\ Reading /\ at[p] = "upstream" /\ block[p - 1] > 0 /\ ~Lives(p)
  /\ EndInput(p) /\ Goes(p, "read")
  /\ UNCHANGED <<total, block, left, answer, outer>>

(* Consumes all it was offered, whatever the child took.                   *)
ConsumedFaulty(p, n) == block' = [block EXCEPT ![p - 1] = 0]

(* What the child took is consumed upstream.                               *)
Consumed(p, n) == block' = [block EXCEPT ![p - 1] = @ - n]

Feed(p) ==
  /\ Reading /\ at[p] = "upstream" /\ block[p - 1] > 0 /\ Lives(p)
  /\ \/ /\ \E n \in 1..Smaller(block[p - 1], Room(p)) : Write(p, n) /\ Consumed(p, n)
        /\ Goes(p, "read")
     \/ Room(p) = 0 /\ Goes(p, "poll") /\ UNCHANGED <<childVars, block>>
  /\ UNCHANGED <<total, left, answer, outer>>

(* __archive_check_child, for reader and writer.                           *)
Poll(p) ==
  /\ at[p] = "poll" /\ Ready(p)
  /\ Goes(p, IF Reading THEN "read" ELSE "write")
  /\ UNCHANGED <<childVars, total, block, left, answer, outer>>

Stop(p) ==
  /\ at[p] = "stop" /\ Leave(p) /\ Goes(p, "wait")
  /\ UNCHANGED <<total, block, left, answer, outer>>

(* A child may die of SIGPIPE when we stop reading.                        *)
GoodEnd(status) == status \in {"ok", "sigpipe"}

(* The end of child_stop: the child is reaped once, its status is kept.    *)
Reaps(p) == IF kid[p].at = "reaped" THEN UNCHANGED childVars ELSE Reap(p)

StopInRead(p) ==
  /\ Reading /\ at[p] = "wait" /\ call.op = "read"
  /\ Reaps(p)
  /\ IF GoodEnd(kid[p].status) THEN Returns(p, total[p]) ELSE Breaks(p)
  /\ UNCHANGED <<left, outer>>

-----------------------------------------------------------------------------
(* Writing: __archive_write_program_write and child_write.                 *)

Ends(p, a) ==
  /\ answer' = [answer EXCEPT ![p] = a] /\ Goes(p, "idle")
  /\ left' = [left EXCEPT ![p] = 0]

WriteDone(p) ==
  /\ Writing /\ at[p] = "write" /\ left[p] = 0
  /\ Ends(p, "ok")
  /\ UNCHANGED <<childVars, total, block, outer>>

WriteInput(p) ==
  /\ Writing /\ at[p] = "write" /\ Lives(p)
  /\ \E n \in 1..Smaller(left[p], Room(p)) :
       Write(p, n) /\ left' = [left EXCEPT ![p] = @ - n]
  /\ UNCHANGED <<at, total, block, answer, outer>>

(* The child is gone: what it had written before is not looked for.        *)
WriteRefused(p) ==
  /\ Writing /\ at[p] = "write" /\ left[p] > 0 /\ ~Lives(p)
  /\ Ends(p, "fatal")
  /\ faulted' = [faulted EXCEPT !.any = TRUE]
  /\ UNCHANGED <<childVars, total, block, direction, state, call, source, handed>>

(* The pipe is full: make room by reading.  With the output closed the     *)
(* write blocks instead.                                                   *)
WriteStuck(p) ==
  /\ Writing /\ at[p] = "write" /\ left[p] > 0 /\ Lives(p) /\ Room(p) = 0
  /\ child_stdout[p] # "closed"
  /\ Goes(p, "drain")
  /\ UNCHANGED <<childVars, total, block, left, answer, outer>>

(* read() answers 0 at the end of the output, and when asked for 0 bytes.  *)
NoMore(p) == total[p] = OutBuf \/ (OutPipe(p) = 0 /\ OutputEnded(p))

DrainOver(p) ==
  /\ Writing /\ at[p] = "drain" /\ NoMore(p)
  /\ CloseStdout(p) /\ Goes(p, "write")
  /\ UNCHANGED <<total, block, left, answer, outer>>

DrainWaits(p) ==
  /\ Writing /\ at[p] = "drain" /\ ~NoMore(p) /\ OutPipe(p) = 0
  /\ Goes(p, "poll")
  /\ UNCHANGED <<childVars, total, block, left, answer, outer>>

(* Also in program_close, with a read that blocks.                         *)
DrainSome(p) ==
  /\ Writing /\ at[p] \in {"drain", "finish"}
  /\ child_stdout[p] # "closed"
  /\ \E n \in 1..Smaller(OutPipe(p), OutBuf - total[p]) :
       Drain(p, n) /\ total' = [total EXCEPT ![p] = @ + n]
  /\ Goes(p, "pass")
  /\ UNCHANGED <<block, left, answer, outer>>

Closing(p) == call.op = "close" /\ call.now = p

Passed(p) == /\ Goes(p, IF Closing(p) THEN "finish" ELSE "write")
             /\ total' = [total EXCEPT ![p] = 0]

(* A write ends with the failure; a close still has to reap the child.     *)
NotPassed(p) ==
  /\ UNCHANGED total
  /\ IF Closing(p)
     THEN /\ call' = [call EXCEPT !.reply = "fatal"] /\ Goes(p, "stop")
          /\ UNCHANGED <<answer, left>>
     ELSE Ends(p, "fatal") /\ UNCHANGED call

(* The last program writes to the client's filter.                         *)
PassToClient(p) ==
  /\ Writing /\ at[p] = "pass" /\ p = Depth
  /\ \/ /\ handed' = handed + total[p] /\ Passed(p)
        /\ UNCHANGED <<left, answer, call, faulted>>
     \/ /\ "client" \in Faults /\ NotPassed(p)
        /\ faulted' = [faulted EXCEPT !.any = TRUE] /\ UNCHANGED handed
  /\ UNCHANGED <<childVars, block, direction, state, source>>

PassDown(p) ==
  /\ Writing /\ at[p] = "pass" /\ p < Depth
  /\ at' = [at EXCEPT ![p] = "passing", ![p + 1] = "write"]
  /\ left' = [left EXCEPT ![p + 1] = total[p]]
  /\ UNCHANGED <<childVars, total, block, answer, outer>>

PassReturns(p) ==
  /\ Writing /\ at[p] = "passing" /\ at[p + 1] = "idle"
  /\ IF answer[p + 1] = "ok" THEN Passed(p) /\ UNCHANGED <<left, answer, call>>
     ELSE NotPassed(p)
  /\ UNCHANGED <<childVars, block, direction, state, source, handed, faulted>>

-----------------------------------------------------------------------------
(* Closing: close_filters from the top of the reader down, or              *)
(* __archive_write_filters_close from the format to the client.            *)

CloseNext(p) == IF Reading THEN p - 1 ELSE p + 1

(* The reader stops a child at once; the writer reads on until the end.    *)
BeginClose ==
  /\ call.op = "close" /\ call.now \in Chain
  /\ LET p == call.now IN
       \/ /\ state[p] = "open" /\ at[p] = "idle"
          /\ IF Reading THEN UNCHANGED childVars /\ Goes(p, "stop")
             ELSE EndInput(p) /\ Goes(p, "finish")
          /\ UNCHANGED call
       \/ /\ state[p] \in {"new", "fatal"}
          /\ call' = [call EXCEPT !.now = CloseNext(p)]
          /\ UNCHANGED <<childVars, at>>
  /\ UNCHANGED <<total, block, left, answer, direction, state, source, handed, faulted>>

FinishOver(p) ==
  /\ Writing /\ at[p] = "finish"
  /\ \/ child_stdout[p] # "closed" /\ NoMore(p) /\ UNCHANGED call
     \/ child_stdout[p] = "closed" /\ call' = [call EXCEPT !.reply = "fatal"]
  /\ Goes(p, "stop")
  /\ UNCHANGED <<childVars, total, block, left, answer, direction, state, source, handed, faulted>>

(* The last answer counts.                                                 *)
CloseAnswerFaulty(p) ==
  IF GoodEnd(kid[p].status) THEN "ok" ELSE IF Writing THEN "fatal" ELSE "warn"

(* A writer wants status 0; a reader's warning stays a warning, but never  *)
(* hides what is worse.                                                    *)
CloseAnswer(p) ==
  IF Writing THEN IF kid[p].status = "ok" THEN call.reply ELSE "fatal"
  ELSE IF GoodEnd(kid[p].status) \/ call.reply = "fatal" THEN call.reply ELSE "warn"

StopInClose(p) ==
  /\ at[p] = "wait" /\ Closing(p)
  /\ Reaps(p) /\ Goes(p, "idle")
  /\ call' = [call EXCEPT !.reply = CloseAnswer(p), !.now = CloseNext(p)]
  /\ state' = [state EXCEPT ![p] = "closed"]
  /\ UNCHANGED <<total, block, left, answer, direction, source, handed, faulted>>

CloseReturns ==
  /\ call.op = "close" /\ call.now \notin Chain
  /\ call' = [call EXCEPT !.op = "closed"]
  /\ UNCHANGED <<childVars, frames, direction, state, source, handed, faulted>>

-----------------------------------------------------------------------------
(* The caller.                                                             *)

AskBlock ==
  /\ Reading /\ call.op = "none" /\ call.reply \in {"ok", "data"}
  /\ call' = [call EXCEPT !.op = "read"]
  /\ UNCHANGED <<childVars, frames, direction, state, source, handed, faulted>>

(* The caller consumes what it gets.                                       *)
GetBlock ==
  /\ call.op = "read" /\ at[Depth] = "idle" /\ ~Asks(Depth)
  /\ Replies(IF block[Depth] > 0 THEN "data" ELSE answer[Depth])
  /\ handed' = handed + block[Depth] /\ block' = [block EXCEPT ![Depth] = 0]
  /\ UNCHANGED <<childVars, at, total, left, answer, direction, state, source, faulted>>

(* After a failure the trailer of the format is still written by close.    *)
GiveBytes ==
  /\ Writing /\ call.op = "none"
  /\ IF faulted.any THEN faulted.late < MaxLate ELSE TRUE
  /\ \E n \in 1..source : /\ left' = [left EXCEPT ![1] = n]
                          /\ source' = source - n
  /\ Goes(1, "write") /\ call' = [call EXCEPT !.op = "write"]
  /\ faulted' = [faulted EXCEPT !.late = IF faulted.any THEN @ + 1 ELSE @]
  /\ UNCHANGED <<childVars, total, block, answer, direction, state, handed>>

BytesGiven ==
  /\ call.op = "write" /\ at[1] = "idle"
  /\ Replies(answer[1])
  /\ UNCHANGED <<childVars, frames, direction, state, source, handed, faulted>>

AskClose ==
  /\ call.op = "none"
  /\ call' = [op |-> "close", reply |-> "ok", now |-> IF Reading THEN Depth ELSE 1]
  /\ UNCHANGED <<childVars, frames, direction, state, source, handed, faulted>>

Library ==
  \/ Launch \/ LaunchFails \/ ReadSource \/ BeginClose \/ CloseReturns
  \/ GetBlock \/ BytesGiven
  \/ \E p \in Chain :
       \/ BeginRead(p) \/ ReadOutput(p) \/ OutputOver(p) \/ NothingYet(p)
       \/ InputOver(p) \/ InputRefused(p) \/ Feed(p) \/ Poll(p) \/ Stop(p)
       \/ StopInRead(p) \/ WriteDone(p) \/ WriteInput(p) \/ WriteRefused(p)
       \/ WriteStuck(p) \/ DrainOver(p) \/ DrainWaits(p) \/ DrainSome(p)
       \/ PassToClient(p) \/ PassDown(p) \/ PassReturns(p)
       \/ FinishOver(p) \/ StopInClose(p)

Caller == AskBlock \/ GiveBytes \/ AskClose

Works(p) == ChildWorks(p) /\ UNCHANGED <<frames, outer>>
Dies(p)  == ChildDies(p) /\ UNCHANGED <<frames, outer>>

Next == Library \/ Caller \/ \E p \in Chain : Works(p) \/ Dies(p)

(* A call that was made goes on, and so does every program.                *)
Fairness == WF_vars(Library) /\ \A p \in Chain : WF_vars(Works(p))

Spec == Init /\ [][Next]_vars /\ Fairness

-----------------------------------------------------------------------------
(* Every byte drained from a child is in one place until something fails:  *)
(* in the buffer of its filter, in a block a reader has not consumed, or   *)
(* with the next program, caller or client, in whatever order pipes fill   *)
(* and calls return (child_read, child_write).                             *)
Onward(p) == IF p < Depth THEN written[p + 1] ELSE handed
Underway(p) == IF at[p] = "passing" THEN left[p + 1] ELSE total[p]

Conserved ==
  \A p \in Chain :
    \/ IF Reading THEN answer[p] = "fatal" ELSE faulted.any \/ call.reply = "fatal"
    \/ drained[p] = Onward(p) + block[p] + Underway(p)

(* The end of the stream, and a close without a complaint, are what they   *)
(* say: a reader is told of the end when the last program ended well and   *)
(* all it wrote was handed out; a writer's close is OK when every program  *)
(* ended well and all they wrote is with the client.  After a close every  *)
(* child has been waited for and the bad ends are in its answer            *)
(* (child_stop, __archive_write_program_close).                            *)
EndMeansAll ==
  /\ Reading /\ call.reply = "eof" =>
       handed = made[Depth] /\ kid[Depth].status = "ok"
  /\ call.op = "closed" =>
       /\ \A p \in created : kid[p].at = "reaped"
       /\ call.reply = "ok" => \A p \in Chain : kid[p].status \in {"ok", "sigpipe"}
       /\ Writing /\ call.reply = "ok" /\ ~faulted.any =>
            /\ handed = made[Depth] /\ written[1] = Stream - source
            /\ \A p \in Chain : kid[p].status = "ok" /\ drained[p] = made[p]

(* Two programs and the library wait on four pipes, and never all of them  *)
(* at once: every call returns (__archive_check_child waits for either     *)
(* pipe, children hold none of our ends).                                  *)
CallsReturn == call.op \notin {"none", "closed"} ~> call.op \in {"none", "closed"}
=============================================================================
