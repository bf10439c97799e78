-------------------------- MODULE ReadAheadRefinement --------------------------
(***************************************************************************)
(* ReadAhead implements ByteStream: whatever volumes, blocks, callbacks,   *)
(* errors and failed seeks there are below, the code above sees one stream *)
(* it can look into, move over by exact amounts and reposition.            *)
(*                                                                         *)
(* The abstract position is f->position less what the consume in progress  *)
(* has moved so far; fills, volume switches, copies and the passes of a    *)
(* skip are stuttering steps.                                              *)
(***************************************************************************)
EXTENDS ReadAheadProofs

(* The stream has been left somewhere without an error: by a failed seek,  *)
(* by a failed skip that went unnoticed, or at a volume that did not open  *)
(* and was taken for the end.                                              *)
Astray == lost \/ cut

(* A failed filter has no call in progress.                                *)
DeadIsIdle == fatal => call = Idle

(* The position stays in the stream, also once the filter has failed.      *)
InStream == ~lost => position <= Size

(* The end of file is the end of the last volume.                          *)
EndIsEnd == eof /\ ~Astray /\ ~fatal => source = Size

(* The abstract invariants the refinement needs on top of the agreement of *)
(* buffers and client: an error answer is given within the stream, a short *)
(* answer at its end.                                                      *)
AbsInv == DeadIsIdle /\ InStream /\ EndIsEnd

(* A consume in progress has moved by call.done. *)
Consuming == call.op \in {"skip", "discard"}
Pos       == IF Consuming THEN position - call.done ELSE position

-----------------------------------------------------------------------------
(* The invariants.                                                         *)

(* Volumes lie in the stream.                                              *)
LEMMA VolumeInStream ==
  ASSUME NEW v \in Nodes PROVE Start[v + 1] \in Nat /\ Size \in Nat /\ Start[v + 1] <= Size
<1>1. v + 1 \in 0..Volumes /\ Volumes \in 0..Volumes /\ v + 1 <= Volumes
  BY StartNat, StreamAssumption DEF Nodes
<1> QED BY <1>1, StreamAssumption DEF Size

(* As long as the stream is in step, the position, the data held and the   *)
(* client all are within the stream.                                       *)
LEMMA WithinStream ==
  ASSUME IInv, StepInv, ~lost, ~fatal
  PROVE  /\ position \in Nat /\ Len(copy) \in Nat /\ cavail \in Nat /\ source \in Nat
         /\ Size \in Nat
         /\ call.op # "skip" => source = position + Len(copy) + cavail
         /\ source <= Size /\ position <= Size
<1>0. TypeOK BY DEF IInv
<1>1. /\ position \in Nat /\ Len(copy) \in Nat /\ cavail \in Nat /\ source \in Nat
      /\ cursor \in Nodes
  BY DEF IInv, TypeOK
<1>2. SourceInStep BY DEF StepInv, InStep
<1>3. source <= Start[cursor + 1] BY DEF StepInv, InVolume, VolumeEnd
<1>4. Start[cursor + 1] \in Nat /\ Size \in Nat /\ Start[cursor + 1] <= Size
  BY <1>1, VolumeInStream
<1>5. call.op # "skip" => source = position + Len(copy) + cavail BY <1>0, <1>2, Calm
<1>6. Underway \in Nat BY SkippingCall DEF Underway
<1>7. position <= source BY <1>1, <1>2, <1>6 DEF SourceInStep
<1> QED BY <1>1, <1>3, <1>4, <1>5, <1>7

(* Nothing is left to deliver at the end of the stream.                    *)
LEMMA NothingAtEnd ==
  ASSUME IInv, StepInv, ~lost, ~fatal, source = Size PROVE Remaining = 0 /\ Delivered = {}
<1>1. cursor \in Nodes /\ source <= VolumeEnd /\ source \in Nat
  BY DEF IInv, TypeOK, StepInv, InVolume
<1>2. VolumeEnd \in Nat /\ VolumeEnd <= Size BY <1>1, VolumeInStream DEF VolumeEnd
<1>3. Remaining = 0 BY <1>1, <1>2 DEF Remaining, maximum
<1>4. minimum(BlockMax, 0) = 0 BY StreamAssumption DEF minimum
<1> QED BY <1>3, <1>4 DEF Delivered

(* A drained volume without a successor is the last one, unless the next   *)
(* one did not open.                                                       *)
LEMMA EndOfLast ==
  ASSUME IInv, StepInv, ~lost, ~fatal, NoMore, ~cut'
  PROVE  source' = source /\ source = Size
<1>1. cursor \in Nodes /\ source <= VolumeEnd /\ source \in Nat /\ Remaining = 0
  BY DEF IInv, TypeOK, StepInv, InVolume, NoMore, VolumeDone
<1>2. VolumeEnd \in Nat BY <1>1, VolumeInStream DEF VolumeEnd
<1>3. source = VolumeEnd BY <1>1, <1>2 DEF Remaining, maximum
<1>4. cursor = Last BY DEF NoMore
<1>5. cursor + 1 = Volumes BY <1>4, StreamAssumption DEF Last
<1> QED BY <1>3, <1>4, <1>5, StepEnd DEF VolumeEnd, Size

(* A step that fails the filter answers and moves nothing.                 *)
LEMMA AbsFail ==
  ASSUME AbsInv, fatal' = TRUE, call' = Idle, position' = position, lost' = lost
  PROVE  AbsInv'
BY DEF AbsInv, DeadIsIdle, InStream, EndIsEnd

(* A stream a failed seek has left anywhere promises nothing but that a    *)
(* failed filter is idle.                                                  *)
LEMMA AbsLost ==
  ASSUME lost' = TRUE, DeadIsIdle' PROVE AbsInv'
BY DEF AbsInv, InStream, EndIsEnd, Astray

(* The end of the file stays where it is as long as the client does not    *)
(* move.                                                                   *)
LEMMA AbsSame ==
  ASSUME AbsInv, UNCHANGED <<position, fatal, lost, cut>>, eof' = eof, source' = source,
         call' = call \/ call' = Idle
  PROVE  AbsInv'
BY DEF AbsInv, DeadIsIdle, InStream, EndIsEnd, Astray

(* A step of a call in progress is one of a filter that has not failed.    *)
LEMMA AliveCall == ASSUME AbsInv, call.op # "idle" PROVE ~fatal
BY DEF AbsInv, DeadIsIdle, Idle

(* The calls that begin keep the invariants: looking ahead moves nothing,  *)
(* consuming from the buffers stays within what the client has delivered.  *)
LEMMA AbsAhead == ASSUME AbsInv, NEW min \in Mins, Ahead(min) PROVE AbsInv'
<1>1. CASE fatal BY <1>1, AbsSame DEF Ahead, Return, streamVars, clientVars
<1>2. CASE ~fatal
  <2>1. UNCHANGED <<position, fatal, eof, source, lost, cut>>
    BY DEF Ahead, streamVars, clientVars
  <2> QED BY <1>2, <2>1 DEF AbsInv, DeadIsIdle, InStream, EndIsEnd, Astray
<1> QED BY <1>1, <1>2

(* What a consume takes from the buffers, in numbers.                      *)
LEMMA ConsumeStep ==
  ASSUME IInv, NEW request \in Nat, Consume(request), ~(fatal /\ request > 0)
  PROVE  \E taken \in Nat :
           /\ taken <= request /\ taken <= Len(copy) + cavail
           /\ position' = position + taken
           /\ \/ taken = request /\ Return(BS!Moved(request))
              \/ /\ taken < request
                 /\ Begin([op |-> "skip", left |-> request - taken, done |-> taken, got |-> 0, missed |-> 0])
           /\ UNCHANGED <<fatal, eof, source, lost, cut>>
<1> DEFINE c    == minimum(request, Len(copy))
           b    == minimum(request - c, cavail)
           left == request - c - b
<1>1. /\ position' = position + c + b
      /\ IF left = 0 THEN Return(BS!Moved(request))
         ELSE Begin([op |-> "skip", left |-> left, done |-> c + b, got |-> 0, missed |-> 0])
      /\ UNCHANGED <<fatal, eof, source, lost, cut>>
  BY DEF Consume, clientVars
<1>2. Len(copy) \in Nat /\ cavail \in Nat /\ position \in Nat BY DEF IInv, TypeOK
<1>3. c \in Nat /\ c <= Len(copy) /\ c <= request BY <1>2, MinimumType
<1>4. request - c \in Nat BY <1>3
<1>5. b \in Nat /\ b <= cavail /\ b <= request - c BY <1>2, <1>4, MinimumType
<1> HIDE DEF c, b
<1>6. c + b \in Nat /\ c + b <= request /\ c + b <= Len(copy) + cavail BY <1>2, <1>3, <1>5
<1>7. left = request - (c + b) /\ position + c + b = position + (c + b)
  BY <1>2, <1>3, <1>5
<1>8. left = 0 => c + b = request BY <1>6, <1>7
<1>9. left # 0 => c + b < request BY <1>6, <1>7
<1> HIDE DEF left
<1> QED BY <1>1, <1>6, <1>7, <1>8, <1>9

(* Consuming from the buffers moves the position over delivered bytes.     *)
LEMMA AbsConsume ==
  ASSUME IInv, StepInv, AbsInv, NEW request \in Amounts, Consume(request)
  PROVE  AbsInv'
<1>1. request \in Nat BY StartNat
<1>2. CASE fatal /\ request > 0
  BY <1>2, AbsSame DEF Consume, Return, streamVars, clientVars
<1>3. CASE ~(fatal /\ request > 0)
  <2>1. PICK taken \in Nat :
           /\ taken <= request /\ taken <= Len(copy) + cavail
           /\ position' = position + taken
           /\ \/ taken = request /\ Return(BS!Moved(request))
              \/ /\ taken < request
                 /\ Begin([op |-> "skip", left |-> request - taken, done |-> taken, got |-> 0, missed |-> 0])
           /\ UNCHANGED <<fatal, eof, source, lost, cut>>
    BY <1>1, <1>3, ConsumeStep
  <2>5. call.op # "skip" BY <1>3 DEF Consume, Idle
  <2>2. DeadIsIdle'
    <3>1. CASE fatal
      <4>1. request = 0 BY <1>1, <1>3, <3>1
      <4> QED BY <1>1, <2>1, <4>1 DEF Return, DeadIsIdle
    <3> QED BY <2>1, <3>1 DEF DeadIsIdle
  <2>3. EndIsEnd' BY <2>1 DEF AbsInv, EndIsEnd, Astray
  <2>4. InStream'
    <3>1. CASE lost BY <2>1, <3>1 DEF InStream
    <3>2. CASE ~lost /\ fatal
      <4>1. taken = 0 BY <1>1, <1>3, <2>1, <3>2
      <4>2. position' = position BY <2>1, <4>1 DEF IInv, TypeOK
      <4> QED BY <2>1, <3>2, <4>2 DEF AbsInv, InStream
    <3>3. CASE ~lost /\ ~fatal
      BY <2>1, <2>5, <3>3, WithinStream DEF InStream
    <3> QED BY <3>1, <3>2, <3>3
  <2> QED BY <2>2, <2>3, <2>4 DEF AbsInv
<1> QED BY <1>2, <1>3

(* The look-ahead loop never moves the position.                           *)
LEMMA AbsPull ==
  ASSUME IInv, StepInv, AbsInv, Pull PROVE AbsInv'
<1>0. ~fatal BY AliveCall DEF Pull, PeekCopy, PeekClient, PeekAtEnd, Fill, FillError,
                NextVolume, StreamEnd, Gather, GrowFails, MustPull, Looking
<1>1. CASE PeekCopy \/ PeekClient \/ PeekAtEnd
  BY <1>1, AbsSame DEF PeekCopy, PeekClient, PeekAtEnd, Return, streamVars, clientVars
<1>2. CASE FillError \/ GrowFails
  BY <1>2, AbsFail DEF FillError, GrowFails, Return
<1>3. CASE Gather BY <1>3, AbsSame DEF Gather, streamVars, clientVars
<1>4. CASE Fill \/ NextVolume
  <2>1. ~eof /\ UNCHANGED <<position, fatal, eof, lost, call>>
    BY <1>4 DEF Fill, NextVolume, streamVars
  <2> QED BY <2>1 DEF AbsInv, DeadIsIdle, InStream, EndIsEnd, Astray
<1>5. CASE StreamEnd
  <2>1. NoMore /\ call' = Idle /\ UNCHANGED <<position, fatal, lost>>
    BY <1>5 DEF StreamEnd, Return
  <2>2. ~lost /\ ~cut' => source' = Size BY <1>0, <2>1, EndOfLast
  <2> QED BY <2>1, <2>2 DEF AbsInv, DeadIsIdle, InStream, EndIsEnd, Astray
<1> QED BY <1>1, <1>2, <1>3, <1>4, <1>5 DEF Pull

(* A step of a consume that leaves the stream in step stays within it.     *)
LEMMA AbsMoved ==
  ASSUME IInv', StepInv', AbsInv, ~fatal, UNCHANGED <<fatal, lost>>,
         eof' /\ ~lost /\ ~cut' => source' = Size
  PROVE  AbsInv'
<1>1. DeadIsIdle' BY DEF DeadIsIdle
<1>2. EndIsEnd' BY DEF EndIsEnd, Astray
<1>3. InStream'
  <2>1. SUFFICES ASSUME ~lost' PROVE position' <= Size BY DEF InStream
  <2>2. /\ position' \in Nat /\ Len(copy') \in Nat /\ cavail' \in Nat /\ source' \in Nat
        /\ cursor' \in Nodes
    BY DEF IInv, TypeOK
  <2>3. source' = position' + Len(copy') + cavail' + Underway'
    BY <2>1 DEF StepInv, InStep, SourceInStep
  <2>6. Underway' \in Nat
    <3>1. call' \in CallType BY DEF IInv, TypeOK
    <3> QED BY <3>1 DEF CallType, Idle, Underway
  <2>4. source' <= Start[cursor' + 1] BY <2>1 DEF StepInv, InVolume, VolumeEnd
  <2>5. Start[cursor' + 1] \in Nat /\ Size \in Nat /\ Start[cursor' + 1] <= Size
    BY <2>2, VolumeInStream
  <2> QED BY <2>2, <2>3, <2>4, <2>5, <2>6
<1> QED BY <1>1, <1>2, <1>3 DEF AbsInv

(* Skipping in the client: past the end of the stream nothing is skipped.  *)
LEMMA AbsSkip ==
  ASSUME IInv, StepInv, AbsInv, Orderly, IInv', StepInv',
         SkipByCallback \/ SeekerFails \/ SkipBySeeker \/ NoSkipper
  PROVE  AbsInv'
<1>0. TypeOK /\ ~fatal /\ call.op = "skip"
  BY AliveCall DEF IInv, SkipByCallback, SkipServes, SkipFails, SkipStops, SkipOverruns,
                   Skipping, SeekerFails, SkipBySeeker, NoSkipper
<1>a. call.left \in Nat \ {0} BY <1>0, SkippingCall
<1>b. ASSUME ~lost, source = Size PROVE VolumeEnd \in Nat /\ VolumeEnd <= source /\ source \in Nat
  BY <1>0, <1>b, VolumeInStream DEF VolumeEnd, TypeOK
<1>1. CASE SkipByCallback
  <2>1. CASE lost' = TRUE /\ fatal' = fatal
    BY <1>0, <2>1, AbsLost DEF DeadIsIdle
  <2>2. CASE UNCHANGED <<fatal, lost>> /\ eof' = eof /\ cut' = cut /\ source' = source
    BY <1>0, <2>2, AbsMoved DEF AbsInv, EndIsEnd, Astray
  <2>3. CASE SkipServes
    <3>1. UNCHANGED <<fatal, eof, cut>> /\ (lost' = lost \/ lost' = TRUE)
      BY <1>0, <2>3 DEF SkipServes, TypeOK
    <3>2. ASSUME eof, ~lost, ~cut PROVE FALSE
      <4>1. source = Size BY <1>0, <3>2 DEF AbsInv, EndIsEnd, Astray
      <4>2. Remaining = 0 BY <1>0, <3>2, <4>1, NothingAtEnd
      <4>3. Skipping BY <2>3 DEF SkipServes
      <4>4. PICK get \in 1..minimum(Asked, Within) : TRUE BY <2>3 DEF SkipServes
      <4>5. get \in Nat /\ get >= 1 /\ get <= Within /\ Within \in Nat /\ Within <= Remaining
        BY <4>3, <4>4, AnswerType
      <4> QED BY <4>2, <4>5
    <3> QED BY <1>0, <2>1, <3>1, <3>2, AbsMoved
  <2>4. CASE SkipFails BY <2>2, <2>4 DEF SkipFails, streamVars, clientVars
  <2>5. CASE SkipStops
    <3>1. CASE call.got < call.missed BY <2>5, <3>1, AbsFail DEF SkipStops, Return
    <3>2. CASE ~(call.got < call.missed)
      <4>1. UNCHANGED <<fatal, eof, cut, source>> /\ (lost' = lost \/ lost' = TRUE)
        BY <1>0, <2>5, <3>2 DEF SkipStops, clientVars, TypeOK
      <4> QED BY <2>1, <2>2, <4>1
    <3> QED BY <3>1, <3>2
  <2>6. CASE SkipOverruns BY <2>6, AbsFail DEF SkipOverruns, Return
  <2> QED BY <1>1, <2>3, <2>4, <2>5, <2>6 DEF SkipByCallback
<1>2. CASE SeekerFails BY <1>2, AbsFail DEF SeekerFails, Return
<1>3. CASE SkipBySeeker
  <2>1. eof' = eof /\ lost' = lost /\ cut' = cut /\ ~SeeksPastEnd
    BY <1>0, <1>3 DEF SkipBySeeker, Orderly, TypeOK
  <2>2. CASE fatal' = TRUE
    <3>1. Return(BS!IOError) /\ UNCHANGED position
      BY <1>0, <1>3, <2>2 DEF SkipBySeeker
    <3> QED BY <2>1, <2>2, <3>1, AbsFail DEF Return
  <2>3. CASE fatal' # TRUE
    <3>1. ~(source + call.left > VolumeEnd) /\ UNCHANGED fatal
      BY <1>3, <2>1, <2>3 DEF SkipBySeeker
    <3>2. ASSUME eof, ~lost, ~cut PROVE FALSE
      <4>1. source = Size BY <1>0, <3>2 DEF AbsInv, EndIsEnd, Astray
      <4> QED BY <1>a, <1>b, <3>1, <3>2, <4>1
    <3> QED BY <1>0, <2>1, <3>1, <3>2, AbsMoved
  <2> QED BY <2>2, <2>3
<1>4. CASE NoSkipper
  <2>1. UNCHANGED <<fatal, eof, lost, cut, source>> BY <1>4 DEF NoSkipper, clientVars
  <2> QED BY <1>0, <2>1, AbsMoved DEF AbsInv, EndIsEnd, Astray
<1> QED BY <1>1, <1>2, <1>3, <1>4

(* Reading and discarding: past the end of the stream nothing is read.     *)
LEMMA AbsDiscard ==
  ASSUME IInv, StepInv, AbsInv, IInv', StepInv',
         Discard \/ DiscardError \/ DiscardNext \/ DiscardEnd
  PROVE  AbsInv'
<1>0. TypeOK /\ ~fatal
  BY AliveCall DEF IInv, Discard, DiscardError, DiscardNext, DiscardEnd
<1>1. CASE Discard
  <2>1. Delivered # {} /\ UNCHANGED <<fatal, eof, lost, cut>> BY <1>1 DEF Discard
  <2>2. ASSUME eof, ~lost, ~cut PROVE FALSE
    <3>1. source = Size BY <1>0, <2>2 DEF AbsInv, EndIsEnd, Astray
    <3> QED BY <1>0, <2>1, <2>2, <3>1, NothingAtEnd
  <2> QED BY <1>0, <2>1, <2>2, AbsMoved
<1>2. CASE DiscardError BY <1>2, AbsFail DEF DiscardError, Return
<1>3. CASE DiscardNext
  <2>1. OnToNext /\ UNCHANGED <<fatal, eof, lost, cut>>
    BY <1>3 DEF DiscardNext, OnToNext, streamVars
  <2>2. ASSUME eof, ~lost, ~cut PROVE source' = Size
    <3>1. source = Size BY <1>0, <2>2 DEF AbsInv, EndIsEnd, Astray
    <3> QED BY <1>0, <2>1, <2>2, <3>1, StepEnd
  <2> QED BY <1>0, <2>1, <2>2, AbsMoved
<1>4. CASE DiscardEnd
  <2>1. NoMore /\ UNCHANGED <<fatal, lost>> BY <1>4 DEF DiscardEnd
  <2>2. ~lost /\ ~cut' => source' = Size BY <1>0, <2>1, EndOfLast
  <2> QED BY <1>0, <2>1, <2>2, AbsMoved
<1> QED BY <1>1, <1>2, <1>3, <1>4

(* A seek that breaks in a callback, or stops, is not answered by a place  *)
(* and leaves the stream lost.                                             *)
LEMMA StopsShape ==
  ASSUME \E v, at, open, known : SeekStops(v, at, open, known)
  PROVE  /\ \E why : Return(BS!NotSought(why))
         /\ lost' = TRUE /\ UNCHANGED <<position, fatal, eof, cut>>
BY DEF SeekStops, streamVars

(* A seek that succeeds answers with the place it has moved to, a byte of  *)
(* the stream or its end.                                                  *)
LEMMA DoneShape ==
  ASSUME NEW v \in Nodes, NEW to \in Nat, NEW known \in 0..Volumes,
         to <= Start[v + 1], SeekDone(v, to, known)
  PROVE  \E at \in 0..Size :
           /\ Return(BS!Sought(at)) /\ position' = at
           /\ eof' = FALSE /\ lost' = FALSE /\ cut' = FALSE /\ UNCHANGED fatal
<1>1. to \in 0..Size BY VolumeInStream
<1> QED BY <1>1 DEF SeekDone

(* What the code above can see of any seek.                                *)
LEMMA SeekShape ==
  ASSUME TypeOK, Seek
  PROVE  /\ call = Idle
         /\ \/ /\ \E why : Return(BS!NotSought(why))
               /\ UNCHANGED <<position, fatal, eof, cut>>
               /\ lost' = TRUE \/ (lost' = lost /\ source' = source)
            \/ /\ ~fatal
               /\ \E at \in 0..Size :
                     /\ Return(BS!Sought(at)) /\ position' = at
                     /\ eof' = FALSE /\ lost' = FALSE /\ cut' = FALSE /\ UNCHANGED fatal
<1>1. CASE SeekRefused BY <1>1 DEF SeekRefused, streamVars, clientVars
<1>2. CASE SeekUnsupported
  <2>1. /\ call = Idle /\ (\E why : Return(BS!NotSought(why))) /\ (SwitchTo(0) \/ SwitchFails(0))
        /\ lost' = (lost \/ cursor # 0) /\ UNCHANGED <<position, fatal, eof, cut>>
    BY <1>2 DEF SeekUnsupported, streamVars
  <2>2. CASE cursor = 0
    <3>1. source' = source BY <2>1, <2>2 DEF SwitchTo, SwitchFails
    <3>2. lost' = lost BY <2>1, <2>2 DEF TypeOK
    <3> QED BY <2>1, <3>1, <3>2
  <2>3. CASE cursor # 0
    <3>1. lost' = TRUE BY <2>1, <2>3
    <3> QED BY <2>1, <3>1
  <2> QED BY <2>2, <2>3
<1>3. ASSUME NEW offset \in Int, SeekSet(offset)
      PROVE  /\ call = Idle /\ ~fatal
             /\ \/ \E v, at, open, known : SeekStops(v, at, open, known)
                \/ \E v \in Nodes, to \in Nat, known \in 0..Volumes :
                      to <= Start[v + 1] /\ SeekDone(v, to, known)
  <2>1. PICK v \in Nodes :
          \/ SeekBreaks(minimum(sized, v), v)
          \/ offset \in Start[v]..Start[v + 1] /\ SeekDone(v, offset, v + 1)
          \/ SeekStops(v, Start[v + 1], TRUE, v + 1)
    BY <1>3 DEF SeekSet
  <2>2. Start[v] \in Nat /\ Start[v + 1] \in Nat /\ v + 1 \in 0..Volumes BY HoldsType
  <2>3. SeekBreaks(minimum(sized, v), v) => \E u, at, open, known : SeekStops(u, at, open, known)
    BY DEF SeekBreaks
  <2>4. offset \in Start[v]..Start[v + 1] => offset \in Nat /\ offset <= Start[v + 1] BY <2>2
  <2>5. call = Idle /\ ~fatal BY <1>3 DEF SeekSet
  <2> QED BY <2>1, <2>2, <2>3, <2>4, <2>5
<1>4. ASSUME NEW offset \in Int, SeekEnd(offset)
      PROVE  /\ call = Idle /\ ~fatal
             /\ \/ \E v, at, open, known : SeekStops(v, at, open, known)
                \/ \E v \in Nodes, to \in Nat, known \in 0..Volumes :
                      to <= Start[v + 1] /\ SeekDone(v, to, known)
  <2>1. PICK v \in Nodes :
          /\ HoldsFromEnd(v, offset)
          /\ \/ SeekBreaks(minimum(sized, Last), Last)
             \/ FromEnd(offset) >= 0 /\ SeekDone(v, FromEnd(offset), Volumes)
             \/ \E at \in {Start[v], Start[v + 1]} : SeekStops(v, at, TRUE, Volumes)
             \/ \E open \in BOOLEAN : SeekStops(v, Start[v], open, Volumes)
    BY <1>4 DEF SeekEnd
  <2>2. Volumes \in 0..Volumes BY HoldsType
  <2>3. SeekBreaks(minimum(sized, Last), Last) => \E u, at, open, known : SeekStops(u, at, open, known)
    BY DEF SeekBreaks
  <2>4. call = Idle /\ ~fatal /\ offset <= 0 BY <1>4 DEF SeekEnd
  <2>5. FromEnd(offset) >= 0 => FromEnd(offset) \in Nat /\ FromEnd(offset) <= Start[v + 1]
    BY <2>1, <2>4, FromEndInVolume
  <2> QED BY <2>1, <2>2, <2>3, <2>4, <2>5
<1>5. CASE \E offset \in Offsets :
            SeekSet(offset) \/ SeekSet(position + offset) \/ SeekEnd(offset)
  <2>1. \A offset \in Offsets : offset \in Int /\ position + offset \in Int
    BY StartNat DEF TypeOK
  <2>2. /\ call = Idle /\ ~fatal
        /\ \/ \E v, at, open, known : SeekStops(v, at, open, known)
           \/ \E v \in Nodes, to \in Nat, known \in 0..Volumes :
                 to <= Start[v + 1] /\ SeekDone(v, to, known)
    BY <1>3, <1>4, <1>5, <2>1
  <2>3. CASE \E v, at, open, known : SeekStops(v, at, open, known)
    BY <2>2, <2>3, StopsShape
  <2>4. CASE \E v \in Nodes, to \in Nat, known \in 0..Volumes :
               to <= Start[v + 1] /\ SeekDone(v, to, known)
    BY <2>2, <2>4, DoneShape
  <2> QED BY <2>2, <2>3, <2>4
<1> QED BY <1>1, <1>2, <1>5 DEF Seek

(* No seek leaves the stream.                                              *)
LEMMA AbsSeek == ASSUME TypeOK, AbsInv, Seek PROVE AbsInv'
<1>1. CASE /\ \E why : Return(BS!NotSought(why))
           /\ UNCHANGED <<position, fatal, eof, cut>>
           /\ lost' = TRUE \/ (lost' = lost /\ source' = source)
  <2>1. call' = Idle BY <1>1 DEF Return
  <2> QED BY <1>1, <2>1, AbsLost, AbsSame DEF DeadIsIdle
<1>2. CASE \E at \in 0..Size :
              /\ Return(BS!Sought(at)) /\ position' = at
              /\ eof' = FALSE /\ lost' = FALSE /\ cut' = FALSE /\ UNCHANGED fatal
  <2>1. Size \in Nat BY StartNat
  <2> QED BY <1>2, <2>1 DEF AbsInv, DeadIsIdle, InStream, EndIsEnd, Return
<1> QED BY <1>1, <1>2, SeekShape

(* The switch at the end of archive_read_open1 has nothing to move.        *)
LEMMA OpenStill == ASSUME IInv, StepInv, Orderly, OpenDone PROVE UNCHANGED <<cursor, source>>
<1>1. Volumes = 1 BY DEF Orderly, StepInv, OpenDone
<1>2. cursor = 0 BY <1>1 DEF IInv, TypeOK, Nodes
<1> QED BY <1>2 DEF OpenDone, SwitchTo, SwitchFails

(* The four invariants together are inductive.                             *)
LEMMA AbsInit == Init => AbsInv
<1>1. Size \in Nat BY StartNat
<1> QED BY <1>1 DEF Init, AbsInv, DeadIsIdle, InStream, EndIsEnd

LEMMA AbsNext ==
  ASSUME IInv, StepInv, AbsInv, Orderly, [Next]_vars
  PROVE  IInv' /\ StepInv' /\ AbsInv'
<1>0. IInv' /\ StepInv' BY IInvNext, StepInvNext
<1>1. CASE UNCHANGED vars
  BY <1>0, <1>1, AbsSame DEF vars, streamVars, clientVars
<1>2. CASE Calls
  <2>1. CASE OpenDone
    BY <1>0, <2>1, OpenStill, AbsSame DEF OpenDone, streamVars
  <2>2. TypeOK BY DEF IInv
  <2> QED BY <1>0, <1>2, <2>1, <2>2, AbsAhead, AbsConsume, AbsSeek DEF Calls
<1>3. CASE Pull BY <1>0, <1>3, AbsPull
<1>4. CASE Skip BY <1>0, <1>4, AbsSkip, AbsDiscard DEF Skip
<1> QED BY <1>0, <1>1, <1>2, <1>3, <1>4 DEF Next

-----------------------------------------------------------------------------
(* The refinement mapping.                                                 *)

(* A step of the abstract stream, or none. *)
AbstractStep == [BS!Next]_(BS!streamVars)

(* The steps of ByteStream, seen through the mapping.                      *)
LEMMA MapStutter ==
  ASSUME UNCHANGED <<Pos, fatal, lost, cut, reply>> PROVE AbstractStep
BY DEF AbstractStep, BS!streamVars, Pos, Consuming, Astray

LEMMA MapAsk ==
  ASSUME UNCHANGED <<Pos, fatal, lost, cut>>, reply' = BS!NoReply PROVE AbstractStep
BY DEF AbstractStep, BS!Next, BS!Ask, Pos, Consuming, Astray

LEMMA MapShow ==
  ASSUME ~fatal, NEW min, NEW seen, reply' = BS!Window(min, seen),
         min <= Len(seen), Pos + Len(seen) <= Size, seen = BS!Bytes(Pos, Len(seen)),
         UNCHANGED <<Pos, fatal, lost, cut>>
  PROVE  AbstractStep
<1>1. reply'.op = "window" /\ reply'.min = min /\ reply'.seen = seen BY DEF BS!Window
<1> QED BY <1>1 DEF AbstractStep, BS!Next, BS!Show, Pos, Consuming, Astray

LEMMA MapShowEnd ==
  ASSUME ~fatal, NEW min, NEW avail, reply' = BS!Short(min, avail),
         avail = Size - Pos, avail < min, UNCHANGED <<Pos, fatal, lost, cut>>
  PROVE  AbstractStep
<1>1. reply'.op = "short" /\ reply'.min = min /\ reply'.avail = avail BY DEF BS!Short
<1> QED BY <1>1 DEF AbstractStep, BS!Next, BS!ShowEnd, Pos, Consuming, Astray

LEMMA MapMoved ==
  ASSUME NEW by, reply' = BS!Moved(by), fatal => by = 0,
         Pos' = Pos + by, Pos' <= Size, UNCHANGED <<fatal, lost, cut>>
  PROVE  AbstractStep
<1>1. reply'.op = "moved" /\ reply'.by = by BY DEF BS!Moved
<1> QED BY <1>1 DEF AbstractStep, BS!Next, BS!Advance, Pos, Consuming, Astray

LEMMA MapTruncated ==
  ASSUME NEW by, reply' = BS!Truncated(by), ~fatal,
         Pos' = Pos + by, Pos' = Size, UNCHANGED <<fatal, lost, cut>>
  PROVE  AbstractStep
<1>1. reply'.op = "truncated" /\ reply'.by = by BY DEF BS!Truncated
<1> QED BY <1>1 DEF AbstractStep, BS!Next, BS!Advance, Pos, Consuming, Astray

LEMMA MapFail ==
  ASSUME reply' = BS!IOError, fatal' = TRUE, Pos' \in Pos..Size, UNCHANGED <<lost, cut>>
  PROVE  AbstractStep
BY DEF AbstractStep, BS!Next, BS!Fail, Pos, Consuming, Astray

LEMMA MapSought ==
  ASSUME NEW to, reply' = BS!Sought(to), ~fatal, Pos' = to, to \in 0..Size,
         lost' = FALSE, cut' = FALSE, UNCHANGED fatal
  PROVE  AbstractStep
<1>1. reply'.op = "sought" /\ reply'.to = to BY DEF BS!Sought
<1> QED BY <1>1 DEF AbstractStep, BS!Next, BS!Seek, Pos, Consuming, Astray

LEMMA MapNotSought ==
  ASSUME NEW why, reply' = BS!NotSought(why), lost' \in {lost, TRUE},
         UNCHANGED <<Pos, fatal, cut>>
  PROVE  AbstractStep
<1>1. reply'.op = "notsought" BY DEF BS!NotSought
<1>2. (lost \/ cut)' \in {(lost \/ cut), TRUE}
  <2>1. CASE lost' = lost BY <2>1
  <2>2. CASE lost' = TRUE BY <2>2
  <2> QED BY <2>1, <2>2
<1> QED BY <1>1, <1>2 DEF AbstractStep, BS!Next, BS!Seek, Pos, Consuming

LEMMA MapAdrift == ASSUME Astray, Astray' PROVE AbstractStep
BY DEF AbstractStep, BS!Next, BS!Adrift, Astray

LEMMA MapLose == ASSUME ~fatal, Astray', UNCHANGED fatal PROVE AbstractStep
BY DEF AbstractStep, BS!Next, BS!Lose, Astray



(* Outside a consume the abstract position is f->position.                 *)
LEMMA PosIdle == call = Idle => Pos = position BY DEF Pos, Consuming, Idle
LEMMA PosIdleNext == call' = Idle => Pos' = position' BY DEF Pos, Consuming, Idle
LEMMA PosLooking == Looking => Pos = position BY DEF Pos, Consuming, Looking

(* The stream starts as the abstract one.                                  *)
LEMMA MapInit == Init => BS!Init
BY DEF Init, BS!Init, Idle

(* Two windows that hold the same bytes are the same.                      *)
LEMMA WindowIsBytes ==
  ASSUME TypeOK, CopyInStep PROVE copy = BS!Bytes(position, Len(copy))
<1>1. copy \in Seq(Nat) BY DEF TypeOK
<1>2. copy = [i \in 1..Len(copy) |-> copy[i]] BY <1>1
<1> QED BY <1>2 DEF CopyInStep, BS!Bytes

(* A look-ahead in progress asks for a number of bytes.                    *)
LEMMA LookingCall == ASSUME TypeOK, Looking PROVE call.min \in Nat
<1>1. call \in [op : {"ahead"}, min : Mins] BY DEF TypeOK, CallType, Looking, Idle
<1> QED BY <1>1, StartNat

(* Beginning a look-ahead is asking, or being refused at once.             *)
LEMMA MapAhead ==
  ASSUME IInv, StepInv, AbsInv, ~Astray, NEW min \in Mins, Ahead(min)
  PROVE  AbstractStep
<1>0. ~lost /\ ~cut BY DEF Astray
<1>1. position \in Nat /\ position <= Size /\ Size \in Nat
  BY <1>0, StartNat DEF IInv, TypeOK, AbsInv, InStream
<1>2. CASE fatal
  <2>1. /\ call = Idle /\ call' = Idle /\ reply' = BS!IOError
        /\ UNCHANGED <<position, fatal, lost, cut>>
    BY <1>2 DEF Ahead, Return, streamVars, clientVars
  <2>2. Pos' \in Pos..Size BY <1>1, <2>1, PosIdle, PosIdleNext
  <2> QED BY <1>2, <2>1, <2>2, MapFail
<1>3. CASE ~fatal
  <2>1. /\ call = Idle /\ call' = [op |-> "ahead", min |-> min] /\ reply' = BS!NoReply
        /\ UNCHANGED <<position, fatal, lost, cut>>
    BY <1>3 DEF Ahead, Begin, streamVars, clientVars
  <2>2. Pos' = position' BY <2>1 DEF Pos, Consuming
  <2> QED BY <2>1, <2>2, PosIdle, MapAsk
<1> QED BY <1>2, <1>3

(* A look-ahead that the copy buffer or the client block serves shows the  *)
(* bytes at the position; one that neither serves at the end of the stream *)
(* says how many there are.                                                *)
LEMMA MapPeek ==
  ASSUME IInv, StepInv, AbsInv, ~Astray, PeekCopy \/ PeekClient PROVE AbstractStep
<1>0. TypeOK /\ BufferBounds BY DEF IInv
<1>1. ~fatal /\ Looking /\ ~lost /\ call.op # "skip"
  BY AliveCall DEF PeekCopy, PeekClient, Looking, Astray
<1>2. /\ position \in Nat /\ Len(copy) \in Nat /\ cavail \in Nat /\ source \in Nat
      /\ Size \in Nat
      /\ source = position + Len(copy) + cavail
      /\ source <= Size
  BY <1>1, WithinStream
<1>3. call.min \in Nat BY <1>0, <1>1, LookingCall
<1>4. call' = Idle /\ UNCHANGED <<position, fatal, lost, cut>>
  BY DEF PeekCopy, PeekClient, Return, streamVars, clientVars
<1>5. UNCHANGED <<Pos, fatal, lost, cut>> /\ Pos = position
  BY <1>1, <1>4, PosLooking, PosIdleNext
<1>6. CASE PeekCopy
  <2>1. reply' = BS!Window(call.min, copy) /\ call.min <= Len(copy)
    BY <1>2, <1>3, <1>6 DEF PeekCopy, CopyServes, Return
  <2>2. copy = BS!Bytes(Pos, Len(copy))
    BY <1>0, <1>1, <1>5, WindowIsBytes DEF StepInv, InStep
  <2>3. Pos + Len(copy) <= Size BY <1>2, <1>5
  <2> QED BY <1>1, <1>5, <2>1, <2>2, <2>3, MapShow
<1>7. CASE PeekClient
  <2>1. /\ reply' = BS!Window(call.min, BS!Bytes(base + cnext', cavail'))
        /\ cavail' = cavail + Len(copy) /\ cnext' = cnext - Len(copy)
        /\ ctotal >= cavail + Len(copy) /\ cavail + Len(copy) >= call.min
    BY <1>7 DEF PeekClient, ClientServes, Return
  <2>2. base \in Nat /\ cnext \in Nat /\ ctotal \in Nat BY <1>0 DEF TypeOK
  <2> DEFINE seen == BS!Bytes(base + cnext', cavail')
  <2>3. cavail' \in Nat /\ call.min <= cavail' BY <1>2, <1>3, <2>1
  <2>4. Len(seen) = cavail' BY <2>3 DEF BS!Bytes
  <2>5. seen = BS!Bytes(Pos, cavail')
    <3>1. CASE cavail' = 0
      <4>1. 1..cavail' = {} BY <3>1
      <4> QED BY <4>1 DEF BS!Bytes
    <3>2. CASE cavail' > 0
      <4>1. Len(copy) + cavail > 0 /\ ctotal > 0 BY <1>2, <2>1, <2>2, <3>2
      <4>2. base + cnext = position + Len(copy)
        BY <1>1, <4>1 DEF StepInv, InStep, BlockInStep
      <4>3. base + cnext' = Pos BY <1>2, <1>5, <2>1, <2>2, <4>2
      <4> QED BY <4>3
    <3> QED BY <2>3, <3>1, <3>2
  <2>6. Pos + cavail' <= Size BY <1>2, <1>5, <2>1
  <2> HIDE DEF seen
  <2>7. reply' = BS!Window(call.min, seen) BY <2>1 DEF seen
  <2> QED BY <1>1, <1>5, <2>3, <2>4, <2>5, <2>6, <2>7, MapShow
<1> QED BY <1>6, <1>7

(* A look-ahead that pulls on an empty client block has copied less than   *)
(* it needs.                                                               *)
LEMMA PullsShort ==
  ASSUME IInv, MustPull, cavail = 0 PROVE Len(copy) < call.min
<1>1. call.min \in Nat BY LookingCall DEF IInv, MustPull
<1>2. Len(copy) \in Nat /\ ctotal \in Nat BY DEF IInv, TypeOK
<1> QED BY <1>1, <1>2 DEF MustPull, CopyServes, ClientServes

LEMMA MapPull ==
  ASSUME IInv, StepInv, AbsInv, ~Astray, Pull PROVE AbstractStep
<1>0. TypeOK /\ ~lost /\ ~cut BY DEF IInv, Astray
<1>1. CASE PeekCopy \/ PeekClient BY <1>1, MapPeek
<1>2. CASE ~(PeekCopy \/ PeekClient)
  <2>1. Looking /\ MustPull
    BY <1>2 DEF Pull, PeekAtEnd, Fill, FillError, NextVolume, StreamEnd, Gather, GrowFails, MustPull
  <2>2. ~fatal BY <2>1, AliveCall DEF Looking
  <2>3. /\ position \in Nat /\ Len(copy) \in Nat /\ cavail \in Nat /\ source \in Nat
        /\ Size \in Nat
        /\ source = position + Len(copy) + cavail
        /\ source <= Size /\ position <= Size
    BY <1>0, <2>1, <2>2, WithinStream DEF Looking
  <2>4. Pos = position BY <2>1, PosLooking
  <2>5. CASE PeekAtEnd \/ StreamEnd
    <3>1. /\ cavail = 0 /\ call' = Idle /\ reply' = BS!Short(call.min, Len(copy))
          /\ UNCHANGED <<position, fatal, lost>>
      BY <2>5 DEF PeekAtEnd, StreamEnd, Return, streamVars
    <3>a. CASE cut'
      BY <2>2, <3>1, <3>a, MapLose DEF Astray
    <3>b. CASE ~cut'
      <4>1. source = Size
        <5>1. CASE PeekAtEnd BY <1>0, <2>2, <5>1 DEF PeekAtEnd, AbsInv, EndIsEnd, Astray
        <5>2. CASE StreamEnd BY <1>0, <2>2, <3>b, <5>2, EndOfLast DEF StreamEnd
        <5> QED BY <2>5, <5>1, <5>2
      <4>2. Len(copy) = Size - Pos BY <2>3, <2>4, <3>1, <4>1
      <4>3. Len(copy) < call.min BY <2>1, <3>1, PullsShort
      <4>4. cut' = cut
        BY <1>0, <2>5, <3>b DEF PeekAtEnd, StreamEnd, NoMore, clientVars
      <4>5. UNCHANGED <<Pos, fatal, lost, cut>> BY <2>4, <3>1, <4>4, PosIdleNext
      <4> QED BY <2>2, <3>1, <4>2, <4>3, <4>5, MapShowEnd
    <3> QED BY <3>a, <3>b
  <2>6. CASE FillError \/ GrowFails
    <3>1. /\ call' = Idle /\ reply' = BS!IOError /\ fatal' = TRUE
          /\ UNCHANGED <<position, lost, cut>>
      BY <2>6 DEF FillError, GrowFails, Return, clientVars
    <3>2. Pos' \in Pos..Size BY <2>3, <2>4, <3>1, PosIdleNext
    <3> QED BY <3>1, <3>2, MapFail
  <2>7. CASE Fill \/ NextVolume \/ Gather
    <3>1. UNCHANGED <<position, fatal, lost, cut, call, reply>>
      BY <2>7 DEF Fill, NextVolume, OnToNext, Gather, streamVars, clientVars
    <3> QED BY <3>1, MapStutter DEF Pos, Consuming
  <2> QED BY <1>2, <2>5, <2>6, <2>7 DEF Pull
<1> QED BY <1>1, <1>2

(* A consume is answered with the amount, or goes on; the abstract         *)
(* position does not move before the answer.                               *)
LEMMA MapConsume ==
  ASSUME IInv, StepInv, AbsInv, ~Astray, NEW request \in Amounts, Consume(request)
  PROVE  AbstractStep
<1>0. ~lost BY DEF Astray
<1>1. request \in Nat BY StartNat
<1>2. position \in Nat /\ position <= Size /\ Size \in Nat
  BY <1>0, StartNat DEF IInv, TypeOK, AbsInv, InStream
<1>3. CASE fatal /\ request > 0
  <2>1. /\ call = Idle /\ call' = Idle /\ reply' = BS!IOError
        /\ UNCHANGED <<position, fatal, lost, cut>>
    BY <1>3 DEF Consume, Return, streamVars, clientVars
  <2>2. Pos' \in Pos..Size BY <1>2, <2>1, PosIdle, PosIdleNext
  <2> QED BY <1>3, <2>1, <2>2, MapFail
<1>4. CASE ~(fatal /\ request > 0)
  <2>1. PICK taken \in Nat :
           /\ taken <= request /\ taken <= Len(copy) + cavail
           /\ position' = position + taken
           /\ \/ taken = request /\ Return(BS!Moved(request))
              \/ /\ taken < request
                 /\ Begin([op |-> "skip", left |-> request - taken, done |-> taken, got |-> 0, missed |-> 0])
           /\ UNCHANGED <<fatal, eof, source, lost, cut>>
    BY <1>1, <1>4, ConsumeStep
  <2>2. call = Idle BY <1>4 DEF Consume
  <2>3. Pos = position BY <2>2, PosIdle
  <2>4. CASE taken = request /\ Return(BS!Moved(request))
    <3>1. call' = Idle /\ reply' = BS!Moved(request) BY <2>4 DEF Return
    <3>2. Pos' = Pos + request BY <2>1, <2>3, <2>4, <3>1, PosIdleNext
    <3>3. fatal => request = 0 BY <1>1, <1>4
    <3>4. Pos' <= Size
      <4>1. CASE fatal BY <1>2, <2>3, <3>2, <3>3, <4>1
      <4>2. CASE ~fatal
        <5>1. /\ Len(copy) \in Nat /\ cavail \in Nat /\ source \in Nat
              /\ source = position + Len(copy) + cavail /\ source <= Size
          BY <1>0, <2>2, <4>2, WithinStream DEF Idle
        <5> QED BY <1>1, <1>2, <2>1, <2>3, <2>4, <3>2, <5>1
      <4> QED BY <4>1, <4>2
    <3> QED BY <2>1, <3>1, <3>2, <3>3, <3>4, MapMoved
  <2>5. CASE taken < request /\ Begin([op |-> "skip", left |-> request - taken, done |-> taken, got |-> 0, missed |-> 0])
    <3>1. /\ call' = [op |-> "skip", left |-> request - taken, done |-> taken, got |-> 0, missed |-> 0]
          /\ reply' = BS!NoReply
      BY <2>5 DEF Begin
    <3>2. Pos' = position' - taken BY <3>1 DEF Pos, Consuming
    <3>3. Pos' = Pos BY <1>2, <2>1, <2>3, <3>2
    <3> QED BY <2>1, <3>1, <3>3, MapAsk
  <2> QED BY <2>1, <2>4, <2>5
<1> QED BY <1>3, <1>4

(* In a consume that has gone past the buffers the abstract position is    *)
(* behind f->position by what has been done.                               *)
LEMMA PosConsuming ==
  ASSUME IInv, Consuming
  PROVE  /\ call.done \in Nat /\ call.left \in Nat \ {0} /\ position \in Nat
         /\ Pos = position - call.done
<1>1. call.op \in {"skip", "discard"} BY DEF Consuming
<1>2. call.done \in Nat /\ call.left \in Nat \ {0} BY <1>1, SkippingCall
<1> QED BY <1>2 DEF Pos, IInv, TypeOK

(* An error in the middle of a consume is given where the consume has got. *)
LEMMA MapBroken ==
  ASSUME IInv, AbsInv, ~lost, Consuming, fatal' = TRUE, Return(BS!IOError),
         UNCHANGED <<position, lost, cut>>
  PROVE  AbstractStep
<1>1. position <= Size /\ Size \in Nat BY StartNat DEF AbsInv, InStream
<1>2. call' = Idle /\ reply' = BS!IOError BY DEF Return
<1>3. Pos' = position BY <1>2, PosIdleNext
<1>4. call.done \in Nat /\ position \in Nat /\ Pos = position - call.done BY PosConsuming
<1>5. Pos' \in Pos..Size BY <1>1, <1>3, <1>4
<1> QED BY <1>2, <1>5, MapFail

(* What is skipped or discarded ends the consume, or is a stuttering step. *)
LEMMA MapSkipped ==
  ASSUME IInv, ~lost, ~fatal, Consuming, NEW n \in Nat, n <= call.left,
         position' = position + n,
         \/ n = call.left /\ Return(BS!Moved(call.done + n)) /\ position' <= Size
         \/ /\ call' = [op |-> "discard", left |-> call.left - n, done |-> call.done + n]
            /\ UNCHANGED reply,
         UNCHANGED <<fatal, lost, cut>>
  PROVE  AbstractStep
<1>1. /\ call.done \in Nat /\ call.left \in Nat \ {0} /\ position \in Nat
      /\ Pos = position - call.done
  BY PosConsuming
<1>2. CASE Return(BS!Moved(call.done + n)) /\ position' <= Size
  <2>1. call' = Idle /\ reply' = BS!Moved(call.done + n) BY <1>2 DEF Return
  <2>2. Pos' = position' BY <2>1, PosIdleNext
  <2>3. Pos' = Pos + (call.done + n) BY <1>1, <2>2
  <2>4. Pos' <= Size BY <1>2, <2>2
  <2> QED BY <2>1, <2>3, <2>4, MapMoved
<1>3. CASE /\ call' = [op |-> "discard", left |-> call.left - n, done |-> call.done + n]
           /\ UNCHANGED reply
  <2>1. Pos' = position' - (call.done + n) BY <1>3 DEF Pos, Consuming
  <2>2. Pos' = Pos BY <1>1, <2>1
  <2> QED BY <1>3, <2>2, MapStutter
<1> QED BY <1>2, <1>3

LEMMA MapSkip ==
  ASSUME IInv, StepInv, AbsInv, AbsInv', ~Astray,
         SkipByCallback \/ SeekerFails \/ SkipBySeeker \/ NoSkipper
  PROVE  AbstractStep
<1>0. TypeOK /\ ~fatal /\ call.op = "skip" /\ Consuming /\ ~lost
  BY AliveCall DEF IInv, SkipByCallback, SkipServes, SkipFails, SkipStops, SkipOverruns,
                   Skipping, SeekerFails, SkipBySeeker, NoSkipper, Consuming, Astray
<1>1. /\ call \in [op : {"skip"}, left : Nat \ {0}, done : Nat, got : Nat, missed : Nat]
      /\ call.left \in Nat \ {0} /\ call.got \in Nat /\ call.missed \in Nat
      /\ call.got < call.left + call.missed
  BY <1>0, SkippingCall
<1>2. ASSUME NEW n \in Nat, n <= call.left, Skipped(n), UNCHANGED <<fatal, lost, cut>>
      PROVE  AbstractStep
  <2>1. position' <= Size BY <1>0, <1>2 DEF AbsInv, InStream
  <2>2. position' = position + n BY <1>2 DEF Skipped
  <2> QED BY <1>0, <1>2, <2>1, <2>2, MapSkipped DEF Skipped
<1>7. ASSUME call'.op = "skip", call'.done = call.done, UNCHANGED <<position, reply, fatal, lost, cut>>
      PROVE  AbstractStep
  <2>1. Pos' = Pos BY <1>0, <1>7 DEF Pos, Consuming
  <2> QED BY <1>7, <2>1, MapStutter
<1>3. CASE SkipByCallback
  <2>1. CASE fatal' = fatal /\ lost' = TRUE BY <1>0, <2>1, MapLose DEF Astray
  <2>2. CASE SkipServes
    <3>1. UNCHANGED <<fatal, cut>> /\ lost' = (lost \/ (call'.op # "skip" /\ call.missed > 0))
      BY <2>2 DEF SkipServes
    <3>2. PICK get \in 1..minimum(Asked, Within) :
            IF get = Asked THEN Skipped(call.left)
            ELSE call' = [call EXCEPT !.got = call.got + get] /\ UNCHANGED <<position, reply>>
      BY <2>2 DEF SkipServes
    <3>3. CASE lost' = TRUE BY <2>1, <3>1, <3>3
    <3>4. CASE lost' = lost
      <4>1. CASE get = Asked
        <5>1. call.left \in Nat /\ call.left <= call.left /\ Skipped(call.left) BY <1>1, <3>2, <4>1
        <5> QED BY <1>2, <3>1, <3>4, <5>1
      <4>2. CASE get # Asked
        <5>1. call' = [call EXCEPT !.got = call.got + get] /\ UNCHANGED <<position, reply>>
          BY <3>2, <4>2
        <5>2. call'.op = "skip" /\ call'.done = call.done BY <1>1, <5>1
        <5> QED BY <1>7, <3>1, <3>4, <5>1, <5>2
      <4> QED BY <4>1, <4>2
    <3> QED BY <1>0, <3>1, <3>3, <3>4 DEF TypeOK
  <2>3. CASE SkipFails
    <3>1. PICK by \in 1..(SkipErrorMax - call.missed) : call' = [call EXCEPT !.missed = call.missed + by]
      BY <2>3 DEF SkipFails
    <3>2. call'.op = "skip" /\ call'.done = call.done BY <1>1, <3>1
    <3>3. UNCHANGED <<position, reply, fatal, lost, cut>>
      BY <2>3 DEF SkipFails, streamVars, clientVars
    <3> QED BY <1>7, <3>2, <3>3
  <2>4. CASE SkipStops
    <3>1. cut' = cut BY <2>4 DEF SkipStops, clientVars
    <3>2. CASE call.got < call.missed
      BY <1>0, <2>4, <3>1, <3>2, MapBroken DEF SkipStops
    <3>3. CASE ~(call.got < call.missed)
      <4>1. Skipped(call.got - call.missed) /\ fatal' = fatal /\ (lost' = lost \/ lost' = TRUE)
        BY <1>0, <2>4, <3>3 DEF SkipStops, TypeOK
      <4>2. call.got - call.missed \in Nat /\ call.got - call.missed <= call.left BY <1>1, <3>3
      <4>3. CASE lost' = lost BY <1>2, <3>1, <4>1, <4>2, <4>3
      <4> QED BY <2>1, <4>1, <4>3
    <3> QED BY <3>2, <3>3
  <2>5. CASE SkipOverruns BY <1>0, <2>5, MapBroken DEF SkipOverruns
  <2> QED BY <1>3, <2>2, <2>3, <2>4, <2>5 DEF SkipByCallback
<1>4. CASE SeekerFails BY <1>0, <1>4, MapBroken DEF SeekerFails, clientVars
<1>5. CASE SkipBySeeker
  <2>1. \/ fatal' = TRUE /\ Return(BS!IOError) /\ UNCHANGED <<position, lost, cut>>
        \/ Skipped(call.left) /\ UNCHANGED <<fatal, lost, cut>>
    BY <1>5 DEF SkipBySeeker
  <2>2. call.left \in Nat /\ call.left <= call.left BY <1>1
  <2>3. CASE Skipped(call.left) /\ UNCHANGED <<fatal, lost, cut>> BY <1>2, <2>2, <2>3
  <2> QED BY <1>0, <2>1, <2>3, MapBroken
<1>6. CASE NoSkipper
  <2>1. Skipped(0) /\ UNCHANGED <<fatal, lost, cut>> BY <1>6 DEF NoSkipper, clientVars
  <2>2. 0 \in Nat /\ 0 <= call.left BY <1>1
  <2> QED BY <1>2, <2>1, <2>2
<1> QED BY <1>3, <1>4, <1>5, <1>6

LEMMA MapDiscard ==
  ASSUME IInv, StepInv, AbsInv, AbsInv', ~Astray,
         Discard \/ DiscardError \/ DiscardNext \/ DiscardEnd
  PROVE  AbstractStep
<1>0. TypeOK /\ ~fatal /\ call.op = "discard" /\ Consuming /\ ~lost /\ ~cut
  BY AliveCall DEF IInv, Discard, DiscardError, DiscardNext, DiscardEnd, Consuming, Astray
<1>1. /\ call.left \in Nat \ {0} /\ call.done \in Nat /\ copy = <<>> /\ cavail = 0
  BY <1>0, SkippingCall
<1>2. CASE Discard
  <2>1. PICK n \in Delivered :
          /\ position' = position + minimum(n, call.left)
          /\ IF n >= call.left
             THEN Return(BS!Moved(call.done + minimum(n, call.left)))
             ELSE /\ call' = [op |-> "discard", left |-> call.left - n, done |-> call.done + n]
                  /\ UNCHANGED reply
    BY <1>2 DEF Discard
  <2>2. n \in Nat BY <1>0, <2>1, DeliveredType
  <2>3. UNCHANGED <<fatal, lost, cut>> BY <1>2 DEF Discard
  <2>4. position' <= Size BY <1>0, <2>3 DEF AbsInv, InStream
  <2>5. CASE n >= call.left
    <3>1. minimum(n, call.left) = call.left BY <1>1, <2>2, <2>5 DEF minimum
    <3> QED BY <1>0, <1>1, <2>1, <2>3, <2>4, <2>5, <3>1, MapSkipped
  <2>6. CASE ~(n >= call.left)
    <3>1. minimum(n, call.left) = n /\ n <= call.left BY <1>1, <2>2, <2>6 DEF minimum
    <3> QED BY <1>0, <2>1, <2>2, <2>3, <2>6, <3>1, MapSkipped
  <2> QED BY <2>5, <2>6
<1>3. CASE DiscardError BY <1>0, <1>3, MapBroken DEF DiscardError, clientVars
<1>4. CASE DiscardNext
  <2>1. UNCHANGED <<position, fatal, lost, cut, call, reply>>
    BY <1>4 DEF DiscardNext, OnToNext, streamVars
  <2> QED BY <2>1, MapStutter DEF Pos, Consuming
<1>5. CASE DiscardEnd
  <2>1. /\ NoMore /\ call' = Idle /\ reply' = BS!Truncated(call.done)
        /\ UNCHANGED <<position, fatal, lost>>
    BY <1>5 DEF DiscardEnd, Return
  <2>2. CASE cut' BY <1>0, <2>1, <2>2, MapLose DEF Astray
  <2>3. CASE ~cut'
    <3>1. source = Size BY <1>0, <2>1, <2>3, EndOfLast
    <3>2. position = Size /\ position \in Nat
      <4>1. source = position + Len(copy) + cavail /\ position \in Nat /\ source \in Nat
        BY <1>0, WithinStream
      <4>2. Len(copy) = 0 BY <1>1
      <4> QED BY <1>1, <3>1, <4>1, <4>2
    <3>3. Pos = position - call.done BY <1>0, PosConsuming
    <3>4. Pos' = position BY <2>1, PosIdleNext
    <3>5. Pos' = Pos + call.done /\ Pos' = Size BY <1>1, <3>2, <3>3, <3>4
    <3>6. cut' = cut BY <1>0, <2>1, <2>3 DEF NoMore
    <3> QED BY <1>0, <2>1, <3>5, <3>6, MapTruncated
  <2> QED BY <2>2, <2>3
<1> QED BY <1>2, <1>3, <1>4, <1>5

(* A seek, also one that finds a lost stream again.                        *)
LEMMA MapSeek == ASSUME TypeOK, Seek PROVE AbstractStep
<1>0. call = Idle BY SeekShape
<1>1. CASE /\ \E why : Return(BS!NotSought(why))
           /\ UNCHANGED <<position, fatal, eof, cut>>
           /\ lost' = TRUE \/ (lost' = lost /\ source' = source)
  <2>1. PICK why : Return(BS!NotSought(why)) BY <1>1
  <2>2. call' = Idle /\ reply' = BS!NotSought(why) BY <2>1 DEF Return
  <2>3. UNCHANGED <<Pos, fatal, cut>> BY <1>0, <1>1, <2>2, PosIdle, PosIdleNext
  <2>4. lost' \in {lost, TRUE} BY <1>1
  <2> QED BY <2>2, <2>3, <2>4, MapNotSought
<1>2. CASE /\ ~fatal
           /\ \E at \in 0..Size :
                 /\ Return(BS!Sought(at)) /\ position' = at
                 /\ eof' = FALSE /\ lost' = FALSE /\ cut' = FALSE /\ UNCHANGED fatal
  <2>1. PICK at \in 0..Size :
          Return(BS!Sought(at)) /\ position' = at /\ lost' = FALSE /\ cut' = FALSE /\ UNCHANGED fatal
    BY <1>2
  <2>2. call' = Idle /\ reply' = BS!Sought(at) BY <2>1 DEF Return
  <2>3. Pos' = at BY <2>1, <2>2, PosIdleNext
  <2> QED BY <1>2, <2>1, <2>2, <2>3, MapSought
<1> QED BY <1>1, <1>2, SeekShape

(* Only a seek finds a lost stream again.                                  *)
LEMMA StaysLost == ASSUME TypeOK, Astray, Next, ~Seek PROVE Astray'
<1>1. CASE Pull
  <2>1. lost' = lost /\ (cut' = cut \/ cut' = TRUE)
    BY <1>1 DEF Pull, PeekCopy, PeekClient, PeekAtEnd, Fill, FillError, NextVolume,
                StreamEnd, Gather, GrowFails, OnToNext, NoMore, clientVars
  <2> QED BY <2>1 DEF Astray
<1>2. CASE SkipByCallback
  <2>1. cut' = cut
    BY <1>2 DEF SkipByCallback, SkipServes, SkipFails, SkipStops, SkipOverruns, clientVars
  <2>2. lost => lost' BY <1>2, KeepsLost
  <2> QED BY <2>1, <2>2 DEF Astray
<1>3. CASE SeekerFails \/ SkipBySeeker \/ NoSkipper \/ Discard \/ DiscardError
             \/ DiscardNext \/ DiscardEnd
  <2>1. lost' = lost /\ (cut' = cut \/ cut' = TRUE)
    BY <1>3 DEF SeekerFails, SkipBySeeker, NoSkipper, Discard, DiscardError, DiscardNext,
                DiscardEnd, OnToNext, NoMore, clientVars
  <2> QED BY <2>1 DEF Astray
<1>4. CASE Calls
  <2>1. lost' = lost /\ cut' = cut BY <1>4 DEF Calls, Ahead, Consume, OpenDone, clientVars
  <2> QED BY <2>1 DEF Astray
<1> QED BY <1>1, <1>2, <1>3, <1>4 DEF Next, Skip

(* Every step of the layer is a step of the abstract stream or none.       *)
LEMMA MapNext ==
  ASSUME IInv, StepInv, AbsInv, Orderly, [Next]_vars PROVE AbstractStep
<1>0. TypeOK /\ AbsInv' BY AbsNext DEF IInv
<1>1. CASE UNCHANGED vars
  <2>1. UNCHANGED <<position, fatal, lost, cut, call, reply>>
    BY <1>1 DEF vars, streamVars, clientVars
  <2> QED BY <2>1, MapStutter DEF Pos, Consuming
<1>2. CASE Seek BY <1>0, <1>2, MapSeek
<1>3. CASE Astray /\ Next /\ ~Seek BY <1>0, <1>3, StaysLost, MapAdrift
<1>4. CASE ~Astray /\ Next /\ ~Seek
  <2>1. CASE Pull BY <1>4, <2>1, MapPull
  <2>2. CASE Skip BY <1>0, <1>4, <2>2, MapSkip, MapDiscard DEF Skip
  <2>3. CASE OpenDone
    <3>1. UNCHANGED <<position, fatal, lost, cut, call, reply>> BY <2>3 DEF OpenDone, streamVars
    <3> QED BY <3>1, MapStutter DEF Pos, Consuming
  <2>4. CASE Calls BY <1>4, <2>3, <2>4, MapAhead, MapConsume DEF Calls
  <2> QED BY <1>4, <2>1, <2>2, <2>4 DEF Next
<1> QED BY <1>1, <1>2, <1>3, <1>4

(* Over an orderly client the layer implements the abstract stream:        *)
(* look-aheads show the bytes at the position or say how many are left, a  *)
(* consume moves by exactly its amount or to the end, and an error ends    *)
(* the stream where it is, however often the skip callback stops short.    *)
(* Three failures are not answered by an error and lose the stream: a seek *)
(* that fails, skip errors that add up to no less than zero, and a volume  *)
(* that does not open; a seek that succeeds finds even a lost stream again.*)
THEOREM LayerIsByteStream == ASSUME Orderly PROVE Spec => ImplementsByteStream
<1>1. Init => IInv /\ StepInv /\ AbsInv BY IInvInit, StepInvInit, AbsInit
<1>2. IInv /\ StepInv /\ AbsInv /\ [Next]_vars => (IInv /\ StepInv /\ AbsInv)'
  BY AbsNext
<1>3. IInv /\ StepInv /\ AbsInv /\ [Next]_vars => [BS!Next]_(BS!streamVars)
  BY MapNext DEF AbstractStep
<1>4. Init => BS!Init BY MapInit
<1> QED BY <1>1, <1>2, <1>3, <1>4, PTL DEF Spec, ImplementsByteStream, BS!Spec
=============================================================================
