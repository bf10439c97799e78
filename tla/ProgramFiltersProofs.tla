------------------------ MODULE ProgramFiltersProofs ------------------------
(***************************************************************************)
(* Proofs of Conserved and EndMeansAll of ProgramFilters, for chains of    *)
(* any length, pipes and buffers of any size and every failure.            *)
(*                                                                         *)
(* The filters call one another, so what runs is the last of a stack: in a *)
(* reader every filter above the running one waits for its upstream, in a  *)
(* writer every filter between the caller and it is passing on (ReadStack, *)
(* WriteStack).  What a filter has drained and where its bytes are         *)
(* (ReadFlow, WriteFlow) is moved by the running filter only, together     *)
(* with its neighbour.  The end is decided by what the program next to us  *)
(* had written when its output was seen to be over (Over, Silent), which a *)
(* program that is mute or gone cannot change (Programs).                  *)
(***************************************************************************)
EXTENDS ProgramFilters, TLAPS

Programs == [at : {"none", "read", "write", "exit", "dead", "reaped"}, todo : Nat,
             ended : BOOLEAN, mute : BOOLEAN, status : {"none", "ok", "bad", "sigpipe"}]

ReadPlaces  == {"idle", "read", "upstream", "poll", "stop", "wait"}
WritePlaces == {"idle", "write", "drain", "pass", "passing", "poll", "finish", "stop", "wait"}
Calls == [op : {"open", "none", "read", "write", "close", "closed"},
          reply : {"", "ok", "data", "eof", "warn", "fatal"}, now : 0..(Depth + 1)]

(* What the variables hold.                                                *)
Kinds ==
  /\ direction \in {"read", "write"}
  /\ created \subseteq Chain /\ kid \in [Chain -> Programs]
  /\ child_stdout \in [Chain -> {"open", "blocking", "closed"}]
  /\ written \in [Chain -> Nat] /\ taken \in [Chain -> Nat]
  /\ made \in [Chain -> Nat] /\ drained \in [Chain -> Nat]
  /\ at \in [Chain -> IF Reading THEN ReadPlaces ELSE WritePlaces]
  /\ total \in [Chain -> Nat] /\ left \in [Chain -> Nat]
  /\ block \in [0..Depth -> Nat] /\ answer \in [0..Depth -> {"", "ok", "eof", "fatal"}]
  /\ state \in [Chain -> {"new", "open", "fatal", "closed"}]
  /\ call \in Calls /\ source \in Nat /\ handed \in Nat
  /\ faulted \in [any : BOOLEAN, late : Nat]

(* The output of a program is over, and all of it was drained.             *)
Silent(p) == drained[p] = made[p] /\ OutputEnded(p)

(* It is over and the program has been waited for and ended well.          *)
Over(p) == drained[p] = made[p] /\ kid[p].at = "reaped" /\ kid[p].status = "ok"

(* The programs: one that has closed its output does not write again, and  *)
(* only one that writes to an output we have closed dies of SIGPIPE.       *)
Children ==
  \A p \in Chain :
    /\ drained[p] <= made[p]
    /\ kid[p].mute => kid[p].at # "write"
    /\ kid[p].at = "none" <=> p \notin created
    /\ kid[p].status = "none" <=> kid[p].at \in {"none", "read", "write", "exit"}
    /\ kid[p].status = "sigpipe" => child_stdout[p] = "closed"
    /\ state[p] \in {"open", "closed"} <=> p \in created
    /\ state[p] = "closed" => kid[p].at = "reaped"

(* Filters are opened one after the other, and calls need all of them.     *)
Opened ==
  /\ Reading => call.op # "write"
  /\ Writing => call.op # "read"
  /\ call.op = "open" =>
       /\ call.now \in Chain /\ call.reply = ""
       /\ \A p \in Chain :
            IF IF Reading THEN p < call.now ELSE p > call.now
            THEN state[p] = "open" /\ child_stdout[p] = "open" ELSE state[p] = "new"
  /\ call.op \in {"none", "read", "write"} => \A p \in Chain : state[p] = "open"

(* Filters are closed one after the other, and what went wrong is in the   *)
(* answer.                                                                 *)
Behind(p) == IF Reading THEN call.now < p ELSE p < call.now

Closed ==
  call.op \in {"close", "closed"} =>
    /\ Reading => call.now <= Depth
    /\ Writing => call.now > 0
    /\ call.op = "closed" => call.now \notin Chain
    /\ call.reply \in {"ok", "warn", "fatal"}
    /\ \A p \in Chain : Behind(p) => state[p] # "open"
    /\ \A p \in Chain : p = call.now /\ at[p] # "idle" => state[p] = "open"
    /\ call.reply = "ok" =>
         \A p \in Chain :
           /\ state[p] \in {"open", "closed"}
           /\ state[p] = "closed" =>
                /\ kid[p].status \in {"ok", "sigpipe"}
                /\ Writing => kid[p].status = "ok"
                /\ Writing /\ ~faulted.any => drained[p] = made[p]

-----------------------------------------------------------------------------
(* Readers.                                                                *)

ReadStack ==
  \A p \in Chain : at[p] # "idle" =>
    \/ call.op = "close" /\ call.now = p /\ at[p] \in {"stop", "wait"}
    \/ /\ call.op = "read"
       /\ \A q \in Chain : p < q => at[q] = "upstream"

ReadPlace(p) ==
  /\ call.op = "read" /\ at[p] # "idle" => answer[p] = "" /\ block[p] = 0
  /\ call.op \in {"open", "none", "read"} /\ at[p] = "idle" => total[p] = 0
  /\ at[p] \in {"read", "upstream", "poll"} => child_stdout[p] # "closed"
  /\ at[p] = "wait" => child_stdout[p] = "closed"
  /\ call.op = "read" /\ at[p] \in {"stop", "wait"} =>
       Silent(p) /\ kid[p].status # "sigpipe"

ReadOver(p) ==
  /\ call.op \in {"none", "read"} /\ at[p] = "idle" /\ answer[p] # "fatal" =>
       (child_stdout[p] = "closed" \/ answer[p] = "eof" => Over(p))
  /\ call.op = "open" => answer[p] = ""

ReadFlow(p) == answer[p] = "fatal" \/ drained[p] = Onward(p) + block[p] + total[p]

ReadEnd == call.reply = "eof" => call.op = "none" /\ handed = made[Depth] /\ Over(Depth)

Reader ==
  Reading =>
    /\ ReadStack /\ ReadEnd
    /\ \A p \in Chain : ReadPlace(p) /\ ReadOver(p) /\ ReadFlow(p)

-----------------------------------------------------------------------------
(* Writers.                                                                *)

Fine == ~faulted.any /\ call.reply # "fatal"

WriteStack ==
  \A p \in Chain : at[p] # "idle" =>
    /\ call.op = "write" \/ (call.op = "close" /\ call.now <= p)
    /\ \A q \in Chain :
         q < p /\ (call.op = "close" => call.now <= q) => at[q] = "passing"

WritePlace(p) ==
  /\ block[p] = 0
  /\ at[p] = "idle" \/ Closing(p) => left[p] = 0
  /\ at[p] = "passing" => p < Depth
  /\ at[p] \in {"write", "drain", "poll"} => ~Closing(p)
  /\ at[p] \in {"finish", "stop", "wait"} => Closing(p)
  /\ at[p] \notin {"pass", "passing"} /\ Fine => total[p] = 0
  /\ at[p] \in {"stop", "wait"} /\ Fine => Silent(p)

(* A call that has failed has left a trace.                                *)
Traced ==
  /\ \A p \in Chain : answer[p] = "fatal" => faulted.any
  /\ \A p \in Chain : answer[p] # "eof"
  /\ \A p \in Chain :
       p < Depth /\ at[p] = "passing" /\ at[p + 1] = "idle" => answer[p + 1] # ""
  /\ call.op = "write" /\ at[1] = "idle" => answer[1] # ""
  /\ call.op \in {"none", "write"} =>
       call.reply \in {"ok", "fatal"} /\ (call.reply = "fatal" => faulted.any)

WriteFlow ==
  Fine =>
    /\ written[1] + left[1] = Stream - source
    /\ \A p \in Chain : drained[p] = Onward(p) + block[p] + Underway(p)

Writer ==
  Writing =>
    /\ WriteStack /\ Traced /\ WriteFlow
    /\ \A p \in Chain : WritePlace(p)

IInv == Kinds /\ Children /\ Opened /\ Closed /\ Reader /\ Writer

-----------------------------------------------------------------------------
(* Which filter runs.                                                      *)

LEMMA ChainNat ==
  /\ Depth \in Nat /\ Depth > 0 /\ Depth \in Chain /\ 1 \in Chain
  /\ \A p \in Chain : /\ p \in Nat /\ p > 0 /\ p <= Depth /\ p \in 0..Depth
                      /\ p - 1 \in 0..Depth /\ (p # 1 => p - 1 \in Chain)
                      /\ (p < Depth => p + 1 \in Chain)
BY ChildAssumption DEF Chain

(* The values at a filter.                                                 *)
LEMMA Values ==
  ASSUME Kinds, NEW p \in Chain
  PROVE  /\ drained[p] \in Nat /\ made[p] \in Nat /\ written[p] \in Nat
         /\ total[p] \in Nat /\ left[p] \in Nat /\ block[p] \in Nat
         /\ block[p - 1] \in Nat /\ Onward(p) \in Nat /\ p \in 0..Depth /\ p - 1 \in 0..Depth
<1>1. p \in 0..Depth /\ p - 1 \in 0..Depth /\ p <= Depth /\ (p < Depth => p + 1 \in Chain)
  BY ChainNat
<1>2. p < Depth => written[p + 1] \in Nat
  BY <1>1 DEF Kinds
<1>3. Onward(p) \in Nat
  BY <1>2 DEF Kinds, Onward
<1> QED BY <1>1, <1>3 DEF Kinds

(* In a reader the filters above the running one wait for their upstream,  *)
(* and those below are idle.                                               *)
RunsRead(p) ==
  /\ Reading /\ call.op = "read" /\ at[p] # "idle"
  /\ \A q \in Chain : p < q => at[q] = "upstream"
  /\ \A q \in Chain : q < p => at[q] = "idle"

(* Its upstream, if it has called it, has returned.                        *)
Answered(p) == p = 1 \/ answer[p - 1] # "" \/ block[p - 1] # 0

LEMMA ReadRunning ==
  ASSUME IInv, Reading, NEW p \in Chain, at[p] # "idle",
         at[p] \in {"stop", "wait"} => call.op = "read",
         at[p] = "upstream" => Answered(p)
  PROVE  RunsRead(p)
<1>1. ReadStack /\ \A q \in Chain : ReadPlace(q)
  BY DEF IInv, Reader
<1>2. call.op = "read" /\ \A q \in Chain : p < q => at[q] = "upstream"
  BY <1>1 DEF ReadStack
<1>3. ASSUME NEW q \in Chain, q < p PROVE at[q] = "idle"
  <2> SUFFICES ASSUME at[q] # "idle" PROVE FALSE
    OBVIOUS
  <2>1. \A r \in Chain : q < r => at[r] = "upstream"
    BY <1>1, <1>2 DEF ReadStack
  <2>2. at[p] = "upstream" /\ p # 1
    <3>1. at[p] = "upstream"
      BY <1>3, <2>1
    <3>2. p # 1
      BY <1>3, ChainNat
    <3> QED BY <3>1, <3>2
  <2>3. p - 1 \in Chain
    BY <2>2, ChainNat
  <2>4. at[p - 1] # "idle"
    <3>1. q = p - 1 \/ q < p - 1
      <4>1. q \in Nat /\ p \in Nat
        BY ChainNat
      <4> QED BY <1>3, <4>1
    <3> QED BY <2>1, <2>3, <3>1
  <2>5. answer[p - 1] = "" /\ block[p - 1] = 0
    BY <1>1, <1>2, <2>3, <2>4 DEF ReadPlace
  <2> QED BY <2>2, <2>5 DEF Answered
<1> QED BY <1>2, <1>3 DEF RunsRead

LEMMA ReadMoves ==
  ASSUME Kinds, NEW p \in Chain, RunsRead(p), NEW place, Goes(p, place), call'.op = "read"
  PROVE  ReadStack'
<1> SUFFICES ASSUME NEW r \in Chain, at'[r] # "idle", NEW q \in Chain, r < q
             PROVE  at'[q] = "upstream"
  BY DEF ReadStack
<1>1. \A x \in Chain : x # p => at'[x] = at[x]
  BY DEF Kinds, Goes
<1>2. ~(r < p)
  <2> SUFFICES ASSUME r < p PROVE FALSE
    OBVIOUS
  <2>1. r # p /\ at[r] = "idle"
    BY ChainNat DEF RunsRead
  <2> QED BY <1>1, <2>1
<1>3. p < q
  BY <1>2, ChainNat
<1> QED BY <1>1, <1>3, ChainNat DEF RunsRead

(* What does not change with the steps of a reader's call.                 *)
LEMMA ReadFrame ==
  ASSUME IInv, Reading, call.op = "read", UNCHANGED <<direction, call, state, created>>
  PROVE  Opened' /\ Closed' /\ Writer' /\ ReadEnd'
BY DEF IInv, Opened, Closed, Writer, Reader, ReadEnd, Reading, Writing

(* A filter that is not touched.                                           *)
Same(q) ==
  /\ at'[q] = at[q] /\ total'[q] = total[q] /\ answer'[q] = answer[q]
  /\ kid'[q] = kid[q] /\ child_stdout'[q] = child_stdout[q]
  /\ drained'[q] = drained[q] /\ made'[q] = made[q]

LEMMA SameRead ==
  ASSUME NEW q \in Chain, ReadPlace(q), ReadOver(q), Same(q), call' = call,
         block'[q] = block[q] \/ at[q] = "idle"
  PROVE  ReadPlace(q)' /\ ReadOver(q)'
BY DEF Same, ReadPlace, ReadOver, Silent, Over, OutputEnded, Lives

LEMMA SameFlow ==
  ASSUME NEW q \in Chain, ReadFlow(q), Same(q), block'[q] = block[q], Onward(q)' = Onward(q)
  PROVE  ReadFlow(q)'
BY DEF Same, ReadFlow

-----------------------------------------------------------------------------
(* The steps of a reader's call.                                           *)

LEMMA SmallerIs ==
  ASSUME NEW a \in Int, NEW b \in Int, NEW n \in 1..Smaller(a, b)
  PROVE  n \in Nat /\ n > 0 /\ n <= a /\ n <= b
BY DEF Smaller

LEMMA RoomIs == ASSUME Kinds, NEW p \in Chain PROVE Room(p) \in Int /\ InPipe(p) \in Int
<1>1. written[p] \in Nat /\ taken[p] \in Nat /\ PipeSize \in Nat
  BY ChildAssumption DEF Kinds
<1> QED BY <1>1 DEF Room, InPipe

LEMMA ReturnsGives ==
  ASSUME Kinds, Reading, NEW p \in Chain, NEW n \in Nat, Returns(p, n)
  PROVE  /\ at'[p] = "idle" /\ total'[p] = 0 /\ block'[p] = n
         /\ answer'[p] = IF n = 0 THEN "eof" ELSE answer[p]
         /\ \A q \in 0..Depth : q # p => block'[q] = block[q] /\ answer'[q] = answer[q]
         /\ \A q \in Chain : q # p => total'[q] = total[q] /\ at'[q] = at[q]
         /\ at' \in [Chain -> ReadPlaces] /\ total' \in [Chain -> Nat]
         /\ block' \in [0..Depth -> Nat] /\ answer' \in [0..Depth -> {"", "ok", "eof", "fatal"}]
<1>1. p \in 0..Depth
  BY ChainNat
<1> QED BY <1>1 DEF Kinds, Returns, Goes, ReadPlaces

LEMMA BreaksGives ==
  ASSUME Kinds, Reading, NEW p \in Chain, Breaks(p)
  PROVE  /\ at'[p] = "idle" /\ total'[p] = 0 /\ answer'[p] = "fatal" /\ block' = block
         /\ \A q \in 0..Depth : q # p => answer'[q] = answer[q]
         /\ \A q \in Chain : q # p => total'[q] = total[q] /\ at'[q] = at[q]
         /\ at' \in [Chain -> ReadPlaces] /\ total' \in [Chain -> Nat]
         /\ answer' \in [0..Depth -> {"", "ok", "eof", "fatal"}]
<1>1. p \in 0..Depth
  BY ChainNat
<1> QED BY <1>1 DEF Kinds, Breaks, Goes, ReadPlaces

(* What a filter that runs finds.                                          *)
LEMMA ReadFinds ==
  ASSUME IInv, NEW p \in Chain, RunsRead(p)
  PROVE  /\ ReadPlace(p) /\ ReadOver(p) /\ ReadFlow(p)
         /\ answer[p] = "" /\ block[p] = 0 /\ drained[p] = Onward(p) + total[p]
         /\ at[p] \in {"read", "upstream", "poll"} => child_stdout[p] # "closed"
<1>1. ReadPlace(p) /\ ReadOver(p) /\ ReadFlow(p)
  BY DEF IInv, Reader, RunsRead
<1>2. answer[p] = "" /\ block[p] = 0
  BY <1>1 DEF RunsRead, ReadPlace
<1>3. drained[p] = Onward(p) + 0 + total[p]
  BY <1>1, <1>2 DEF ReadFlow
<1>4. Onward(p) \in Nat /\ total[p] \in Nat
  BY Values DEF IInv
<1>5. drained[p] = Onward(p) + total[p]
  BY <1>3, <1>4
<1> QED BY <1>1, <1>2, <1>5 DEF ReadPlace

(* The output of a child that is drained stays behind what it has made.    *)
LEMMA DrainKeeps ==
  ASSUME IInv, NEW p \in Chain, NEW n \in Nat, Drain(p, n), drained[p] + n <= made[p], state' = state
  PROVE  /\ Children' /\ drained' \in [Chain -> Nat] /\ drained'[p] = drained[p] + n
         /\ \A q \in Chain : q # p => drained'[q] = drained[q]
<1>1. /\ drained' \in [Chain -> Nat] /\ drained'[p] = drained[p] + n
      /\ \A q \in Chain : q # p => drained'[q] = drained[q]
  <2>1. drained \in [Chain -> Nat]
    BY DEF IInv, Kinds
  <2>2. drained' = [drained EXCEPT ![p] = @ + n]
    BY DEF Drain
  <2> QED BY <2>1, <2>2
<1>2. Children'
  BY <1>1 DEF IInv, Children, Drain
<1> QED BY <1>1, <1>2

LEMMA ReadOutputKeeps == ASSUME IInv, NEW p \in Chain, ReadOutput(p) PROVE IInv'
<1>0. /\ Reading /\ at[p] = "read" /\ OutPipe(p) > 0
      /\ UNCHANGED <<left, direction, state, call, source, handed, faulted>>
  BY DEF ReadOutput, outer
<1>1. RunsRead(p)
  BY <1>0, ReadRunning
<1>2. PICK n \in 1..Smaller(OutPipe(p), OutBuf - total[p]) :
        /\ Drain(p, n)
        /\ IF total[p] + n = OutBuf THEN Returns(p, OutBuf)
           ELSE total' = [total EXCEPT ![p] = @ + n] /\ UNCHANGED <<at, block, answer>>
  BY DEF ReadOutput
<1>t. /\ drained[p] \in Nat /\ made[p] \in Nat /\ total[p] \in Nat /\ OutBuf \in Nat /\ OutBuf # 0
      /\ Onward(p) \in Nat
  BY FilterAssumption, Values DEF IInv
<1>3. n \in Nat /\ n > 0 /\ drained[p] + n <= made[p]
  <2>1. n \in Nat /\ n > 0 /\ n <= OutPipe(p)
    BY <1>t, SmallerIs DEF OutPipe
  <2> QED BY <1>t, <2>1 DEF OutPipe
<1>4. UNCHANGED <<created, kid, child_stdin, child_stdout, written, taken, made>>
  BY <1>2 DEF Drain
<1>5. Opened' /\ Closed' /\ Writer' /\ ReadEnd'
  BY <1>0, <1>1, <1>4, ReadFrame DEF RunsRead
<1>6. answer[p] = "" /\ block[p] = 0 /\ child_stdout[p] # "closed" /\ drained[p] = Onward(p) + total[p]
  BY <1>0, <1>1, ReadFinds
<1>7. /\ Children' /\ drained' \in [Chain -> Nat] /\ drained'[p] = drained[p] + n
      /\ \A q \in Chain : q # p => drained'[q] = drained[q]
  BY <1>0, <1>2, <1>3, DrainKeeps
<1>8. /\ at' \in [Chain -> ReadPlaces] /\ total' \in [Chain -> Nat] /\ block' \in [0..Depth -> Nat]
      /\ answer' \in [0..Depth -> {"", "ok", "eof", "fatal"}] /\ answer'[p] = ""
      /\ \A q \in Chain : q # p =>
           /\ at'[q] = at[q] /\ total'[q] = total[q] /\ answer'[q] = answer[q]
           /\ block'[q] = block[q]
      /\ \/ at' = at /\ total'[p] = total[p] + n /\ block'[p] = 0
         \/ Goes(p, "idle") /\ at'[p] = "idle" /\ total'[p] = 0 /\ block'[p] = total[p] + n
  <2>1. CASE total[p] + n = OutBuf
    <3>1. Returns(p, OutBuf)
      BY <1>2, <2>1
    <3>2. \A q \in Chain : q \in 0..Depth
      BY ChainNat
    <3>3. Kinds /\ Goes(p, "idle")
      BY <3>1 DEF IInv, Returns
    <3>4. /\ at'[p] = "idle" /\ total'[p] = 0 /\ block'[p] = OutBuf
          /\ answer'[p] = IF OutBuf = 0 THEN "eof" ELSE answer[p]
          /\ \A q \in 0..Depth : q # p => block'[q] = block[q] /\ answer'[q] = answer[q]
          /\ \A q \in Chain : q # p => total'[q] = total[q] /\ at'[q] = at[q]
          /\ at' \in [Chain -> ReadPlaces] /\ total' \in [Chain -> Nat]
          /\ block' \in [0..Depth -> Nat] /\ answer' \in [0..Depth -> {"", "ok", "eof", "fatal"}]
      BY <1>0, <1>t, <3>1, <3>3, ReturnsGives, Zenon
    <3>5. answer'[p] = "" /\ block'[p] = total[p] + n
      BY <1>6, <1>t, <2>1, <3>4
    <3> QED BY <3>2, <3>3, <3>4, <3>5
  <2>2. CASE total[p] + n # OutBuf
    <3>1. total' = [total EXCEPT ![p] = @ + n] /\ UNCHANGED <<at, block, answer>>
      BY <1>2, <2>2
    <3>2. Kinds /\ at \in [Chain -> ReadPlaces]
      BY <1>0 DEF IInv, Kinds
    <3>3. total' \in [Chain -> Nat] /\ total'[p] = total[p] + n
      <4>1. total \in [Chain -> Nat]
        BY <3>2 DEF Kinds
      <4> QED BY <1>3, <1>t, <3>1, <4>1
    <3> QED BY <1>6, <3>1, <3>2, <3>3 DEF Kinds
  <2> QED BY <2>1, <2>2
<1>9. Kinds'
  BY <1>0, <1>4, <1>7, <1>8 DEF IInv, Kinds, Reading
<1>10. ReadStack'
  <2>1. CASE at' = at
    BY <1>0, <2>1 DEF IInv, Reader, ReadStack
  <2>2. CASE Goes(p, "idle")
    BY <1>0, <1>1, <2>2, ReadMoves DEF IInv, RunsRead
  <2> QED BY <1>8, <2>1, <2>2
<1>11. ASSUME NEW q \in Chain PROVE ReadPlace(q)' /\ ReadOver(q)' /\ ReadFlow(q)'
  <2>1. ReadPlace(q) /\ ReadOver(q) /\ ReadFlow(q)
    BY <1>0 DEF IInv, Reader
  <2>2. Onward(q)' = Onward(q)
    BY <1>0, <1>4 DEF Onward
  <2>3. CASE q = p
    <3>1. drained[p] + n = Onward(p) + block'[p] + total'[p]
      <4>0. /\ drained[p] = Onward(p) + total[p] /\ n \in Nat
            /\ Onward(p) \in Nat /\ total[p] \in Nat
        BY <1>3, <1>6, <1>t
      <4>1. CASE total'[p] = total[p] + n /\ block'[p] = 0
        BY <4>0, <4>1
      <4>2. CASE total'[p] = 0 /\ block'[p] = total[p] + n
        BY <4>0, <4>2
      <4> QED BY <1>8, <4>1, <4>2
    <3>2. ReadFlow(p)'
      BY <1>7, <2>2, <2>3, <3>1 DEF ReadFlow
    <3> QED BY <1>0, <1>1, <1>4, <1>6, <1>8, <2>1, <2>3, <3>2 DEF ReadPlace, ReadOver, RunsRead
  <2>4. CASE q # p
    <3>1. Same(q) /\ block'[q] = block[q]
      BY <1>4, <1>7, <1>8, <2>4 DEF Same
    <3> QED BY <1>0, <2>1, <2>2, <3>1, SameRead, SameFlow
  <2> QED BY <2>3, <2>4
<1> QED BY <1>0, <1>5, <1>7, <1>9, <1>10, <1>11 DEF IInv, Reader

(* The running filter goes on to another place of its loop; it may have    *)
(* closed the input of its child.                                          *)
Keeps(p) ==
  /\ UNCHANGED <<created, kid, written, taken, made, drained, total, block, answer, left>>
  /\ UNCHANGED <<direction, state, call, source, handed, faulted>>
  /\ child_stdout' \in [Chain -> {"open", "blocking", "closed"}]
  /\ \A q \in Chain : q # p => child_stdout'[q] = child_stdout[q]
  /\ child_stdout'[p] = "closed" <=> child_stdout[p] = "closed"

LEMMA EndInputKeeps ==
  ASSUME IInv, NEW p \in Chain, EndInput(p)
  PROVE  /\ child_stdout' \in [Chain -> {"open", "blocking", "closed"}]
         /\ \A q \in Chain : q # p => child_stdout'[q] = child_stdout[q]
         /\ child_stdout'[p] = "closed" <=> child_stdout[p] = "closed"
         /\ UNCHANGED <<created, kid, written, taken, made, drained>>
<1>1. child_stdout \in [Chain -> {"open", "blocking", "closed"}]
  BY DEF IInv, Kinds
<1> QED BY <1>1 DEF EndInput

LEMMA StdoutKeeps ==
  ASSUME IInv, UNCHANGED <<created, kid, made, drained, state>>,
         \A q \in Chain : child_stdout[q] = "closed" => child_stdout'[q] = "closed"
  PROVE  Children'
BY DEF IInv, Children

LEMMA ReadGoes ==
  ASSUME IInv, NEW p \in Chain, RunsRead(p), at[p] \in {"read", "upstream", "poll"},
         NEW place \in {"read", "upstream", "poll", "stop"}, Goes(p, place), Keeps(p),
         place = "stop" => Silent(p)
  PROVE  IInv'
<1>0. Reading /\ call.op = "read"
  BY DEF RunsRead
<1>2. Opened' /\ Closed' /\ Writer' /\ ReadEnd'
  BY <1>0, ReadFrame DEF Keeps
<1>3. /\ at' \in [Chain -> ReadPlaces] /\ at'[p] = place
      /\ \A q \in Chain : q # p => at'[q] = at[q]
  <2>1. at \in [Chain -> ReadPlaces]
    BY <1>0 DEF IInv, Kinds
  <2> QED BY <2>1 DEF Goes, ReadPlaces
<1>4. Kinds'
  BY <1>0, <1>3 DEF IInv, Kinds, Reading, Keeps
<1>5. Children'
  BY StdoutKeeps DEF Keeps
<1>6. ReadStack'
  BY <1>0, ReadMoves DEF IInv, Keeps
<1>7. ASSUME NEW q \in Chain PROVE ReadPlace(q)' /\ ReadOver(q)' /\ ReadFlow(q)'
  <2>1. ReadPlace(q) /\ ReadOver(q) /\ ReadFlow(q)
    BY <1>0 DEF IInv, Reader
  <2>2. ReadFlow(q)'
    BY <2>1 DEF ReadFlow, Onward, Keeps
  <2>3. CASE q = p
    <3>1. answer[p] = "" /\ block[p] = 0 /\ child_stdout[p] # "closed" /\ kid[p].status # "sigpipe"
      BY ReadFinds DEF IInv, Children
    <3>2. ReadPlace(p)'
      BY <1>0, <1>3, <3>1 DEF ReadPlace, Keeps, Silent, OutputEnded, Lives
    <3>3. ReadOver(p)'
      BY <1>0, <1>3, <3>1 DEF ReadOver, Keeps
    <3> QED BY <2>2, <2>3, <3>2, <3>3
  <2>4. CASE q # p
    <3>1. Same(q)
      BY <1>3, <2>4 DEF Keeps, Same
    <3> QED BY <2>1, <2>2, <3>1, SameRead DEF Keeps
  <2> QED BY <2>3, <2>4
<1> QED BY <1>0, <1>2, <1>4, <1>5, <1>6, <1>7 DEF IInv, Reader

LEMMA NothingYetKeeps == ASSUME IInv, NEW p \in Chain, NothingYet(p) PROVE IInv'
<1>1. RunsRead(p)
  BY ReadRunning DEF NothingYet
<1>2. Keeps(p)
  BY DEF NothingYet, Keeps, childVars, outer, IInv, Kinds
<1> QED BY <1>1, <1>2, ReadGoes DEF NothingYet

LEMMA OutputOverKeeps == ASSUME IInv, NEW p \in Chain, OutputOver(p) PROVE IInv'
<1>1. RunsRead(p)
  BY ReadRunning DEF OutputOver
<1>2. Keeps(p)
  BY DEF OutputOver, Keeps, childVars, outer, IInv, Kinds
<1>3. Silent(p)
  <2>1. drained[p] \in Nat /\ made[p] \in Nat
    BY Values DEF IInv
  <2> QED BY <2>1 DEF OutputOver, Silent, OutPipe
<1> QED BY <1>1, <1>2, <1>3, ReadGoes DEF OutputOver

LEMMA InputRefusedKeeps == ASSUME IInv, NEW p \in Chain, InputRefused(p) PROVE IInv'
<1>1. RunsRead(p)
  <2>1. Answered(p)
    <3>1. block[p - 1] > 0
      BY DEF InputRefused
    <3>2. block[p - 1] # 0
      BY <3>1
    <3> QED BY <3>2 DEF Answered
  <2> QED BY <2>1, ReadRunning DEF InputRefused
<1>2. Keeps(p)
  BY EndInputKeeps DEF InputRefused, Keeps, outer
<1> QED BY <1>1, <1>2, ReadGoes DEF InputRefused

LEMMA ReadPollKeeps == ASSUME IInv, NEW p \in Chain, Reading, Poll(p) PROVE IInv'
<1>1. RunsRead(p)
  BY ReadRunning DEF Poll
<1>2. Keeps(p)
  BY DEF Poll, Keeps, childVars, outer, IInv, Kinds
<1> QED BY <1>1, <1>2, ReadGoes DEF Poll

(* A failure for good of the filter that runs.                             *)
LEMMA ReadBreaks ==
  ASSUME IInv, NEW p \in Chain, RunsRead(p), Breaks(p), Children',
         child_stdout' \in [Chain -> {"open", "blocking", "closed"}],
         kid' \in [Chain -> Programs],
         \A q \in Chain : q # p => child_stdout'[q] = child_stdout[q] /\ kid'[q] = kid[q],
         UNCHANGED <<created, written, taken, made, drained, left>>,
         UNCHANGED <<direction, state, call, source, handed, faulted>>,
         Closed'
  PROVE  IInv'
<1>0. Reading /\ call.op = "read"
  BY DEF RunsRead
<1>1. Kinds /\ p \in 0..Depth /\ \A q \in Chain : q \in 0..Depth
  BY ChainNat DEF IInv
<1>2. Opened' /\ Writer' /\ ReadEnd'
  BY <1>0, ReadFrame
<1>3. /\ at'[p] = "idle" /\ total'[p] = 0 /\ answer'[p] = "fatal" /\ block' = block
      /\ \A q \in 0..Depth : q # p => answer'[q] = answer[q]
      /\ \A q \in Chain : q # p => total'[q] = total[q] /\ at'[q] = at[q]
      /\ at' \in [Chain -> ReadPlaces] /\ total' \in [Chain -> Nat]
      /\ answer' \in [0..Depth -> {"", "ok", "eof", "fatal"}]
  BY <1>0, <1>1, BreaksGives
<1>4. Kinds'
  BY <1>0, <1>1, <1>3 DEF Kinds, Reading
<1>5. ReadStack'
  BY <1>0, <1>1, ReadMoves DEF Breaks
<1>6. ASSUME NEW q \in Chain PROVE ReadPlace(q)' /\ ReadOver(q)' /\ ReadFlow(q)'
  <2>1. ReadPlace(q) /\ ReadOver(q) /\ ReadFlow(q)
    BY <1>0 DEF IInv, Reader
  <2>2. CASE q = p
    BY <1>0, <1>3, <2>2 DEF ReadPlace, ReadOver, ReadFlow
  <2>3. CASE q # p
    <3>1. Same(q) /\ Onward(q)' = Onward(q)
      BY <1>1, <1>3, <2>3 DEF Same, Onward
    <3> QED BY <1>3, <2>1, <3>1, SameRead, SameFlow
  <2> QED BY <2>2, <2>3
<1> QED BY <1>0, <1>2, <1>4, <1>5, <1>6 DEF IInv, Reader

LEMMA InputOverKeeps == ASSUME IInv, NEW p \in Chain, InputOver(p) PROVE IInv'
<1>1. RunsRead(p)
  <2>1. Answered(p)
    BY DEF Answered, InputOver
  <2> QED BY <2>1, ReadRunning DEF InputOver
<1>2. CASE answer[p - 1] = "fatal"
  <2>1. Children'
    BY EndInputKeeps, StdoutKeeps DEF InputOver, outer
  <2>2. Closed'
    BY <1>1, ReadFrame, EndInputKeeps DEF InputOver, RunsRead, outer
  <2>3. kid' \in [Chain -> Programs] /\ kid' = kid
    BY EndInputKeeps DEF IInv, Kinds, InputOver
  <2> QED BY <1>1, <1>2, <2>1, <2>2, <2>3, ReadBreaks, EndInputKeeps DEF InputOver, outer
<1>3. CASE answer[p - 1] # "fatal"
  <2>1. Keeps(p) /\ Goes(p, "read")
    BY <1>3, EndInputKeeps DEF InputOver, Keeps, outer
  <2> QED BY <1>1, <2>1, ReadGoes DEF InputOver
<1> QED BY <1>2, <1>3

LEMMA FeedKeeps == ASSUME IInv, NEW p \in Chain, Feed(p) PROVE IInv'
<1>0. /\ Reading /\ at[p] = "upstream" /\ block[p - 1] > 0 /\ Lives(p)
      /\ UNCHANGED <<total, left, answer, direction, state, call, source, handed, faulted>>
  BY DEF Feed, outer
<1>1. RunsRead(p)
  <2>1. block[p - 1] # 0
    BY <1>0
  <2> QED BY <1>0, <2>1, ReadRunning DEF Answered
<1>2. CASE Goes(p, "poll") /\ UNCHANGED <<childVars, block>>
  <2>1. Keeps(p)
    BY <1>0, <1>2 DEF Keeps, childVars, IInv, Kinds
  <2> QED BY <1>0, <1>1, <1>2, <2>1, ReadGoes
<1>3. CASE (\E n \in 1..Smaller(block[p - 1], Room(p)) : Write(p, n) /\ Consumed(p, n))
           /\ Goes(p, "read")
  <2>1. PICK n \in 1..Smaller(block[p - 1], Room(p)) : Write(p, n) /\ Consumed(p, n)
    BY <1>3
  <2>t. /\ block \in [0..Depth -> Nat] /\ written \in [Chain -> Nat]
        /\ p \in Nat /\ p - 1 \in 0..Depth /\ \A q \in Chain : q \in 0..Depth
    BY ChainNat DEF IInv, Kinds
  <2>2. n \in Nat /\ n <= block[p - 1]
    <3>1. block[p - 1] \in Int /\ Room(p) \in Int
      BY <2>t, RoomIs DEF IInv
    <3> QED BY <3>1, SmallerIs
  <2>3. /\ written' \in [Chain -> Nat] /\ written'[p] = written[p] + n
        /\ \A q \in Chain : q # p => written'[q] = written[q]
    <3>1. written' = [written EXCEPT ![p] = @ + n]
      BY <2>1 DEF Write
    <3> QED BY <2>t, <2>2, <3>1
  <2>4. /\ block' \in [0..Depth -> Nat] /\ block'[p - 1] = block[p - 1] - n
        /\ \A q \in 0..Depth : q # p - 1 => block'[q] = block[q]
    <3>1. block' = [block EXCEPT ![p - 1] = @ - n]
      BY <2>1 DEF Consumed
    <3>2. block[p - 1] - n \in Nat
      BY <2>t, <2>2
    <3> QED BY <2>t, <3>1, <3>2
  <2>5. UNCHANGED <<created, kid, child_stdout, taken, made, drained>>
    BY <2>1 DEF Write
  <2>6. /\ at' \in [Chain -> ReadPlaces] /\ at'[p] = "read"
        /\ \A q \in Chain : q # p => at'[q] = at[q]
    <3>1. at \in [Chain -> ReadPlaces]
      BY <1>0 DEF IInv, Kinds
    <3> QED BY <1>3, <3>1 DEF Goes, ReadPlaces
  <2>7. Opened' /\ Closed' /\ Writer' /\ ReadEnd'
    BY <1>0, <1>1, <2>5, ReadFrame DEF RunsRead
  <2>8. Kinds'
    BY <1>0, <2>3, <2>4, <2>5, <2>6 DEF IInv, Kinds, Reading
  <2>9. Children'
    BY <1>0, <2>5, StdoutKeeps
  <2>10. ReadStack'
    BY <1>0, <1>1, <1>3, ReadMoves DEF IInv, RunsRead
  <2>11. ASSUME NEW q \in Chain PROVE ReadPlace(q)' /\ ReadOver(q)' /\ ReadFlow(q)'
    <3>1. ReadPlace(q) /\ ReadOver(q) /\ ReadFlow(q)
      BY <1>0 DEF IInv, Reader
    <3>2. CASE q = p
      <4>1. answer[p] = "" /\ block[p] = 0 /\ child_stdout[p] # "closed"
        BY <1>0, <1>1, ReadFinds
      <4>2. block'[p] = 0
        <5>1. p # p - 1 /\ p \in 0..Depth
          BY <2>t
        <5> QED BY <2>4, <4>1, <5>1
      <4>3. Onward(p)' = Onward(p)
        <5>1. p < Depth => p + 1 \in Chain /\ p + 1 # p
          BY ChainNat
        <5> QED BY <1>0, <2>3, <5>1 DEF Onward
      <4>4. ReadFlow(p)'
        BY <1>0, <2>5, <3>1, <3>2, <4>1, <4>2, <4>3 DEF ReadFlow
      <4> QED BY <1>0, <1>1, <2>5, <2>6, <3>2, <4>1, <4>2, <4>4 DEF ReadPlace, ReadOver, RunsRead
    <3>3. CASE q # p
      <4>1. Same(q)
        BY <1>0, <2>5, <2>6, <3>3 DEF Same
      <4>2. CASE q = p - 1
        <5>1. q < p /\ at[q] = "idle"
          BY <1>1, <2>t, <4>2 DEF RunsRead
        <5>2. /\ q < Depth /\ q + 1 = p
              /\ Onward(q) = written[p] /\ Onward(q)' = written'[p]
          <6>1. q < Depth /\ q + 1 = p
            BY <2>t, <4>2, ChainNat
          <6> QED BY <6>1 DEF Onward
        <5>3. block'[q] = block[q] - n /\ Onward(q)' = Onward(q) + n
          BY <2>3, <2>4, <4>2, <5>2
        <5>4. Onward(q) \in Nat /\ block[q] \in Nat /\ total[q] \in Nat
          BY Values DEF IInv
        <5>5. Onward(q) + block[q] + total[q] = (Onward(q) + n) + (block[q] - n) + total[q]
          BY <2>2, <5>4
        <5>6. ReadFlow(q)'
          BY <1>0, <2>5, <3>1, <5>3, <5>5 DEF ReadFlow
        <5> QED BY <1>0, <3>1, <4>1, <5>1, <5>6, SameRead
      <4>3. CASE q # p - 1
        <5>1. block'[q] = block[q]
          BY <2>4, <2>t, <4>3
        <5>2. Onward(q)' = Onward(q)
          <6>1. q < Depth => q + 1 \in Chain /\ q + 1 # p
            BY <4>3, <2>t, ChainNat
          <6> QED BY <1>0, <2>3, <6>1 DEF Onward
        <5> QED BY <1>0, <3>1, <4>1, <5>1, <5>2, SameRead, SameFlow
      <4> QED BY <4>2, <4>3
    <3> QED BY <3>2, <3>3
  <2> QED BY <1>0, <2>7, <2>8, <2>9, <2>10, <2>11 DEF IInv, Reader
<1> QED BY <1>0, <1>2, <1>3 DEF Feed

LEMMA ReadSourceKeeps == ASSUME IInv, ReadSource PROVE IInv'
<1>0. /\ Reading /\ at[1] = "upstream" /\ 1 \in Chain
      /\ UNCHANGED <<created, kid, child_stdout, written, taken, made, drained>>
      /\ UNCHANGED <<at, total, left, direction, state, call, handed, faulted>>
  BY ChainNat DEF ReadSource, childVars
<1>1. call.op = "read"
  BY <1>0 DEF IInv, Reader, ReadStack
<1>2. Opened' /\ Closed' /\ Writer' /\ ReadEnd'
  BY <1>0, <1>1, ReadFrame
<1>3. /\ block' \in [0..Depth -> Nat] /\ answer' \in [0..Depth -> {"", "ok", "eof", "fatal"}]
      /\ \A q \in Chain : block'[q] = block[q] /\ answer'[q] = answer[q]
      /\ source' \in Nat
  <2>t. /\ block \in [0..Depth -> Nat] /\ answer \in [0..Depth -> {"", "ok", "eof", "fatal"}]
        /\ source \in Nat
    BY DEF IInv, Kinds
  <2>c. 0 \in 0..Depth /\ \A q \in Chain : q # 0 /\ q \in 0..Depth
    <3>1. Depth \in Nat /\ \A q \in Chain : q > 0 /\ q \in 0..Depth
      BY ChainNat
    <3> QED BY <3>1
  <2>1. CASE \E n \in 1..source : /\ block' = [block EXCEPT ![0] = n]
                                  /\ source' = source - n /\ UNCHANGED answer
    <3>1. PICK n \in 1..source : /\ block' = [block EXCEPT ![0] = n]
                               /\ source' = source - n /\ UNCHANGED answer
      BY <2>1
    <3>2. n \in Nat /\ source - n \in Nat
      <4>1. source \in Nat
        BY <2>t
      <4> QED BY <4>1
    <3> QED BY <2>t, <2>c, <3>1, <3>2
  <2>2. CASE block' = block /\ source' = source
             /\ (answer' = [answer EXCEPT ![0] = "eof"] \/ answer' = [answer EXCEPT ![0] = "fatal"])
    BY <2>t, <2>c, <2>2
  <2> QED BY <2>1, <2>2 DEF ReadSource
<1>4. Kinds'
  BY <1>0, <1>3 DEF IInv, Kinds, Reading
<1>5. Children'
  BY <1>0, StdoutKeeps
<1>6. ReadStack'
  BY <1>0 DEF IInv, Reader, ReadStack
<1>7. ASSUME NEW q \in Chain PROVE ReadPlace(q)' /\ ReadOver(q)' /\ ReadFlow(q)'
  <2>1. ReadPlace(q) /\ ReadOver(q) /\ ReadFlow(q)
    BY <1>0 DEF IInv, Reader
  <2>2. Same(q) /\ Onward(q)' = Onward(q) /\ block'[q] = block[q]
    BY <1>0, <1>3 DEF Same, Onward
  <2> QED BY <1>0, <2>1, <2>2, SameRead, SameFlow
<1> QED BY <1>0, <1>2, <1>4, <1>5, <1>6, <1>7 DEF IInv, Reader

(* A filter is called only when it is idle, and from above.                *)
LEMMA BeginReadKeeps == ASSUME IInv, NEW p \in Chain, BeginRead(p) PROVE IInv'
<1>0. /\ Reading /\ at[p] = "idle" /\ block[p] = 0 /\ answer[p] = ""
      /\ UNCHANGED <<created, kid, child_stdout, written, taken, made, drained>>
      /\ UNCHANGED <<left, direction, state, call, source, handed, faulted>>
  BY DEF BeginRead, Asks, childVars, outer
<1>1. call.op = "read" /\ \A q \in Chain : p < q => at[q] = "upstream"
  <2>1. CASE p = Depth
    <3>1. \A q \in Chain : ~(p < q)
      BY <2>1, ChainNat
    <3> QED BY <2>1, <3>1 DEF BeginRead
  <2>2. CASE p # Depth
    <3>1. at[p + 1] = "upstream" /\ p + 1 \in Chain
      BY <2>2, ChainNat DEF BeginRead
    <3>2. call.op = "read" /\ \A q \in Chain : p + 1 < q => at[q] = "upstream"
      BY <1>0, <3>1 DEF IInv, Reader, ReadStack
    <3>3. \A q \in Chain : p < q => q = p + 1 \/ p + 1 < q
      BY ChainNat
    <3> QED BY <3>1, <3>2, <3>3
  <2> QED BY <2>1, <2>2
<1>2. Opened' /\ Closed' /\ Writer' /\ ReadEnd'
  BY <1>0, <1>1, ReadFrame
<1>3. Children'
  BY <1>0, StdoutKeeps
<1>4. ReadPlace(p) /\ ReadOver(p) /\ ReadFlow(p) /\ total[p] = 0
  BY <1>0, <1>1 DEF IInv, Reader, ReadPlace
<1>5. CASE child_stdout[p] = "closed"
  <2>1. Returns(p, 0) /\ Over(p)
    BY <1>0, <1>1, <1>4, <1>5 DEF BeginRead, ReadOver
  <2>2. Kinds /\ at \in [Chain -> ReadPlaces] /\ \A q \in Chain : q \in 0..Depth
    BY <1>0, ChainNat DEF IInv, Kinds
  <2>3. /\ at'[p] = "idle" /\ total'[p] = 0 /\ block'[p] = 0 /\ answer'[p] = "eof"
        /\ \A q \in 0..Depth : q # p => block'[q] = block[q] /\ answer'[q] = answer[q]
        /\ \A q \in Chain : q # p => total'[q] = total[q] /\ at'[q] = at[q]
        /\ at' \in [Chain -> ReadPlaces] /\ total' \in [Chain -> Nat]
        /\ block' \in [0..Depth -> Nat] /\ answer' \in [0..Depth -> {"", "ok", "eof", "fatal"}]
    <3>1. Kinds /\ Reading /\ 0 \in Nat /\ Returns(p, 0)
      BY <1>0, <2>1, <2>2
    <3>2. answer'[p] = IF 0 = 0 THEN "eof" ELSE answer[p]
      BY <3>1, ReturnsGives, Zenon
    <3>3. answer'[p] = "eof"
      BY <3>2
    <3> QED BY <3>1, <3>3, ReturnsGives, Zenon
  <2>4. at' = at
    BY <1>0, <2>1, <2>2 DEF Returns, Goes
  <2>5. Kinds'
    BY <1>0, <2>2, <2>3 DEF Kinds, Reading
  <2>6. ReadStack'
    BY <1>0, <2>4 DEF IInv, Reader, ReadStack
  <2>7. ASSUME NEW q \in Chain PROVE ReadPlace(q)' /\ ReadOver(q)' /\ ReadFlow(q)'
    <3>1. ReadPlace(q) /\ ReadOver(q) /\ ReadFlow(q) /\ Onward(q)' = Onward(q)
      BY <1>0 DEF IInv, Reader, Onward
    <3>2. CASE q = p
      <4>1. Over(p)'
        BY <1>0, <2>1 DEF Over
      <4>2. ReadFlow(p)'
        BY <1>0, <1>4, <2>3, <3>1, <3>2 DEF ReadFlow
      <4> QED BY <1>0, <1>1, <2>3, <3>2, <4>1, <4>2 DEF ReadPlace, ReadOver
    <3>3. CASE q # p
      <4>1. Same(q) /\ block'[q] = block[q]
        BY <1>0, <2>2, <2>3, <3>3 DEF Same
      <4> QED BY <1>0, <3>1, <4>1, SameRead, SameFlow
    <3> QED BY <3>2, <3>3
  <2> QED BY <1>0, <1>2, <1>3, <2>5, <2>6, <2>7 DEF IInv, Reader
<1>6. CASE child_stdout[p] # "closed"
  <2>1. Goes(p, "read") /\ UNCHANGED <<total, block, answer>>
    BY <1>6 DEF BeginRead
  <2>2. /\ at' \in [Chain -> ReadPlaces] /\ at'[p] = "read"
        /\ \A q \in Chain : q # p => at'[q] = at[q]
    <3>1. at \in [Chain -> ReadPlaces]
      BY <1>0 DEF IInv, Kinds
    <3> QED BY <2>1, <3>1 DEF Goes, ReadPlaces
  <2>3. Kinds'
    BY <1>0, <2>1, <2>2 DEF IInv, Kinds, Reading
  <2>4. ReadStack'
    <3> SUFFICES ASSUME NEW r \in Chain, at'[r] # "idle"
                 PROVE  call.op = "read" /\ \A q \in Chain : r < q => at'[q] = "upstream"
      BY <1>0 DEF ReadStack
    <3>1. CASE r = p
      <4>1. \A q \in Chain : r < q => q # p
        BY <3>1, ChainNat
      <4> QED BY <1>1, <2>2, <3>1, <4>1
    <3>2. CASE r # p
      <4>1. at[r] # "idle"
        BY <2>2, <3>2
      <4>2. \A q \in Chain : r < q => at[q] = "upstream"
        BY <1>0, <1>1, <4>1 DEF IInv, Reader, ReadStack
      <4>3. \A q \in Chain : r < q => q # p
        BY <1>0, <4>2
      <4> QED BY <1>1, <2>2, <4>2, <4>3
    <3> QED BY <3>1, <3>2
  <2>5. ASSUME NEW q \in Chain PROVE ReadPlace(q)' /\ ReadOver(q)' /\ ReadFlow(q)'
    <3>1. ReadPlace(q) /\ ReadOver(q) /\ ReadFlow(q) /\ Onward(q)' = Onward(q)
      BY <1>0 DEF IInv, Reader, Onward
    <3>2. ReadFlow(q)'
      BY <1>0, <2>1, <3>1 DEF ReadFlow
    <3>3. CASE q = p
      BY <1>0, <1>1, <1>6, <2>1, <2>2, <3>2, <3>3 DEF ReadPlace, ReadOver
    <3>4. CASE q # p
      <4>1. Same(q) /\ block'[q] = block[q]
        BY <1>0, <2>1, <2>2, <3>4 DEF Same
      <4> QED BY <1>0, <3>1, <3>2, <4>1, SameRead
    <3> QED BY <3>3, <3>4
  <2> QED BY <1>0, <1>2, <1>3, <2>3, <2>4, <2>5 DEF IInv, Reader
<1> QED BY <1>5, <1>6

(* The child is waited for at most once.                                   *)
LEMMA ReapsKeeps ==
  ASSUME IInv, NEW p \in Chain, Reaps(p)
  PROVE  /\ kid' \in [Chain -> Programs] /\ kid'[p].at = "reaped" /\ kid'[p].status = kid[p].status
         /\ kid'[p].mute = kid[p].mute /\ kid[p].at \in {"dead", "reaped"}
         /\ \A q \in Chain : q # p => kid'[q] = kid[q]
         /\ UNCHANGED <<created, child_stdin, child_stdout, written, taken, made, drained>>
         /\ state' \in {state, [state EXCEPT ![p] = "closed"]} => Children'
<1>t. /\ kid \in [Chain -> Programs] /\ state \in [Chain -> {"new", "open", "fatal", "closed"}]
      /\ kid[p].at # "none" => state[p] \in {"open", "closed"} /\ p \in created
  BY DEF IInv, Kinds, Children
<1>1. /\ kid' \in [Chain -> Programs] /\ kid'[p].at = "reaped" /\ kid'[p].status = kid[p].status
      /\ kid'[p].mute = kid[p].mute /\ kid[p].at \in {"dead", "reaped"}
      /\ \A q \in Chain : q # p => kid'[q] = kid[q]
      /\ UNCHANGED <<created, child_stdin, child_stdout, written, taken, made, drained>>
  <2>1. CASE kid[p].at = "reaped"
    BY <1>t, <2>1 DEF Reaps, childVars
  <2>2. CASE kid[p].at # "reaped"
    <3>1. Reap(p)
      BY <2>2 DEF Reaps
    <3>2. kid' = [kid EXCEPT ![p].at = "reaped"] /\ kid[p].at = "dead" /\ kid[p] \in Programs
      BY <1>t, <3>1 DEF Reap
    <3> QED BY <1>t, <3>1, <3>2 DEF Reap, Programs
  <2> QED BY <2>1, <2>2
<1>2. ASSUME state' \in {state, [state EXCEPT ![p] = "closed"]} PROVE Children'
  <2>1. /\ state'[p] = state[p] \/ state'[p] = "closed"
        /\ \A q \in Chain : q # p => state'[q] = state[q]
    BY <1>t, <1>2
  <2>2. state[p] \in {"open", "closed"} /\ p \in created
    BY <1>t, <1>1
  <2> QED BY <1>1, <2>1, <2>2 DEF IInv, Children
<1> QED BY <1>1, <1>2

(* The child that has put out all and is gone decides how the read ends.   *)
LEMMA StopInReadKeeps == ASSUME IInv, NEW p \in Chain, StopInRead(p) PROVE IInv'
<1>0. /\ Reading /\ at[p] = "wait" /\ call.op = "read" /\ Reaps(p)
      /\ UNCHANGED <<left, direction, state, call, source, handed, faulted>>
  BY DEF StopInRead, outer
<1>1. RunsRead(p)
  BY <1>0, ReadRunning
<1>2. state[p] = "open" /\ p \in created
  BY <1>0 DEF IInv, Opened, Children
<1>3. /\ kid' \in [Chain -> Programs] /\ kid'[p].at = "reaped" /\ kid'[p].status = kid[p].status
      /\ kid'[p].mute = kid[p].mute /\ kid[p].at \in {"dead", "reaped"}
      /\ \A q \in Chain : q # p => kid'[q] = kid[q]
      /\ UNCHANGED <<created, child_stdin, child_stdout, written, taken, made, drained>>
      /\ Children'
  BY <1>0, ReapsKeeps
<1>4. Opened' /\ Closed' /\ Writer' /\ ReadEnd'
  BY <1>0, <1>3, ReadFrame
<1>5. /\ ReadFlow(p) /\ answer[p] = "" /\ block[p] = 0 /\ child_stdout[p] = "closed"
      /\ drained[p] = Onward(p) + total[p] /\ Silent(p) /\ kid[p].status # "sigpipe"
  BY <1>0, <1>1, ReadFinds DEF ReadPlace
<1>6. CASE GoodEnd(kid[p].status)
  <2>t. Kinds /\ total[p] \in Nat /\ Onward(p) \in Nat /\ \A q \in Chain : q \in 0..Depth
    BY Values, ChainNat DEF IInv
  <2>1. Returns(p, total[p]) /\ Over(p)'
    BY <1>0, <1>3, <1>5, <1>6 DEF StopInRead, Over, Silent, GoodEnd
  <2>2. /\ at'[p] = "idle" /\ total'[p] = 0 /\ block'[p] = total[p]
        /\ answer'[p] = IF total[p] = 0 THEN "eof" ELSE answer[p]
        /\ \A q \in 0..Depth : q # p => block'[q] = block[q] /\ answer'[q] = answer[q]
        /\ \A q \in Chain : q # p => total'[q] = total[q] /\ at'[q] = at[q]
        /\ at' \in [Chain -> ReadPlaces] /\ total' \in [Chain -> Nat]
        /\ block' \in [0..Depth -> Nat] /\ answer' \in [0..Depth -> {"", "ok", "eof", "fatal"}]
    BY <1>0, <2>1, <2>t, ReturnsGives, Zenon
  <2>3. Kinds'
    BY <1>0, <1>3, <2>2, <2>t DEF Kinds, Reading
  <2>4. ReadStack'
    BY <1>0, <1>1, <2>1, <2>t, ReadMoves DEF Returns
  <2>5. ASSUME NEW q \in Chain PROVE ReadPlace(q)' /\ ReadOver(q)' /\ ReadFlow(q)'
    <3>1. ReadPlace(q) /\ ReadOver(q) /\ ReadFlow(q) /\ Onward(q)' = Onward(q)
      BY <1>0, <1>3 DEF IInv, Reader, Onward
    <3>2. CASE q = p
      <4>1. ReadFlow(p)'
        <5>1. drained'[p] = Onward(p)' + block'[p] + total'[p]
          <6>1. Onward(p) + total[p] = Onward(p) + total[p] + 0
            BY <2>t
          <6> QED BY <1>3, <1>5, <2>2, <3>1, <3>2, <6>1
        <5> QED BY <5>1 DEF ReadFlow
      <4> QED BY <1>0, <2>1, <2>2, <3>2, <4>1 DEF ReadPlace, ReadOver
    <3>3. CASE q # p
      <4>1. Same(q) /\ block'[q] = block[q]
        BY <1>3, <2>2, <2>t, <3>3 DEF Same
      <4> QED BY <1>0, <3>1, <4>1, SameRead, SameFlow
    <3> QED BY <3>2, <3>3
  <2> QED BY <1>0, <1>3, <1>4, <2>3, <2>4, <2>5 DEF IInv, Reader
<1>7. CASE ~GoodEnd(kid[p].status)
  <2>1. Breaks(p)
    BY <1>7 DEF StopInRead
  <2>2. child_stdout' \in [Chain -> {"open", "blocking", "closed"}]
    BY <1>3 DEF IInv, Kinds
  <2> QED BY <1>0, <1>1, <1>3, <1>4, <2>1, <2>2, ReadBreaks
<1> QED BY <1>6, <1>7

(* Both our ends are closed before the child is waited for.                *)
LEMMA LeaveKeeps ==
  ASSUME IInv, NEW p \in Chain, Leave(p), state' = state
  PROVE  /\ child_stdout' \in [Chain -> {"open", "blocking", "closed"}]
         /\ child_stdout'[p] = "closed" /\ \A q \in Chain : q # p => child_stdout'[q] = child_stdout[q]
         /\ UNCHANGED <<created, kid, written, taken, made, drained>> /\ Children'
<1>1. child_stdout \in [Chain -> {"open", "blocking", "closed"}]
  BY DEF IInv, Kinds
<1>2. /\ child_stdout' \in [Chain -> {"open", "blocking", "closed"}]
      /\ child_stdout'[p] = "closed" /\ \A q \in Chain : q # p => child_stdout'[q] = child_stdout[q]
      /\ UNCHANGED <<created, kid, written, taken, made, drained>>
  BY <1>1 DEF Leave
<1> QED BY <1>2, StdoutKeeps

LEMMA ReadStopKeeps == ASSUME IInv, NEW p \in Chain, Reading, Stop(p) PROVE IInv'
<1>0. /\ at[p] = "stop" /\ Leave(p) /\ Goes(p, "wait")
      /\ UNCHANGED <<total, block, left, answer, direction, state, call, source, handed, faulted>>
  BY DEF Stop, outer
<1>1. /\ child_stdout' \in [Chain -> {"open", "blocking", "closed"}]
      /\ child_stdout'[p] = "closed" /\ \A q \in Chain : q # p => child_stdout'[q] = child_stdout[q]
      /\ UNCHANGED <<created, kid, written, taken, made, drained>> /\ Children'
  BY <1>0, LeaveKeeps
<1>2. /\ at' \in [Chain -> ReadPlaces] /\ at'[p] = "wait"
      /\ \A q \in Chain : q # p => at'[q] = at[q]
  <2>1. at \in [Chain -> ReadPlaces]
    BY DEF IInv, Kinds
  <2> QED BY <1>0, <2>1 DEF Goes, ReadPlaces
<1>3. call.op \in {"read", "close"} /\ (call.op = "close" => call.now = p)
  BY <1>0 DEF IInv, Reader, ReadStack
<1>4. Kinds'
  BY <1>0, <1>1, <1>2 DEF IInv, Kinds, Reading
<1>5. Opened' /\ Closed' /\ Writer' /\ ReadEnd'
  BY <1>0, <1>1, <1>3 DEF IInv, Opened, Closed, Behind, Writer, Reader, ReadEnd, Over, Reading, Writing
<1>6. ReadStack'
  <2>1. CASE call.op = "read"
    BY <1>0, <2>1, ReadRunning, ReadMoves DEF IInv
  <2>2. CASE call.op = "close"
    BY <1>0, <1>2, <1>3, <2>2 DEF IInv, Reader, ReadStack
  <2> QED BY <1>3, <2>1, <2>2
<1>7. ASSUME NEW q \in Chain PROVE ReadPlace(q)' /\ ReadOver(q)' /\ ReadFlow(q)'
  <2>1. ReadPlace(q) /\ ReadOver(q) /\ ReadFlow(q) /\ Onward(q)' = Onward(q)
    BY <1>0, <1>1 DEF IInv, Reader, Onward
  <2>2. CASE q = p
    <3>1. ReadFlow(p)'
      BY <1>0, <1>1, <2>1, <2>2 DEF ReadFlow
    <3>2. ReadPlace(p)'
      BY <1>0, <1>1, <1>2, <2>1, <2>2 DEF ReadPlace, Silent, OutputEnded, Lives
    <3>3. ReadOver(p)'
      BY <1>0, <1>2, <2>1, <2>2 DEF ReadOver
    <3> QED BY <2>2, <3>1, <3>2, <3>3
  <2>3. CASE q # p
    <3>1. Same(q) /\ block'[q] = block[q]
      BY <1>0, <1>1, <1>2, <2>3 DEF Same
    <3> QED BY <1>0, <2>1, <3>1, SameRead, SameFlow
  <2> QED BY <2>2, <2>3
<1> QED BY <1>1, <1>4, <1>5, <1>6, <1>7 DEF IInv, Reader

-----------------------------------------------------------------------------
(* The programs.                                                           *)

(* What a step of a program may change.                                    *)
Worked(p) ==
  /\ Lives(p) /\ kid' \in [Chain -> Programs] /\ taken' \in [Chain -> Nat]
  /\ made' \in [Chain -> Nat] /\ made[p] <= made'[p]
  /\ \A q \in Chain : q # p => kid'[q] = kid[q] /\ made'[q] = made[q]
  /\ kid'[p].at \in {"read", "write", "exit", "dead"}
  /\ kid'[p].status = "none" <=> kid'[p].at # "dead"
  /\ kid[p].mute => kid'[p].mute
  /\ kid'[p].mute => kid'[p].at # "write"
  /\ kid[p].at # "write" => made'[p] = made[p] /\ kid'[p].status # "sigpipe"
  /\ kid'[p].status = "sigpipe" => child_stdout[p] = "closed"
  /\ UNCHANGED <<created, child_stdin, child_stdout, written, drained>>

LEMMA DecidesGives ==
  ASSUME Kinds, NEW p \in Chain, NEW k \in Programs, Decides(p, k)
  PROVE  /\ kid' \in [Chain -> Programs] /\ \A q \in Chain : q # p => kid'[q] = kid[q]
         /\ kid'[p].at \in {"read", "write", "exit"} /\ kid'[p].status = k.status
         /\ kid'[p].mute = k.mute /\ (k.mute => kid'[p].at # "write")
<1>1. PICK t \in 0..(IF k.mute THEN 0 ELSE MaxMade - made[p]) :
        kid' = [kid EXCEPT ![p] = [k EXCEPT !.todo = t,
                  !.at = IF t > 0 THEN "write" ELSE IF k.ended THEN "exit" ELSE "read"]]
  BY DEF Decides
<1> DEFINE place == IF t > 0 THEN "write" ELSE IF k.ended THEN "exit" ELSE "read"
<1>2. t \in Nat /\ (k.mute => t = 0)
  <2>1. MaxMade - made[p] \in Int
    <3>1. MaxMade \in Nat /\ made[p] \in Nat
      BY ChildAssumption DEF Kinds
    <3> QED BY <3>1
  <2>2. CASE k.mute
    BY <1>1, <2>2
  <2>3. CASE ~k.mute
    BY <1>1, <2>1, <2>3
  <2> QED BY <2>2, <2>3
<1>3. place \in {"read", "write", "exit"} /\ (t = 0 => place # "write")
  BY <1>2
<1>4. kid' = [kid EXCEPT ![p] = [k EXCEPT !.todo = t, !.at = place]]
  BY <1>1
<1> HIDE DEF place
<1>5. /\ [k EXCEPT !.todo = t, !.at = place] \in Programs
      /\ [k EXCEPT !.todo = t, !.at = place].at = place
      /\ [k EXCEPT !.todo = t, !.at = place].status = k.status
      /\ [k EXCEPT !.todo = t, !.at = place].mute = k.mute
  BY <1>2, <1>3 DEF Programs
<1>6. kid \in [Chain -> Programs]
  BY DEF Kinds
<1> QED BY <1>2, <1>3, <1>4, <1>5, <1>6

LEMMA ProgramWorks ==
  ASSUME IInv, NEW p \in Chain, ChildWorks(p) \/ ChildDies(p)
  PROVE  Worked(p)
<1>t. /\ kid \in [Chain -> Programs] /\ kid[p] \in Programs
      /\ made \in [Chain -> Nat] /\ made[p] \in Nat
      /\ taken \in [Chain -> Nat]
  BY DEF IInv, Kinds
<1>k. /\ kid[p].mute => kid[p].at # "write"
      /\ kid[p].status = "none" <=> kid[p].at \in {"none", "read", "write", "exit"}
  BY DEF IInv, Children
<1>1. CASE ChildReads(p)
  <2>1. taken' \in [Chain -> Nat]
    <3>1. PICK n \in 1..InPipe(p) : taken' = [taken EXCEPT ![p] = @ + n]
      BY <1>1 DEF ChildReads
    <3>2. InPipe(p) \in Int
      BY RoomIs DEF IInv
    <3>3. n \in Nat
      BY <3>2
    <3> QED BY <1>t, <3>1, <3>3
  <2>2. /\ kid[p].at = "read"
        /\ UNCHANGED <<created, child_stdin, child_stdout, written, made, drained>>
    BY <1>1 DEF ChildReads
  <2>3. CASE \E m \in {kid[p].mute, TRUE} : Decides(p, [kid[p] EXCEPT !.mute = m])
    <3>1. PICK m \in {kid[p].mute, TRUE} : Decides(p, [kid[p] EXCEPT !.mute = m])
      BY <2>3
    <3> DEFINE k == [kid[p] EXCEPT !.mute = m]
    <3>2. /\ k \in Programs /\ k.status = kid[p].status /\ k.mute = m
          /\ kid[p].mute => m
      BY <1>t, <3>1 DEF Programs
    <3> HIDE DEF k
    <3>3. Decides(p, k)
      BY <3>1 DEF k
    <3> QED BY <1>t, <1>k, <2>1, <2>2, <3>2, <3>3, DecidesGives DEF Worked, Lives, IInv
  <2>4. CASE kid' = [kid EXCEPT ![p].at = "exit"]
    <3>1. /\ kid' \in [Chain -> Programs] /\ kid'[p].at = "exit" /\ kid'[p].status = kid[p].status
          /\ kid'[p].mute = kid[p].mute /\ \A q \in Chain : q # p => kid'[q] = kid[q]
      BY <1>t, <2>4 DEF Programs
    <3> QED BY <1>t, <1>k, <2>1, <2>2, <3>1 DEF Worked, Lives
  <2>5. Decides(p, kid[p]) => \E m \in {kid[p].mute, TRUE} : Decides(p, [kid[p] EXCEPT !.mute = m])
    <3>1. [kid[p] EXCEPT !.mute = kid[p].mute] = kid[p]
      BY <1>t DEF Programs
    <3> QED BY <3>1
  <2> QED BY <1>1, <2>3, <2>4, <2>5 DEF ChildReads
<1>2. CASE ChildSeesEnd(p)
  <2> DEFINE k == [kid[p] EXCEPT !.ended = TRUE]
  <2>1. k \in Programs /\ k.status = kid[p].status /\ k.mute = kid[p].mute
    BY <1>t DEF Programs
  <2>2. /\ kid[p].at = "read" /\ Decides(p, k)
        /\ UNCHANGED <<created, child_stdin, child_stdout, written, taken, made, drained>>
    BY <1>2 DEF ChildSeesEnd
  <2> HIDE DEF k
  <2> QED BY <1>t, <1>k, <2>1, <2>2, DecidesGives DEF Worked, Lives, IInv
<1>3. CASE ChildWrites(p)
  <2>1. /\ kid[p].at = "write" /\ ~kid[p].mute
        /\ UNCHANGED <<created, child_stdin, child_stdout, written, taken, drained>>
    BY <1>3, <1>k DEF ChildWrites
  <2>2. CASE child_stdout[p] = "closed"
    <3>1. PICK s \in {"sigpipe", "bad"} : kid' = [kid EXCEPT ![p].at = "dead", ![p].status = s]
      BY <1>3, <2>2 DEF ChildWrites
    <3>2. made' = made
      BY <1>3, <2>2 DEF ChildWrites
    <3>3. /\ kid' \in [Chain -> Programs] /\ kid'[p].at = "dead" /\ kid'[p].status = s
          /\ kid'[p].mute = kid[p].mute /\ \A q \in Chain : q # p => kid'[q] = kid[q]
      BY <1>t, <3>1 DEF Programs
    <3> QED BY <1>t, <2>1, <2>2, <3>2, <3>3 DEF Worked, Lives
  <2>3. CASE child_stdout[p] # "closed"
    <3>1. PICK n \in 1..kid[p].todo :
            /\ made' = [made EXCEPT ![p] = @ + n]
            /\ kid' = [kid EXCEPT ![p].todo = @ - n,
                         ![p].at = IF n < kid[p].todo THEN "write"
                                   ELSE IF kid[p].ended THEN "exit" ELSE "read"]
      BY <1>3, <2>3 DEF ChildWrites
    <3> DEFINE place == IF n < kid[p].todo THEN "write" ELSE IF kid[p].ended THEN "exit" ELSE "read"
    <3>2. n \in Nat /\ kid[p].todo - n \in Nat
      <4>1. kid[p].todo \in Nat
        BY <1>t DEF Programs
      <4> QED BY <4>1
    <3>3. place \in {"read", "write", "exit"}
      OBVIOUS
    <3>4. kid' = [kid EXCEPT ![p].todo = @ - n, ![p].at = place]
      BY <3>1
    <3> HIDE DEF place
    <3>5. /\ kid' \in [Chain -> Programs] /\ kid'[p].at = place /\ kid'[p].status = kid[p].status
          /\ kid'[p].mute = kid[p].mute /\ \A q \in Chain : q # p => kid'[q] = kid[q]
      BY <1>t, <3>2, <3>3, <3>4 DEF Programs
    <3>6. /\ made' \in [Chain -> Nat] /\ made[p] <= made'[p]
          /\ \A q \in Chain : q # p => made'[q] = made[q]
      BY <1>t, <3>1, <3>2
    <3> QED BY <1>t, <1>k, <2>1, <2>3, <3>3, <3>5, <3>6 DEF Worked, Lives
  <2> QED BY <2>2, <2>3
<1>4. CASE ChildExits(p) \/ ChildDies(p)
  <2>1. Lives(p) /\ UNCHANGED <<created, child_stdin, child_stdout, written, taken, made, drained>>
    BY <1>4 DEF ChildExits, ChildDies, Lives
  <2>2. PICK s \in {"ok", "bad"} : kid' = [kid EXCEPT ![p].at = "dead", ![p].status = s]
    BY <1>4 DEF ChildExits, ChildDies
  <2>3. /\ kid' \in [Chain -> Programs] /\ kid'[p].at = "dead" /\ kid'[p].status = s
        /\ kid'[p].mute = kid[p].mute /\ \A q \in Chain : q # p => kid'[q] = kid[q]
    BY <1>t, <2>2 DEF Programs
  <2> QED BY <1>t, <1>k, <2>1, <2>3 DEF Worked
<1> QED BY <1>1, <1>2, <1>3, <1>4 DEF ChildWorks

LEMMA WorkedKeeps ==
  ASSUME IInv, NEW p \in Chain, Worked(p), UNCHANGED <<frames, outer>>
  PROVE  IInv'
<1>0. /\ UNCHANGED <<at, total, block, left, answer>>
      /\ UNCHANGED <<direction, state, call, source, handed, faulted>>
      /\ UNCHANGED <<created, child_stdin, child_stdout, written, drained>>
  BY DEF frames, outer, Worked
<1>1. Kinds'
  BY <1>0 DEF IInv, Kinds, Reading, Worked
<1>2. /\ made[p] \in Nat /\ drained[p] \in Nat /\ made'[p] \in Nat
      /\ kid[p].at \in {"read", "write", "exit"}
  BY Values DEF IInv, Worked, Lives
<1>3. Children'
  <2> SUFFICES ASSUME NEW q \in Chain
               PROVE  /\ drained[q] <= made'[q]
                      /\ kid'[q].mute => kid'[q].at # "write"
                      /\ kid'[q].at = "none" <=> q \notin created
                      /\ kid'[q].status = "none" <=> kid'[q].at \in {"none", "read", "write", "exit"}
                      /\ kid'[q].status = "sigpipe" => child_stdout[q] = "closed"
                      /\ state[q] \in {"open", "closed"} <=> q \in created
                      /\ state[q] = "closed" => kid'[q].at = "reaped"
    BY <1>0 DEF Children
  <2>1. CASE q = p
    <3>1. drained[p] <= made[p] /\ p \in created /\ state[p] # "closed"
          /\ (state[p] \in {"open", "closed"} <=> p \in created)
      BY <1>2 DEF IInv, Children
    <3>2. drained[p] <= made'[p]
      BY <1>2, <3>1 DEF Worked
    <3> QED BY <2>1, <3>1, <3>2 DEF Worked
  <2>2. CASE q # p
    BY <2>2 DEF IInv, Children, Worked
  <2> QED BY <2>1, <2>2
<1>4. \A q \in Chain : /\ Silent(q) => Silent(q)'
                       /\ Silent(q) /\ kid[q].status # "sigpipe" => kid'[q].status # "sigpipe"
                       /\ Over(q) => Over(q)'
  <2> SUFFICES ASSUME NEW q \in Chain
               PROVE  /\ Silent(q) => Silent(q)'
                      /\ Silent(q) /\ kid[q].status # "sigpipe" => kid'[q].status # "sigpipe"
                      /\ Over(q) => Over(q)'
    OBVIOUS
  <2>1. CASE q = p
    <3>1. kid[p].mute => kid[p].at # "write"
      BY DEF IInv, Children
    <3> QED BY <1>0, <1>2, <2>1, <3>1 DEF Silent, Over, OutputEnded, Lives, Worked
  <2>2. CASE q # p
    BY <1>0, <2>2 DEF Silent, Over, OutputEnded, Lives, Worked
  <2> QED BY <2>1, <2>2
<1>5. Opened'
  BY <1>0 DEF IInv, Opened, Reading, Writing
<1>6. Closed'
  <2>1. state[p] # "closed"
    BY <1>2 DEF IInv, Children
  <2>2. \A q \in Chain : state[q] = "closed" => kid'[q] = kid[q] /\ made'[q] = made[q]
    BY <2>1 DEF Worked
  <2> QED BY <1>0, <2>2 DEF IInv, Closed, Behind, Reading, Writing
<1>7. Reader'
  <2> SUFFICES ASSUME Reading PROVE ReadStack' /\ ReadEnd'
                 /\ \A q \in Chain : ReadPlace(q)' /\ ReadOver(q)' /\ ReadFlow(q)'
    BY <1>0 DEF Reader, Reading
  <2>1. ReadStack'
    BY <1>0 DEF IInv, Reader, ReadStack
  <2>2. ReadEnd'
    <3>1. ReadEnd /\ Depth \in Chain
      BY ChainNat DEF IInv, Reader
    <3>2. Over(Depth) => Depth # p
      BY <1>2 DEF Over
    <3> QED BY <1>0, <1>4, <3>1, <3>2 DEF ReadEnd, Worked
  <2>3. ASSUME NEW q \in Chain PROVE ReadPlace(q)' /\ ReadOver(q)' /\ ReadFlow(q)'
    <3>1. ReadPlace(q) /\ ReadOver(q) /\ ReadFlow(q)
      BY DEF IInv, Reader
    <3>2. ReadPlace(q)'
      BY <1>0, <1>4, <3>1 DEF ReadPlace
    <3>3. ReadOver(q)'
      BY <1>0, <1>4, <3>1 DEF ReadOver
    <3>4. ReadFlow(q)'
      BY <1>0, <3>1 DEF ReadFlow, Onward
    <3> QED BY <3>2, <3>3, <3>4
  <2> QED BY <2>1, <2>2, <2>3
<1>8. Writer'
  <2> SUFFICES ASSUME Writing PROVE WriteStack' /\ Traced' /\ WriteFlow'
                 /\ \A q \in Chain : WritePlace(q)'
    BY <1>0 DEF Writer, Writing
  <2>1. WriteStack' /\ Traced'
    BY <1>0 DEF IInv, Writer, WriteStack, Traced
  <2>2. WriteFlow'
    BY <1>0 DEF IInv, Writer, WriteFlow, Onward, Underway, Fine
  <2>3. \A q \in Chain : WritePlace(q)'
    BY <1>0, <1>4 DEF IInv, Writer, WritePlace, Fine, Closing
  <2> QED BY <2>1, <2>2, <2>3
<1> QED BY <1>1, <1>3, <1>5, <1>6, <1>7, <1>8 DEF IInv

LEMMA ChildKeeps == ASSUME IInv, NEW p \in Chain, Works(p) \/ Dies(p) PROVE IInv'
BY ProgramWorks, WorkedKeeps DEF Works, Dies

-----------------------------------------------------------------------------
(* The calls, opening and closing.                                         *)

LEMMA Directions == ASSUME IInv PROVE (Reading \/ Writing) /\ ~(Reading /\ Writing)
BY DEF IInv, Kinds, Reading, Writing

(* The call that is made.                                                  *)
LEMMA CallIs ==
  ASSUME Kinds
  PROVE  /\ call.op \in {"open", "none", "read", "write", "close", "closed"}
         /\ call.reply \in {"", "ok", "data", "eof", "warn", "fatal"}
         /\ call.now \in Nat /\ call.now <= Depth + 1 /\ call.now \in 0..(Depth + 1)
<1>1. call \in Calls
  BY DEF Kinds
<1>2. /\ call.op \in {"open", "none", "read", "write", "close", "closed"}
      /\ call.reply \in {"", "ok", "data", "eof", "warn", "fatal"}
      /\ call.now \in 0..(Depth + 1)
  BY <1>1 DEF Calls
<1>3. Depth \in Nat
  BY ChainNat
<1>4. \A n \in 0..(Depth + 1) : n \in Nat /\ n <= Depth + 1
  BY <1>3
<1> QED BY <1>2, <1>4, Zenon

(* Between two calls, and between two filters of a close, all are idle.    *)
LEMMA IdleOutside ==
  ASSUME IInv, call.op = "close" => call.now \notin Chain \/ at[call.now] = "idle",
         call.op \notin {"read", "write"}
  PROVE  \A q \in Chain : at[q] = "idle"
<1> SUFFICES ASSUME NEW q \in Chain, at[q] # "idle" PROVE FALSE
  OBVIOUS
<1>1. CASE Reading
  BY <1>1 DEF IInv, Reader, ReadStack
<1>2. CASE Writing
  <2> DEFINE m == call.now
  <2>1. WriteStack
    BY <1>2 DEF IInv, Writer
  <2>2. call.op = "close" /\ m <= q
    BY <2>1 DEF WriteStack
  <2>3. m > 0
    BY <1>2, <2>2 DEF IInv, Closed
  <2>4. m \in Nat
    BY CallIs DEF IInv
  <2>5. \A r \in Chain : r < q /\ m <= r => at[r] = "passing"
    BY <2>1, <2>2 DEF WriteStack
  <2>6. m \in Chain => at[m] = "idle"
    BY <2>2
  <2> HIDE DEF m
  <2>7. m \in Chain
    <3>1. q \in Nat /\ q <= Depth /\ Depth \in Nat
      BY ChainNat
    <3> QED BY <2>2, <2>3, <2>4, <3>1 DEF Chain
  <2>8. m # q
    BY <2>6, <2>7
  <2>9. m < q /\ m <= m
    <3>1. q \in Nat
      BY ChainNat
    <3> QED BY <2>2, <2>4, <2>8, <3>1
  <2> QED BY <2>5, <2>6, <2>7, <2>9
<1> QED BY <1>1, <1>2, Directions

LEMMA AskBlockKeeps == ASSUME IInv, AskBlock PROVE IInv'
<1>0. /\ Reading /\ call.op = "none" /\ call.reply \in {"ok", "data"}
      /\ UNCHANGED <<created, kid, child_stdout, written, taken, made, drained>>
      /\ UNCHANGED <<at, total, block, left, answer, direction, state, source, handed, faulted>>
  BY DEF AskBlock, childVars, frames
<1>1. call' \in Calls /\ call'.op = "read" /\ call'.reply = call.reply /\ call'.now = call.now
  <2>1. call \in Calls /\ call' = [call EXCEPT !.op = "read"]
    BY DEF IInv, Kinds, AskBlock
  <2> QED BY <2>1 DEF Calls
<1>2. \A q \in Chain : at[q] = "idle"
  BY <1>0, IdleOutside
<1>3. Kinds'
  BY <1>0, <1>1 DEF IInv, Kinds, Reading
<1>4. Children'
  BY <1>0, StdoutKeeps
<1>5. Opened' /\ Closed' /\ Writer'
  BY <1>0, <1>1 DEF IInv, Opened, Closed, Writer, Reading, Writing
<1>6. ReadStack' /\ ReadEnd'
  BY <1>0, <1>1, <1>2 DEF ReadStack, ReadEnd
<1>7. ASSUME NEW q \in Chain PROVE ReadPlace(q)' /\ ReadOver(q)' /\ ReadFlow(q)'
  <2>1. ReadPlace(q) /\ ReadOver(q) /\ ReadFlow(q) /\ Onward(q)' = Onward(q) /\ at[q] = "idle"
    BY <1>0, <1>2 DEF IInv, Reader, Onward
  <2>2. (Over(q) => Over(q)') /\ ReadFlow(q)'
    BY <1>0, <2>1 DEF Over, ReadFlow
  <2> QED BY <1>0, <1>1, <2>1, <2>2 DEF ReadPlace, ReadOver
<1> QED BY <1>0, <1>3, <1>4, <1>5, <1>6, <1>7 DEF IInv, Reader

LEMMA GetBlockKeeps == ASSUME IInv, GetBlock PROVE IInv'
<1>0. /\ call.op = "read" /\ at[Depth] = "idle" /\ ~Asks(Depth)
      /\ UNCHANGED <<created, kid, child_stdout, written, taken, made, drained>>
      /\ UNCHANGED <<at, total, left, answer, direction, state, source, faulted>>
  BY DEF GetBlock, childVars
<1>a. handed' = handed + block[Depth] /\ block' = [block EXCEPT ![Depth] = 0]
  BY DEF GetBlock
<1>1. Reading /\ Depth \in Chain /\ Depth \in 0..Depth
  BY <1>0, Directions, ChainNat DEF IInv, Opened
<1>t. /\ block[Depth] \in Nat /\ handed \in Nat /\ total[Depth] \in Nat
      /\ block \in [0..Depth -> Nat]
  BY <1>1 DEF IInv, Kinds
<1>2. \A q \in Chain : at[q] = "idle"
  <2> SUFFICES ASSUME NEW q \in Chain, at[q] # "idle" PROVE FALSE
    OBVIOUS
  <2>1. \A r \in Chain : q < r => at[r] = "upstream"
    BY <1>0, <1>1 DEF IInv, Reader, ReadStack
  <2>2. q # Depth
    BY <1>0
  <2>3. q < Depth
    <3>1. q \in Nat /\ Depth \in Nat /\ q <= Depth
      BY ChainNat
    <3> QED BY <2>2, <3>1
  <2> QED BY <1>0, <1>1, <2>1, <2>3
<1>3. /\ call' \in Calls /\ call'.op = "none"
      /\ call'.reply = "eof" => block[Depth] = 0 /\ answer[Depth] = "eof"
  <2>1. PICK r \in {"", "ok", "data", "eof", "fatal"} :
          /\ call' = [call EXCEPT !.op = "none", !.reply = r]
          /\ r = "eof" => ~(block[Depth] > 0) /\ answer[Depth] = "eof"
    <3>1. answer[Depth] \in {"", "ok", "eof", "fatal"}
      BY <1>1 DEF IInv, Kinds
    <3>2. Replies(IF block[Depth] > 0 THEN "data" ELSE answer[Depth])
      BY DEF GetBlock
    <3>3. CASE block[Depth] > 0
      <4>1. Replies("data")
        BY <3>2, <3>3, Zenon
      <4> QED BY <4>1 DEF Replies
    <3>4. CASE ~(block[Depth] > 0)
      <4>1. Replies(answer[Depth])
        BY <3>2, <3>4, Zenon
      <4>2. call' = [call EXCEPT !.op = "none", !.reply = answer[Depth]]
        BY <4>1 DEF Replies
      <4> QED BY <3>1, <3>4, <4>2
    <3> QED BY <3>3, <3>4
  <2>2. r = "eof" => block[Depth] = 0
    BY <2>1, <1>t
  <2>3. call \in Calls
    BY DEF IInv, Kinds
  <2>4. call' \in Calls /\ call'.op = "none" /\ call'.reply = r
    BY <2>1, <2>3 DEF Calls
  <2> QED BY <2>1, <2>2, <2>4
<1>4. /\ block' \in [0..Depth -> Nat] /\ block'[Depth] = 0 /\ handed' \in Nat
      /\ \A q \in Chain : q # Depth => block'[q] = block[q]
  <2>1. \A q \in Chain : q \in 0..Depth
    BY ChainNat
  <2>2. handed' \in Nat
    BY <1>a, <1>t
  <2> QED BY <1>a, <1>t, <1>1, <2>1, <2>2
<1>5. Kinds'
  BY <1>0, <1>1, <1>3, <1>4 DEF IInv, Kinds, Reading
<1>6. Children'
  BY <1>0, StdoutKeeps
<1>7. Opened' /\ Closed' /\ Writer'
  BY <1>0, <1>1, <1>3 DEF IInv, Opened, Closed, Writer, Reading, Writing
<1>8. ReadPlace(Depth) /\ ReadOver(Depth) /\ ReadFlow(Depth) /\ total[Depth] = 0
  BY <1>0, <1>1 DEF IInv, Reader, ReadPlace
<1>o. Onward(Depth) = handed /\ Onward(Depth)' = handed'
  <2>1. ~(Depth < Depth)
    BY ChainNat
  <2> QED BY <2>1 DEF Onward
<1>f. answer[Depth] = "fatal" \/ drained[Depth] = handed + block[Depth]
  <2>1. answer[Depth] = "fatal" \/ drained[Depth] = Onward(Depth) + block[Depth] + 0
    BY <1>8 DEF ReadFlow
  <2>2. Onward(Depth) + block[Depth] + 0 = handed + block[Depth]
    BY <1>o, <1>t
  <2> QED BY <2>1, <2>2
<1>9. ReadStack' /\ ReadEnd'
  <2>1. call'.reply = "eof" => handed' = made[Depth] /\ Over(Depth)
    <3> SUFFICES ASSUME call'.reply = "eof" PROVE handed' = made[Depth] /\ Over(Depth)
      OBVIOUS
    <3>1. answer[Depth] = "eof"
      BY <1>3
    <3>2. Over(Depth) /\ drained[Depth] = made[Depth]
      BY <1>0, <1>8, <3>1 DEF ReadOver, Over
    <3>3. drained[Depth] = handed'
      BY <1>f, <1>a, <3>1
    <3> QED BY <3>2, <3>3
  <2>2. Over(Depth) => Over(Depth)'
    BY <1>0 DEF Over
  <2> QED BY <1>0, <1>2, <1>3, <2>1, <2>2 DEF ReadStack, ReadEnd
<1>10. ASSUME NEW q \in Chain PROVE ReadPlace(q)' /\ ReadOver(q)' /\ ReadFlow(q)'
  <2>1. ReadPlace(q) /\ ReadOver(q) /\ ReadFlow(q) /\ at[q] = "idle"
    BY <1>1, <1>2 DEF IInv, Reader
  <2>2. (Over(q) => Over(q)')
    BY <1>0 DEF Over
  <2>3. ReadPlace(q)' /\ ReadOver(q)'
    BY <1>0, <1>3, <2>1, <2>2 DEF ReadPlace, ReadOver
  <2>4. CASE q = Depth
    <3>1. Onward(Depth)' + block'[Depth] + total[Depth] = handed + block[Depth]
      <4>1. handed' + 0 + 0 = handed + block[Depth]
        BY <1>a, <1>t
      <4> QED BY <4>1, <1>o, <1>4, <1>8
    <3>2. ReadFlow(Depth)'
      BY <1>0, <1>f, <3>1 DEF ReadFlow
    <3> QED BY <2>3, <2>4, <3>2
  <2>5. CASE q # Depth
    <3>1. q < Depth
      <4>1. q \in Nat /\ Depth \in Nat /\ q <= Depth
        BY ChainNat
      <4> QED BY <2>5, <4>1
    <3>2. ReadFlow(q)'
      BY <1>0, <1>4, <2>1, <2>5, <3>1 DEF ReadFlow, Onward
    <3> QED BY <2>3, <3>2
  <2> QED BY <2>4, <2>5
<1> QED BY <1>0, <1>1, <1>5, <1>6, <1>7, <1>9, <1>10 DEF IInv, Reader

LEMMA IdleAre ==
  ASSUME IInv, \A q \in Chain : at[q] = "idle", UNCHANGED at
  PROVE  at' \in [Chain -> {"idle"}]
<1>1. at \in [Chain -> IF Reading THEN ReadPlaces ELSE WritePlaces]
  BY DEF IInv, Kinds
<1> QED BY <1>1

(* A step to where all filters are idle that starts a close, or goes on    *)
(* with one.                                                               *)
LEMMA QuietKeeps ==
  ASSUME IInv, at' \in [Chain -> {"idle"}],
         \A q \in Chain : at[q] = "idle" \/ (at[q] = "wait" /\ Closing(q)),
         call' \in Calls, call'.op \in {"close", "closed"},
         call'.reply # "eof", Writing => (Fine' => Fine), kid' \in [Chain -> Programs],
         state' \in [Chain -> {"new", "open", "fatal", "closed"}], Children', Closed',
         UNCHANGED <<created, child_stdout, written, taken, made, drained>>,
         UNCHANGED <<total, block, left, answer, direction, source, handed, faulted>>
  PROVE  IInv'
<1>0. \A q \in Chain : at'[q] = "idle"
  OBVIOUS
<1>1. Kinds'
  <2>1. at' \in [Chain -> IF Reading' THEN ReadPlaces ELSE WritePlaces]
    <3>1. {"idle"} \subseteq (IF Reading' THEN ReadPlaces ELSE WritePlaces)
      BY DEF ReadPlaces, WritePlaces
    <3> QED BY <3>1
  <2> QED BY <2>1 DEF IInv, Kinds
<1>2. Opened'
  BY DEF Opened
<1>3. Reader'
  <2> SUFFICES ASSUME Reading PROVE ReadStack' /\ ReadEnd'
                 /\ \A q \in Chain : ReadPlace(q)' /\ ReadOver(q)' /\ ReadFlow(q)'
    BY DEF Reader, Reading
  <2>1. ReadStack' /\ ReadEnd'
    BY <1>0 DEF ReadStack, ReadEnd
  <2>2. ASSUME NEW q \in Chain PROVE ReadPlace(q)' /\ ReadOver(q)' /\ ReadFlow(q)'
    <3>1. ReadFlow(q)
      BY DEF IInv, Reader
    <3>2. ReadFlow(q)'
      BY <3>1 DEF ReadFlow, Onward
    <3> QED BY <1>0, <3>2 DEF ReadPlace, ReadOver
  <2> QED BY <2>1, <2>2
<1>4. Writer'
  <2> SUFFICES ASSUME Writing PROVE WriteStack' /\ Traced' /\ WriteFlow'
                 /\ \A q \in Chain : WritePlace(q)'
    BY DEF Writer, Writing
  <2>1. WriteStack' /\ Traced'
    BY <1>0 DEF IInv, Writer, WriteStack, Traced
  <2>2. WriteFlow'
    <3>1. Fine' => WriteFlow /\ Fine
      BY DEF IInv, Writer
    <3> QED BY <1>0, <3>1 DEF WriteFlow, Onward, Underway
  <2>3. \A q \in Chain : WritePlace(q)'
    BY <1>0 DEF IInv, Writer, WritePlace
  <2> QED BY <2>1, <2>2, <2>3
<1> QED BY <1>1, <1>2, <1>3, <1>4 DEF IInv

LEMMA AskCloseKeeps == ASSUME IInv, AskClose PROVE IInv'
<1>0. /\ call.op = "none"
      /\ UNCHANGED <<created, kid, child_stdout, written, taken, made, drained>>
      /\ UNCHANGED <<at, total, block, left, answer, direction, state, source, handed, faulted>>
  BY DEF AskClose, childVars, frames
<1>1. \A q \in Chain : at[q] = "idle"
  BY <1>0, IdleOutside
<1>2. PICK m \in 0..(Depth + 1) :
        /\ call' = [op |-> "close", reply |-> "ok", now |-> m]
        /\ Reading => m <= Depth /\ \A q \in Chain : ~(m < q)
        /\ Writing => m > 0 /\ \A q \in Chain : ~(q < m)
  <2> DEFINE m == IF Reading THEN Depth ELSE 1
  <2>1. call' = [op |-> "close", reply |-> "ok", now |-> m]
    BY DEF AskClose
  <2>2. CASE Reading
    <3>1. m = Depth /\ ~Writing
      BY <2>2, Directions
    <3>2. Depth \in 0..(Depth + 1) /\ \A q \in Chain : ~(Depth < q)
      BY ChainNat
    <3> QED BY <2>1, <2>2, <3>1, <3>2
  <2>3. CASE ~Reading
    <3>1. m = 1
      BY <2>3
    <3>2. 1 \in 0..(Depth + 1) /\ 1 > 0 /\ \A q \in Chain : ~(q < 1)
      BY ChainNat
    <3> QED BY <2>1, <2>3, <3>1, <3>2
  <2> QED BY <2>2, <2>3
<1>3. /\ call' \in Calls /\ call'.op = "close" /\ call'.reply = "ok" /\ call'.now = m
  BY <1>2 DEF Calls
<1>4. Children'
  BY <1>0, StdoutKeeps
<1>5. Writing => (Fine' => Fine)
  BY <1>0 DEF IInv, Writer, Traced, Fine
<1>6. \A q \in Chain : state[q] = "open"
  BY <1>0 DEF IInv, Opened
<1>7. Closed'
  <2>1. \A q \in Chain : ~Behind(q)'
    <3>1. CASE Reading
      <4>1. \A q \in Chain : ~(m < q)
        BY <1>2, <3>1
      <4> QED BY <1>0, <1>3, <3>1, <4>1 DEF Behind, Reading
    <3>2. CASE Writing
      <4>1. (\A q \in Chain : ~(q < m)) /\ ~Reading
        BY <1>2, <3>2, Directions
      <4> QED BY <1>0, <1>3, <4>1 DEF Behind, Reading
    <3> QED BY <3>1, <3>2, Directions
  <2>2. (Reading => m <= Depth) /\ (Writing => m > 0)
    BY <1>2
  <2> QED BY <1>0, <1>1, <1>3, <1>6, <2>1, <2>2 DEF Closed, Reading, Writing
<1>8. /\ state' \in [Chain -> {"new", "open", "fatal", "closed"}] /\ kid' \in [Chain -> Programs]
      /\ at' \in [Chain -> {"idle"}]
  <2>1. at' \in [Chain -> {"idle"}]
    BY <1>0, <1>1, IdleAre
  <2> QED BY <1>0, <2>1 DEF IInv, Kinds
<1> QED BY <1>0, <1>1, <1>3, <1>4, <1>5, <1>7, <1>8, QuietKeeps

LEMMA CloseReturnsKeeps == ASSUME IInv, CloseReturns PROVE IInv'
<1>0. /\ call.op = "close" /\ call.now \notin Chain
      /\ UNCHANGED <<created, kid, child_stdout, written, taken, made, drained>>
      /\ UNCHANGED <<at, total, block, left, answer, direction, state, source, handed, faulted>>
  BY DEF CloseReturns, childVars, frames
<1>1. \A q \in Chain : at[q] = "idle"
  BY <1>0, IdleOutside
<1>2. call' \in Calls /\ call'.op = "closed" /\ call'.reply = call.reply /\ call'.now = call.now
  <2>1. call \in Calls /\ call' = [call EXCEPT !.op = "closed"]
    BY DEF IInv, Kinds, CloseReturns
  <2> QED BY <2>1 DEF Calls
<1>3. Children'
  BY <1>0, StdoutKeeps
<1>4. Closed' /\ call.reply # "eof"
  BY <1>0, <1>2 DEF IInv, Closed, Behind, Reading, Writing
<1>5. Fine' => Fine
  BY <1>0, <1>2 DEF Fine
<1>6. /\ state' \in [Chain -> {"new", "open", "fatal", "closed"}] /\ kid' \in [Chain -> Programs]
      /\ at' \in [Chain -> {"idle"}]
  <2>1. at' \in [Chain -> {"idle"}]
    BY <1>0, <1>1, IdleAre
  <2> QED BY <1>0, <2>1 DEF IInv, Kinds
<1> QED BY <1>0, <1>1, <1>2, <1>3, <1>4, <1>5, <1>6, QuietKeeps

(* The next filter of a close, and the filters behind it.                  *)
LEMMA CloseNextIs ==
  ASSUME IInv, NEW p \in Chain
  PROVE  /\ CloseNext(p) \in 0..(Depth + 1)
         /\ Reading => CloseNext(p) <= Depth
         /\ Writing => CloseNext(p) > 0
<1>1. p \in Nat /\ p > 0 /\ p <= Depth /\ Depth \in Nat
  BY ChainNat
<1>2. CASE Reading
  <2>1. CloseNext(p) = p - 1 /\ ~Writing
    BY <1>2, Directions DEF CloseNext
  <2>2. p - 1 \in 0..(Depth + 1) /\ p - 1 <= Depth
    BY <1>1
  <2> QED BY <2>1, <2>2
<1>3. CASE ~Reading
  <2>1. CloseNext(p) = p + 1
    BY <1>3 DEF CloseNext
  <2>2. p + 1 \in 0..(Depth + 1) /\ p + 1 > 0
    BY <1>1
  <2> QED BY <1>3, <2>1, <2>2
<1> QED BY <1>2, <1>3

LEMMA BehindNext ==
  ASSUME IInv, NEW p \in Chain, Closing(p), direction' = direction, call'.now = CloseNext(p),
         NEW q \in Chain, Behind(q)'
  PROVE  q = p \/ Behind(q)
<1>1. p \in Nat /\ q \in Nat
  BY ChainNat
<1>2. call.now = p
  BY DEF Closing
<1>3. CASE Reading
  <2>1. p - 1 < q
    BY <1>3 DEF Behind, CloseNext, Reading
  <2>2. q = p \/ p < q
    BY <1>1, <2>1
  <2> QED BY <1>2, <1>3, <2>2 DEF Behind
<1>4. CASE ~Reading
  <2>1. q < p + 1
    BY <1>4 DEF Behind, CloseNext, Reading
  <2>2. q = p \/ q < p
    BY <1>1, <2>1
  <2> QED BY <1>2, <1>4, <2>2 DEF Behind
<1> QED BY <1>3, <1>4

(* A filter that is not open is passed over.                               *)
LEMMA PassesOver ==
  ASSUME IInv, BeginClose, NEW p \in Chain, Closing(p), state[p] \in {"new", "fatal"}
  PROVE  IInv'
<1>0. /\ call.op = "close" /\ call.now = p
      /\ UNCHANGED <<created, kid, child_stdout, written, taken, made, drained>>
      /\ UNCHANGED <<at, total, block, left, answer, direction, state, source, handed, faulted>>
  BY DEF BeginClose, Closing, childVars
<1>1. \A q \in Chain : at[q] = "idle"
  <2>1. at[p] = "idle"
    BY <1>0 DEF IInv, Closed
  <2> QED BY <1>0, <2>1, IdleOutside
<1>2. /\ call' \in Calls /\ call'.op = "close" /\ call'.reply = call.reply
      /\ call'.now = CloseNext(p)
  <2>1. call \in Calls /\ call' = [call EXCEPT !.now = CloseNext(p)]
    BY <1>0 DEF IInv, Kinds, BeginClose
  <2>2. CloseNext(p) \in 0..(Depth + 1)
    BY CloseNextIs
  <2> QED BY <1>0, <2>1, <2>2 DEF Calls
<1>3. Children'
  BY <1>0, StdoutKeeps
<1>4. Closed' /\ call.reply # "eof"
  <2>1. (Reading => CloseNext(p) <= Depth) /\ (Writing => CloseNext(p) > 0)
    BY CloseNextIs
  <2>2. \A q \in Chain : Behind(q)' => state[q] # "open"
    BY <1>0, <1>2, BehindNext DEF IInv, Closed
  <2>3. call.reply \in {"warn", "fatal"}
    BY <1>0 DEF IInv, Closed
  <2> QED BY <1>0, <1>1, <1>2, <2>1, <2>2, <2>3 DEF Closed, Reading, Writing
<1>5. Fine' => Fine
  BY <1>0, <1>2 DEF Fine
<1>6. /\ state' \in [Chain -> {"new", "open", "fatal", "closed"}] /\ kid' \in [Chain -> Programs]
      /\ at' \in [Chain -> {"idle"}]
  <2>1. at' \in [Chain -> {"idle"}]
    BY <1>0, <1>1, IdleAre
  <2> QED BY <1>0, <2>1 DEF IInv, Kinds
<1> QED BY <1>0, <1>1, <1>2, <1>3, <1>4, <1>5, <1>6, QuietKeeps

(* A child that is stopped ends the close of its filter.                   *)
LEMMA StopInCloseKeeps == ASSUME IInv, NEW p \in Chain, StopInClose(p) PROVE IInv'
<1>0. /\ at[p] = "wait" /\ Closing(p) /\ Reaps(p) /\ Goes(p, "idle")
      /\ call.op = "close" /\ call.now = p
      /\ state' = [state EXCEPT ![p] = "closed"]
      /\ UNCHANGED <<total, block, left, answer, direction, source, handed, faulted>>
  BY DEF StopInClose, Closing
<1>1. /\ kid' \in [Chain -> Programs] /\ kid'[p].at = "reaped" /\ kid'[p].status = kid[p].status
      /\ \A q \in Chain : q # p => kid'[q] = kid[q]
      /\ UNCHANGED <<created, child_stdout, written, taken, made, drained>>
      /\ Children'
  BY <1>0, ReapsKeeps
<1>2. \A q \in Chain : q # p => at[q] = "idle"
  <2> SUFFICES ASSUME NEW q \in Chain, q # p, at[q] # "idle" PROVE FALSE
    OBVIOUS
  <2>1. CASE Reading
    BY <1>0, <2>1 DEF IInv, Reader, ReadStack
  <2>2. CASE Writing
    <3>1. p <= q /\ (p < q /\ p <= p => at[p] = "passing")
      BY <1>0, <2>2 DEF IInv, Writer, WriteStack
    <3>2. p < q /\ p <= p
      <4>1. p \in Nat /\ q \in Nat
        BY ChainNat
      <4> QED BY <3>1, <4>1
    <3> QED BY <1>0, <3>1, <3>2
  <2> QED BY <2>1, <2>2, Directions
<1>3. /\ at' \in [Chain -> {"idle"}]
      /\ \A q \in Chain : at[q] = "idle" \/ (at[q] = "wait" /\ Closing(q))
  BY <1>0, <1>2 DEF IInv, Kinds, Goes
<1>4. CloseAnswer(p) \in {"ok", "warn", "fatal"}
  BY <1>0 DEF CloseAnswer, IInv, Closed
<1>5. /\ call' \in Calls /\ call'.op = "close" /\ call'.reply = CloseAnswer(p)
      /\ call'.now = CloseNext(p)
  <2>1. call \in Calls /\ call' = [call EXCEPT !.reply = CloseAnswer(p), !.now = CloseNext(p)]
    BY DEF IInv, Kinds, StopInClose
  <2>2. CloseNext(p) \in 0..(Depth + 1)
    BY CloseNextIs
  <2> QED BY <1>0, <1>4, <2>1, <2>2 DEF Calls
<1>6. Writing => (Fine' => Fine)
  BY <1>0, <1>5 DEF Fine, CloseAnswer
<1>7. /\ state' \in [Chain -> {"new", "open", "fatal", "closed"}] /\ state'[p] = "closed"
      /\ \A q \in Chain : q # p => state'[q] = state[q]
  BY <1>0 DEF IInv, Kinds
<1>8. CloseAnswer(p) = "ok" =>
        /\ call.reply = "ok" /\ kid[p].status \in {"ok", "sigpipe"}
        /\ Writing => kid[p].status = "ok"
        /\ Writing /\ ~faulted.any => drained[p] = made[p]
  <2>1. Writing /\ ~faulted.any /\ call.reply = "ok" => drained[p] = made[p]
    BY <1>0 DEF IInv, Writer, WritePlace, Silent, Fine
  <2> QED BY <2>1, Directions DEF CloseAnswer, GoodEnd
<1>9. Closed'
  <2>1. (Reading => CloseNext(p) <= Depth) /\ (Writing => CloseNext(p) > 0)
    BY CloseNextIs
  <2>2. \A q \in Chain : Behind(q)' => state'[q] # "open"
    BY <1>0, <1>5, <1>7, BehindNext DEF IInv, Closed
  <2>3. ASSUME CloseAnswer(p) = "ok", NEW q \in Chain
        PROVE  /\ state'[q] \in {"open", "closed"}
               /\ state'[q] = "closed" =>
                    /\ kid'[q].status \in {"ok", "sigpipe"}
                    /\ Writing => kid'[q].status = "ok"
                    /\ Writing /\ ~faulted.any => drained[q] = made[q]
    <3>1. CASE q = p
      BY <1>1, <1>7, <1>8, <2>3, <3>1
    <3>2. CASE q # p
      BY <1>0, <1>1, <1>7, <1>8, <2>3, <3>2 DEF IInv, Closed
    <3> QED BY <3>1, <3>2
  <2>4. \A q \in Chain : at'[q] = "idle"
    BY <1>3
  <2> QED BY <1>0, <1>1, <1>4, <1>5, <2>1, <2>2, <2>3, <2>4 DEF Closed, Reading, Writing
<1> QED BY <1>0, <1>1, <1>3, <1>4, <1>5, <1>6, <1>7, <1>9, QuietKeeps

(* The program cannot be started.                                          *)
LEMMA LaunchFailsKeeps == ASSUME IInv, LaunchFails PROVE IInv'
<1> DEFINE p == call.now
<1>0. /\ call.op = "open" /\ p \in Chain
      /\ UNCHANGED <<created, kid, child_stdout, written, taken, made, drained>>
      /\ UNCHANGED <<at, total, block, left, answer, direction, source, handed, faulted>>
  BY DEF LaunchFails, IInv, Opened, childVars, frames
<1>1. \A q \in Chain : at[q] = "idle"
  BY <1>0, IdleOutside
<1>2. PICK m \in {1, Depth} :
        /\ call' = [op |-> "close", reply |-> "fatal", now |-> m]
        /\ Reading => m = Depth
        /\ Writing => m = 1
  BY Directions DEF LaunchFails
<1>3. /\ m \in 0..(Depth + 1) /\ m <= Depth /\ m > 0
      /\ Reading => \A q \in Chain : ~(m < q)
      /\ Writing => \A q \in Chain : ~(q < m)
  BY <1>2, ChainNat
<1>4. call' \in Calls /\ call'.op = "close" /\ call'.reply = "fatal" /\ call'.now = m
  BY <1>2, <1>3 DEF Calls
<1>5. state[p] = "new"
  <2>1. p \in Nat
    BY <1>0, ChainNat
  <2>2. ~(p < p) /\ ~(p > p)
    BY <2>1
  <2> QED BY <1>0, <2>2 DEF IInv, Opened
<1>6. /\ state' \in [Chain -> {"new", "open", "fatal", "closed"}] /\ state'[p] = "fatal"
      /\ \A q \in Chain : q # p => state'[q] = state[q]
  <2>1. state' = [state EXCEPT ![p] = "fatal"]
    BY DEF LaunchFails
  <2>2. state \in [Chain -> {"new", "open", "fatal", "closed"}]
    BY DEF IInv, Kinds
  <2> HIDE DEF p
  <2> QED BY <1>0, <2>1, <2>2
<1> HIDE DEF p
<1>7. Children'
  BY <1>0, <1>5, <1>6 DEF IInv, Children
<1>8. Closed'
  <2>1. \A q \in Chain : ~Behind(q)'
    BY <1>0, <1>3, <1>4, Directions DEF Behind, Reading, Writing
  <2> QED BY <1>0, <1>1, <1>3, <1>4, <2>1 DEF Closed
<1>9. ~Fine'
  BY <1>4 DEF Fine
<1>10. kid' \in [Chain -> Programs] /\ at' \in [Chain -> {"idle"}]
  <2>1. at' \in [Chain -> {"idle"}]
    BY <1>0, <1>1, IdleAre
  <2> QED BY <1>0, <2>1 DEF IInv, Kinds
<1> QED BY <1>0, <1>1, <1>4, <1>6, <1>7, <1>8, <1>9, <1>10, QuietKeeps

LEMMA LaunchKeeps == ASSUME IInv, Launch PROVE IInv'
<1> DEFINE p == call.now
<1>0. /\ call.op = "open" /\ p \in Chain /\ call.reply = ""
      /\ UNCHANGED <<at, total, block, left, answer, direction, source, handed, faulted>>
  BY DEF Launch, IInv, Opened, frames
<1>1. \A q \in Chain : at[q] = "idle"
  BY <1>0, IdleOutside
<1>2. Create(p) /\ OpenNext(p) /\ state' = [state EXCEPT ![p] = "open"]
  BY DEF Launch
<1>3. /\ \A q \in Chain : (IF Reading THEN q < p ELSE q > p) =>
                             state[q] = "open" /\ child_stdout[q] = "open"
      /\ \A q \in Chain : ~(IF Reading THEN q < p ELSE q > p) => state[q] = "new"
  BY <1>0 DEF IInv, Opened
<1>4. /\ call' \in Calls
      /\ \/ call'.op = "none" /\ call'.reply = "ok" /\ p = (IF Reading THEN Depth ELSE 1)
         \/ /\ call'.op = "open" /\ call'.reply = "" /\ p # (IF Reading THEN Depth ELSE 1)
            /\ call'.now = (IF Reading THEN p + 1 ELSE p - 1)
  <2>1. call \in Calls
    BY DEF IInv, Kinds
  <2>2. CASE p = (IF Reading THEN Depth ELSE 1)
    <3>1. call' = [call EXCEPT !.op = "none", !.reply = "ok"]
      BY <1>2, <2>2 DEF OpenNext
    <3> QED BY <2>1, <2>2, <3>1 DEF Calls
  <2>3. CASE p # (IF Reading THEN Depth ELSE 1)
    <3> DEFINE m == IF Reading THEN p + 1 ELSE p - 1
    <3>1. call' = [call EXCEPT !.now = m]
      BY <1>2, <2>3 DEF OpenNext
    <3>2. m \in 0..(Depth + 1)
      <4>1. \A x \in Chain : x + 1 \in 0..(Depth + 1) /\ x - 1 \in 0..(Depth + 1)
        BY ChainNat
      <4> QED BY <1>0, <4>1
    <3>3. call' \in Calls /\ call'.op = call.op /\ call'.reply = call.reply /\ call'.now = m
      <4> HIDE DEF m
      <4> QED BY <2>1, <3>1, <3>2 DEF Calls
    <3> QED BY <1>0, <2>3, <3>3
  <2> QED BY <2>2, <2>3
<1> HIDE DEF p
<1>5. /\ state' \in [Chain -> {"new", "open", "fatal", "closed"}] /\ state'[p] = "open"
      /\ \A q \in Chain : q # p => state'[q] = state[q]
  BY <1>0, <1>2 DEF IInv, Kinds
<1>6. /\ kid' \in [Chain -> Programs] /\ kid'[p] = [NoKid EXCEPT !.at = "read"]
      /\ \A q \in Chain : q # p => kid'[q] = kid[q]
  <2>1. kid \in [Chain -> Programs] /\ kid' = [kid EXCEPT ![p] = [NoKid EXCEPT !.at = "read"]]
    BY <1>2 DEF IInv, Kinds, Create
  <2>2. [NoKid EXCEPT !.at = "read"] \in Programs
    BY DEF NoKid, Programs
  <2> HIDE DEF NoKid
  <2> QED BY <1>0, <2>1, <2>2
<1>7. /\ child_stdout' \in [Chain -> {"open", "blocking", "closed"}] /\ child_stdout'[p] = "open"
      /\ \A q \in Chain : q # p => child_stdout'[q] = child_stdout[q]
      /\ created' = created \cup {p} /\ UNCHANGED <<written, taken, made, drained>>
  <2>1. child_stdout \in [Chain -> {"open", "blocking", "closed"}]
    BY DEF IInv, Kinds
  <2> QED BY <1>0, <1>2, <2>1 DEF Create
<1>8. state[p] = "new" /\ p \in Nat
  <2>1. p \in Nat
    BY <1>0, ChainNat
  <2>2. ~(p < p) /\ ~(p > p)
    BY <2>1
  <2> QED BY <1>0, <1>3, <2>1, <2>2
<1>9. Kinds'
  BY <1>0, <1>4, <1>5, <1>6, <1>7 DEF IInv, Kinds, Reading
<1>10. Children'
  <2>1. kid'[p].at = "read" /\ kid'[p].mute = FALSE /\ kid'[p].status = "none"
    BY <1>6 DEF NoKid
  <2> SUFFICES ASSUME NEW q \in Chain
               PROVE  /\ drained[q] <= made[q]
                      /\ kid'[q].mute => kid'[q].at # "write"
                      /\ kid'[q].at = "none" <=> q \notin created'
                      /\ kid'[q].status = "none" <=> kid'[q].at \in {"none", "read", "write", "exit"}
                      /\ kid'[q].status = "sigpipe" => child_stdout'[q] = "closed"
                      /\ state'[q] \in {"open", "closed"} <=> q \in created'
                      /\ state'[q] = "closed" => kid'[q].at = "reaped"
    BY <1>7 DEF Children
  <2>2. drained[q] <= made[q]
    BY DEF IInv, Children
  <2>3. CASE q = p
    BY <1>5, <1>7, <2>1, <2>2, <2>3
  <2>4. CASE q # p
    BY <1>5, <1>6, <1>7, <2>2, <2>4 DEF IInv, Children
  <2> QED BY <2>3, <2>4
<1>11. call'.op = "none" => \A q \in Chain : state'[q] = "open" /\ child_stdout'[q] = "open"
  <2> SUFFICES ASSUME call'.op = "none", NEW q \in Chain, q # p
               PROVE  state'[q] = "open" /\ child_stdout'[q] = "open"
    BY <1>5, <1>7
  <2>1. p = (IF Reading THEN Depth ELSE 1)
    BY <1>4
  <2>2. IF Reading THEN q < p ELSE q > p
    <3>1. q \in Nat /\ q > 0 /\ q <= Depth /\ Depth \in Nat
      BY ChainNat
    <3> QED BY <2>1, <3>1
  <2> QED BY <1>3, <1>5, <1>7, <2>2
<1>12. Opened'
  <2>1. CASE call'.op = "none"
    BY <1>4, <1>11, <2>1 DEF Opened
  <2>2. CASE call'.op = "open"
    <3> DEFINE m == IF Reading THEN p + 1 ELSE p - 1
    <3>1. m \in Chain /\ call'.now = m /\ call'.reply = ""
      <4>1. p # (IF Reading THEN Depth ELSE 1) /\ call'.now = m /\ call'.reply = ""
        BY <1>4, <2>2
      <4>2. m \in Chain
        <5>1. (p # Depth => p + 1 \in Chain) /\ (p # 1 => p - 1 \in Chain)
          <6>1. /\ p <= Depth /\ Depth \in Nat /\ (p < Depth => p + 1 \in Chain)
                /\ p # 1 => p - 1 \in Chain
            BY <1>0, ChainNat
          <6>2. p # Depth => p < Depth
            BY <1>8, <6>1
          <6> QED BY <6>1, <6>2
        <5> QED BY <4>1, <5>1
      <4> QED BY <4>1, <4>2
    <3>2. ASSUME NEW q \in Chain
          PROVE  IF IF Reading THEN q < m ELSE q > m
                 THEN state'[q] = "open" /\ child_stdout'[q] = "open" ELSE state'[q] = "new"
      <4>1. CASE q = p
        <5>1. IF Reading THEN q < m ELSE q > m
          BY <1>8, <4>1
        <5> QED BY <1>5, <1>7, <4>1, <5>1
      <4>2. CASE q # p
        <5>1. (IF Reading THEN q < m ELSE q > m) <=> (IF Reading THEN q < p ELSE q > p)
          <6>1. q \in Nat
            BY ChainNat
          <6> QED BY <1>8, <4>2, <6>1
        <5> HIDE DEF m
        <5>2. CASE IF Reading THEN q < p ELSE q > p
          BY <1>3, <1>5, <1>7, <4>2, <5>1, <5>2
        <5>3. CASE ~(IF Reading THEN q < p ELSE q > p)
          BY <1>3, <1>5, <4>2, <5>1, <5>3
        <5> QED BY <5>2, <5>3
      <4> QED BY <4>1, <4>2
    <3> HIDE DEF m
    <3> QED BY <1>0, <2>2, <3>1, <3>2 DEF Opened, Reading
  <2> QED BY <1>4, <2>1, <2>2
<1>13. Closed'
  BY <1>4 DEF Closed
<1>14. Reader'
  <2> SUFFICES ASSUME Reading PROVE ReadStack' /\ ReadEnd'
                 /\ \A q \in Chain : ReadPlace(q)' /\ ReadOver(q)' /\ ReadFlow(q)'
    BY <1>0 DEF Reader, Reading
  <2>1. ReadStack' /\ ReadEnd'
    BY <1>0, <1>1, <1>4 DEF ReadStack, ReadEnd
  <2>2. ASSUME NEW q \in Chain PROVE ReadPlace(q)' /\ ReadOver(q)' /\ ReadFlow(q)'
    <3>1. ReadFlow(q) /\ total[q] = 0 /\ answer[q] = ""
      BY <1>0, <1>1 DEF IInv, Reader, ReadPlace, ReadOver
    <3>2. ReadFlow(q)'
      BY <1>0, <1>7, <3>1 DEF ReadFlow, Onward
    <3>3. ReadOver(q)'
      BY <1>0, <1>4, <1>11, <3>1 DEF ReadOver
    <3> QED BY <1>0, <1>1, <1>4, <3>1, <3>2, <3>3 DEF ReadPlace
  <2> QED BY <2>1, <2>2
<1>15. Writer'
  <2> SUFFICES ASSUME Writing PROVE WriteStack' /\ Traced' /\ WriteFlow'
                 /\ \A q \in Chain : WritePlace(q)'
    BY <1>0 DEF Writer, Writing
  <2>1. WriteStack' /\ Traced'
    BY <1>0, <1>1, <1>4 DEF IInv, Writer, WriteStack, Traced
  <2>2. Fine' => Fine
    BY <1>0 DEF Fine
  <2>3. WriteFlow'
    BY <1>0, <1>7, <2>2 DEF IInv, Writer, WriteFlow, Onward, Underway
  <2>4. \A q \in Chain : WritePlace(q)'
    BY <1>0, <1>1, <2>2 DEF IInv, Writer, WritePlace
  <2> QED BY <2>1, <2>3, <2>4
<1> QED BY <1>9, <1>10, <1>12, <1>13, <1>14, <1>15 DEF IInv

(* The filter that is closed stops its child, or reads what it still       *)
(* writes.                                                                 *)
LEMMA BeginCloseKeeps == ASSUME IInv, BeginClose PROVE IInv'
<1> DEFINE p == call.now
<1>0. /\ call.op = "close" /\ p \in Chain /\ Closing(p)
      /\ UNCHANGED <<total, block, left, answer, direction, state, source, handed, faulted>>
  BY DEF BeginClose, Closing
<1>1. CASE state[p] \in {"new", "fatal"}
  BY <1>0, <1>1, PassesOver
<1>2. CASE state[p] \notin {"new", "fatal"}
  <2>0. /\ state[p] = "open" /\ at[p] = "idle" /\ call' = call
        /\ IF Reading THEN UNCHANGED childVars /\ Goes(p, "stop")
           ELSE EndInput(p) /\ Goes(p, "finish")
    BY <1>2 DEF BeginClose
  <2>1. \A q \in Chain : at[q] = "idle"
    BY <1>0, <2>0, IdleOutside
  <2> HIDE DEF p
  <2>2. /\ child_stdout' \in [Chain -> {"open", "blocking", "closed"}]
        /\ \A q \in Chain : child_stdout'[q] = "closed" <=> child_stdout[q] = "closed"
        /\ UNCHANGED <<created, kid, written, taken, made, drained>>
    <3>1. CASE Reading
      BY <2>0, <3>1 DEF childVars, IInv, Kinds
    <3>2. CASE ~Reading
      <4>1. EndInput(p)
        BY <2>0, <3>2
      <4> QED BY <1>0, <4>1, EndInputKeeps
    <3> QED BY <3>1, <3>2
  <2>3. /\ at'[p] = IF Reading THEN "stop" ELSE "finish"
        /\ at' \in [Chain -> IF Reading THEN ReadPlaces ELSE WritePlaces]
        /\ \A q \in Chain : q # p => at'[q] = "idle"
    <3>1. at \in [Chain -> IF Reading THEN ReadPlaces ELSE WritePlaces]
      BY DEF IInv, Kinds
    <3> QED BY <1>0, <2>0, <2>1, <3>1 DEF Goes, ReadPlaces, WritePlaces
  <2>4. Kinds'
    BY <1>0, <2>0, <2>2, <2>3 DEF IInv, Kinds, Reading
  <2>5. Children'
    BY <1>0, <2>2, StdoutKeeps
  <2>6. Opened'
    BY <1>0, <2>0 DEF Opened
  <2>7. Closed'
    <3>1. \A q \in Chain : q = p /\ at'[q] # "idle" => state[q] = "open"
      BY <2>0
    <3> QED BY <1>0, <2>0, <2>2, <3>1 DEF IInv, Closed, Behind, Reading, Writing, p
  <2>8. p \in Nat /\ p <= p /\ \A q \in Chain : ~(q < p /\ p <= q)
    BY <1>0, ChainNat
  <2>9. Reader'
    <3> SUFFICES ASSUME Reading PROVE ReadStack' /\ ReadEnd'
                   /\ \A q \in Chain : ReadPlace(q)' /\ ReadOver(q)' /\ ReadFlow(q)'
      BY <1>0 DEF Reader, Reading
    <3>1. ReadStack'
      BY <1>0, <2>0, <2>3 DEF ReadStack, p
    <3>2. ReadEnd'
      BY <1>0, <2>0 DEF IInv, Reader, ReadEnd
    <3>3. ASSUME NEW q \in Chain PROVE ReadPlace(q)' /\ ReadOver(q)' /\ ReadFlow(q)'
      <4>1. ReadFlow(q) /\ at'[q] \in {"idle", "stop"}
        BY <2>3 DEF IInv, Reader
      <4>2. ReadFlow(q)'
        BY <1>0, <2>2, <4>1 DEF ReadFlow, Onward
      <4> QED BY <1>0, <2>0, <4>1, <4>2 DEF ReadPlace, ReadOver
    <3> QED BY <3>1, <3>2, <3>3
  <2>10. Writer'
    <3> SUFFICES ASSUME Writing PROVE WriteStack' /\ Traced' /\ WriteFlow'
                   /\ \A q \in Chain : WritePlace(q)'
      BY <1>0 DEF Writer, Writing
    <3>0. at'[p] = "finish"
      BY <2>3, Directions
    <3>1. WriteStack'
      BY <1>0, <2>0, <2>3, <2>8 DEF WriteStack, p
    <3>2. \A q \in Chain : at'[q] \in {"idle", "finish"}
      BY <2>3, <3>0
    <3>3. Traced'
      BY <1>0, <2>0, <3>2 DEF IInv, Writer, Traced
    <3>4. Fine' <=> Fine
      BY <1>0, <2>0 DEF Fine
    <3>5. WriteFlow'
      BY <1>0, <2>1, <2>2, <3>2, <3>4 DEF IInv, Writer, WriteFlow, Onward, Underway
    <3>6. ASSUME NEW q \in Chain PROVE WritePlace(q)'
      <4>1. WritePlace(q) /\ at[q] = "idle" /\ (at'[q] = "finish" => Closing(q))
        BY <1>0, <2>1, <2>3 DEF IInv, Writer
      <4> QED BY <1>0, <2>0, <3>2, <3>4, <4>1 DEF WritePlace, Closing
    <3> QED BY <3>1, <3>3, <3>5, <3>6
  <2> QED BY <2>4, <2>5, <2>6, <2>7, <2>9, <2>10 DEF IInv
<1> QED BY <1>1, <1>2

-----------------------------------------------------------------------------
(* The steps of a writer.  The filter that runs has idle filters above it, *)
(* and idle filters or filters that pass on below it.                      *)

Runs(p) ==
  /\ Writing
  /\ at[p] \notin {"idle", "passing"} \/ (at[p] = "passing" /\ at[p + 1] = "idle")

LEMMA WriteRunning ==
  ASSUME IInv, NEW p \in Chain, Runs(p)
  PROVE  /\ WriteStack /\ Traced /\ WriteFlow /\ \A q \in Chain : WritePlace(q)
         /\ call.op = "write" \/ (call.op = "close" /\ call.now <= p)
         /\ \A q \in Chain : q < p => at[q] \in {"idle", "passing"}
         /\ \A q \in Chain : p < q => at[q] = "idle"
<1>1. WriteStack /\ Traced /\ WriteFlow /\ \A q \in Chain : WritePlace(q)
  BY DEF IInv, Writer, Runs
<1>2. at[p] # "idle" /\ (call.op = "write" \/ (call.op = "close" /\ call.now <= p))
  BY <1>1 DEF WriteStack, Runs
<1>3. ASSUME NEW q \in Chain, q < p, at[q] \notin {"idle", "passing"} PROVE FALSE
  <2>1. call.op = "write" \/ (call.op = "close" /\ call.now <= q)
    BY <1>1, <1>3 DEF WriteStack
  <2> QED BY <1>1, <1>2, <1>3, <2>1 DEF WriteStack
<1>4. ASSUME NEW q \in Chain, p < q, at[q] # "idle" PROVE FALSE
  <2>1. at[p] = "passing" /\ at[p + 1] = "idle"
    BY <1>1, <1>2, <1>4 DEF WriteStack, Runs
  <2>2. p < Depth
    BY <1>1, <2>1 DEF WritePlace
  <2>3. p + 1 \in Chain
    BY <2>2, ChainNat
  <2>4. p + 1 < q
    <3>1. p \in Nat /\ q \in Nat /\ q # p + 1
      BY <1>4, <2>1, ChainNat
    <3> QED BY <1>4, <3>1
  <2>5. call.op = "close" => call.now <= p + 1
    <3> DEFINE m == call.now
    <3>1. call.op = "close" => m <= p
      BY <1>2
    <3>2. m \in Nat
      BY CallIs DEF IInv
    <3> HIDE DEF m
    <3>3. p \in Nat
      BY ChainNat
    <3>4. m <= p => m <= p + 1
      BY <3>2, <3>3
    <3>5. call.op = "close" => m <= p + 1
      BY <3>1, <3>4
    <3> QED BY <3>5 DEF m
  <2>6. at[p + 1] = "passing"
    BY <1>1, <1>4, <2>3, <2>4, <2>5 DEF WriteStack
  <2> QED BY <2>1, <2>6
<1> QED BY <1>1, <1>2, <1>3, <1>4

(* A step of the filter that runs leaves the stack below it alone.         *)
LEMMA WriteMoves ==
  ASSUME IInv, NEW p \in Chain, Runs(p), call'.op = call.op, call'.now = call.now,
         \A q \in Chain : q # p => at'[q] = at[q]
  PROVE  WriteStack'
<1> SUFFICES ASSUME NEW r \in Chain, at'[r] # "idle"
             PROVE  /\ call.op = "write" \/ (call.op = "close" /\ call.now <= r)
                    /\ \A q \in Chain :
                         q < r /\ (call.op = "close" => call.now <= q) => at'[q] = "passing"
  BY DEF WriteStack
<1>0. WriteStack /\ \A q \in Chain : p < q => at[q] = "idle"
  BY WriteRunning
<1>1. at[r] # "idle"
  <2>1. at[p] # "idle"
    BY DEF Runs
  <2> QED BY <2>1
<1>2. ~(p < r)
  BY <1>0, <1>1
<1>3. \A q \in Chain : q < r => q # p
  BY <1>2, ChainNat
<1> QED BY <1>0, <1>1, <1>3 DEF WriteStack

LEMMA WriteFrame ==
  ASSUME IInv, NEW p \in Chain, Runs(p), UNCHANGED <<direction, state, created, kid, made>>,
         call'.op = call.op, call'.now = call.now,
         call'.reply = call.reply \/ (call.op = "close" /\ call'.reply = "fatal"),
         \A q \in Chain : q # p => at'[q] = at[q], faulted.any => faulted'.any,
         \A q \in Chain : drained[q] = made[q] => drained'[q] = drained[q]
  PROVE  Opened' /\ Closed' /\ Reader' /\ WriteStack'
<1>1. Writing /\ ~Reading /\ at[p] # "idle"
  BY Directions DEF Runs
<1>2. call.op \in {"write", "close"}
  BY WriteRunning
<1>3. Opened'
  BY <1>1, <1>2 DEF IInv, Opened, Reading, Writing
<1>4. Closed'
  <2>1. \A q \in Chain : q = call.now /\ at'[q] # "idle" => at[q] # "idle"
    BY <1>1
  <2>2. \A q \in Chain : Behind(q)' <=> Behind(q)
    BY DEF Behind, Reading
  <2> QED BY <1>1, <1>2, <2>1, <2>2 DEF IInv, Closed, Reading, Writing
<1>5. Reader'
  BY <1>1 DEF Reader, Reading
<1> QED BY <1>3, <1>4, <1>5, WriteMoves

(* A filter that does not run.                                             *)
LEMMA SameWrite ==
  ASSUME IInv, NEW p \in Chain, Runs(p), NEW q \in Chain, q # p,
         at'[q] = at[q], total'[q] = total[q], left'[q] = left[q], block' = block,
         call'.op = call.op, call'.now = call.now, Fine' => Fine
  PROVE  WritePlace(q)'
<1>1. WritePlace(q) /\ at[q] \in {"idle", "passing"}
  <2>1. p \in Nat /\ q \in Nat
    BY ChainNat
  <2>2. q < p \/ p < q
    BY <2>1
  <2> QED BY <2>2, WriteRunning
<1> QED BY <1>1 DEF WritePlace, Closing

LEMMA TracedKeeps ==
  ASSUME IInv, NEW p \in Chain, Runs(p), call'.op = call.op,
         call'.reply = call.reply \/ call.op = "close",
         \A q \in Chain : q # p => at'[q] = at[q] /\ answer'[q] = answer[q],
         at'[p] # "passing", faulted.any => faulted'.any,
         \/ at'[p] # "idle" /\ answer'[p] = answer[p]
         \/ answer'[p] \in {"ok", "fatal"} /\ (answer'[p] = "fatal" => faulted'.any)
  PROVE  Traced'
<1>1. Traced /\ 1 \in Chain
  BY WriteRunning, ChainNat
<1>2. \A q \in Chain : answer'[q] = "fatal" => faulted'.any
  BY <1>1 DEF Traced
<1>3. \A q \in Chain : answer'[q] # "eof"
  BY <1>1 DEF Traced
<1>4. \A q \in Chain : at'[q] = "idle" => (at[q] = "idle" \/ q = p) /\
                         (answer[q] # "" \/ q = p => answer'[q] # "")
  OBVIOUS
<1>5. ASSUME NEW q \in Chain, q < Depth, at'[q] = "passing", at'[q + 1] = "idle"
      PROVE  answer'[q + 1] # ""
  <2>1. q + 1 \in Chain /\ at[q] = "passing"
    BY <1>5, ChainNat
  <2> QED BY <1>1, <1>4, <1>5, <2>1 DEF Traced
<1>6. call'.op = "write" /\ at'[1] = "idle" => answer'[1] # ""
  BY <1>1, <1>4 DEF Traced
<1>7. call'.op \in {"none", "write"} =>
        call'.reply \in {"ok", "fatal"} /\ (call'.reply = "fatal" => faulted'.any)
  BY <1>1 DEF Traced
<1> QED BY <1>2, <1>3, <1>5, <1>6, <1>7 DEF Traced

(* The filter that runs goes on, and moves no bytes; a close may have      *)
(* found something wrong.                                                  *)
LEMMA WriteGoes ==
  ASSUME IInv, NEW p \in Chain, Runs(p), at[p] \notin {"pass", "passing"},
         NEW place \in {"write", "drain", "poll", "finish", "stop", "wait"}, Goes(p, place),
         IF place \in {"write", "drain", "poll"} THEN ~Closing(p) ELSE Closing(p),
         call' \in Calls, call'.op = call.op, call'.now = call.now,
         call'.reply = call.reply \/ (call.op = "close" /\ call'.reply = "fatal"),
         place \in {"stop", "wait"} /\ Fine' => Silent(p),
         child_stdout' \in [Chain -> {"open", "blocking", "closed"}], Children',
         UNCHANGED <<created, kid, written, taken, made, drained>>,
         UNCHANGED <<total, block, left, answer, direction, state, source, handed, faulted>>
  PROVE  IInv'
<1>1. Writing /\ at[p] \notin {"idle", "passing"}
  BY DEF Runs
<1>2. at' \in [Chain -> WritePlaces] /\ at'[p] = place /\ \A q \in Chain : q # p => at'[q] = at[q]
  <2>1. at \in [Chain -> WritePlaces]
    BY <1>1, Directions DEF IInv, Kinds
  <2> QED BY <2>1 DEF Goes, WritePlaces
<1>3. Kinds'
  <2>1. at' \in [Chain -> IF Reading' THEN ReadPlaces ELSE WritePlaces]
    BY <1>1, <1>2, Directions DEF Reading
  <2> QED BY <2>1 DEF IInv, Kinds
<1>4. Opened' /\ Closed' /\ Reader' /\ WriteStack'
  BY <1>2, WriteFrame
<1>5. Traced'
  BY <1>2, TracedKeeps
<1>6. Fine' => Fine
  BY DEF Fine
<1>7. WriteFlow'
  <2>1. \A q \in Chain : Underway(q)' = Underway(q)
    BY <1>1, <1>2 DEF Underway
  <2> QED BY <1>6, <2>1, WriteRunning DEF WriteFlow, Onward
<1>8. ASSUME NEW q \in Chain PROVE WritePlace(q)'
  <2>1. CASE q = p
    <3>1. WritePlace(p)
      BY WriteRunning
    <3>2. Silent(p) => Silent(p)'
      BY DEF Silent, OutputEnded, Lives
    <3>3. Closing(p)' <=> Closing(p)
      BY DEF Closing
    <3> QED BY <1>1, <1>2, <1>6, <2>1, <3>1, <3>2, <3>3 DEF WritePlace
  <2>2. CASE q # p
    BY <1>2, <1>6, <2>2, SameWrite
  <2> QED BY <2>1, <2>2
<1> QED BY <1>1, <1>3, <1>4, <1>5, <1>7, <1>8 DEF IInv, Writer, Writing

LEMMA WriteStuckKeeps == ASSUME IInv, NEW p \in Chain, WriteStuck(p) PROVE IInv'
<1>1. Runs(p) /\ ~Closing(p)
  BY DEF WriteStuck, Runs, IInv, Writer, WritePlace
<1>2. /\ UNCHANGED <<created, kid, child_stdout, written, taken, made, drained, call>>
      /\ UNCHANGED <<total, block, left, answer, direction, state, source, handed, faulted>>
  BY DEF WriteStuck, childVars, outer
<1>3. Children'
  BY <1>2, StdoutKeeps
<1>4. call' \in Calls /\ child_stdout' \in [Chain -> {"open", "blocking", "closed"}]
  BY <1>2 DEF IInv, Kinds
<1> QED BY <1>1, <1>2, <1>3, <1>4, WriteGoes DEF WriteStuck

LEMMA DrainWaitsKeeps == ASSUME IInv, NEW p \in Chain, DrainWaits(p) PROVE IInv'
<1>1. Runs(p) /\ ~Closing(p)
  BY DEF DrainWaits, Runs, IInv, Writer, WritePlace
<1>2. /\ UNCHANGED <<created, kid, child_stdout, written, taken, made, drained, call>>
      /\ UNCHANGED <<total, block, left, answer, direction, state, source, handed, faulted>>
  BY DEF DrainWaits, childVars, outer
<1>3. Children'
  BY <1>2, StdoutKeeps
<1>4. call' \in Calls /\ child_stdout' \in [Chain -> {"open", "blocking", "closed"}]
  BY <1>2 DEF IInv, Kinds
<1> QED BY <1>1, <1>2, <1>3, <1>4, WriteGoes DEF DrainWaits

LEMMA WritePollKeeps == ASSUME IInv, NEW p \in Chain, Writing, Poll(p) PROVE IInv'
<1>1. Runs(p) /\ ~Closing(p) /\ Goes(p, "write")
  BY Directions DEF Poll, Runs, IInv, Writer, WritePlace
<1>2. /\ UNCHANGED <<created, kid, child_stdout, written, taken, made, drained, call>>
      /\ UNCHANGED <<total, block, left, answer, direction, state, source, handed, faulted>>
  BY DEF Poll, childVars, outer
<1>3. Children'
  BY <1>2, StdoutKeeps
<1>4. call' \in Calls /\ child_stdout' \in [Chain -> {"open", "blocking", "closed"}]
  BY <1>2 DEF IInv, Kinds
<1> QED BY <1>1, <1>2, <1>3, <1>4, WriteGoes DEF Poll

LEMMA DrainOverKeeps == ASSUME IInv, NEW p \in Chain, DrainOver(p) PROVE IInv'
<1>1. Runs(p) /\ ~Closing(p)
  BY DEF DrainOver, Runs, IInv, Writer, WritePlace
<1>2. /\ UNCHANGED <<created, kid, written, taken, made, drained, call>>
      /\ UNCHANGED <<total, block, left, answer, direction, state, source, handed, faulted>>
      /\ child_stdout' = [child_stdout EXCEPT ![p] = "closed"]
  BY DEF DrainOver, CloseStdout, outer
<1>3. call' \in Calls /\ child_stdout' \in [Chain -> {"open", "blocking", "closed"}]
  BY <1>2 DEF IInv, Kinds
<1>4. Children'
  BY <1>2, <1>3, StdoutKeeps DEF IInv, Kinds
<1> QED BY <1>1, <1>2, <1>3, <1>4, WriteGoes DEF DrainOver

LEMMA WriteStopKeeps == ASSUME IInv, NEW p \in Chain, Writing, Stop(p) PROVE IInv'
<1>0. /\ at[p] = "stop" /\ Leave(p) /\ Goes(p, "wait")
      /\ UNCHANGED <<total, block, left, answer, direction, state, call, source, handed, faulted>>
  BY DEF Stop, outer
<1>1. Runs(p) /\ Closing(p) /\ (Fine' => Silent(p))
  BY <1>0 DEF Runs, IInv, Writer, WritePlace, Fine
<1>2. /\ child_stdout' \in [Chain -> {"open", "blocking", "closed"}]
      /\ UNCHANGED <<created, kid, written, taken, made, drained>> /\ Children'
  BY <1>0, LeaveKeeps
<1>3. call' \in Calls
  BY <1>0 DEF IInv, Kinds
<1> QED BY <1>0, <1>1, <1>2, <1>3, WriteGoes

(* A close reads on until the output is over; if it was closed before, the *)
(* close has failed.                                                       *)
LEMMA FinishOverKeeps == ASSUME IInv, NEW p \in Chain, FinishOver(p) PROVE IInv'
<1>0. /\ at[p] = "finish" /\ Goes(p, "stop")
      /\ UNCHANGED <<created, kid, child_stdout, written, taken, made, drained>>
      /\ UNCHANGED <<total, block, left, answer, direction, state, source, handed, faulted>>
  BY DEF FinishOver, childVars
<1>1. Runs(p) /\ Closing(p)
  BY <1>0 DEF Runs, IInv, Writer, WritePlace, FinishOver
<1>2. /\ call' \in Calls /\ call'.op = call.op /\ call'.now = call.now
      /\ call'.reply = call.reply \/ (call.op = "close" /\ call'.reply = "fatal")
  <2>1. call \in Calls
    BY DEF IInv, Kinds
  <2>2. call' = call \/ call' = [call EXCEPT !.reply = "fatal"]
    BY DEF FinishOver
  <2> QED BY <1>1, <2>1, <2>2 DEF Calls, Closing
<1>3. Children' /\ child_stdout' \in [Chain -> {"open", "blocking", "closed"}]
  BY <1>0, StdoutKeeps DEF IInv, Kinds
<1>4. Fine' => Silent(p)
  <2> SUFFICES ASSUME Fine' PROVE Silent(p)
    OBVIOUS
  <2>1. call' # [call EXCEPT !.reply = "fatal"]
    <3>1. call \in Calls
      BY DEF IInv, Kinds
    <3> QED BY <3>1 DEF Fine, Calls
  <2>2. NoMore(p) /\ Fine
    BY <1>0, <2>1 DEF FinishOver, Fine
  <2>3. total[p] = 0
    BY <1>0, <1>1, <2>2 DEF IInv, Writer, WritePlace, Runs
  <2>4. OutPipe(p) = 0 /\ OutputEnded(p)
    BY <2>2, <2>3, FilterAssumption DEF NoMore
  <2>5. drained[p] = made[p]
    <3>1. drained[p] \in Nat /\ made[p] \in Nat
      BY Values DEF IInv
    <3> QED BY <2>4, <3>1 DEF OutPipe
  <2> QED BY <2>4, <2>5 DEF Silent
<1> QED BY <1>0, <1>1, <1>2, <1>3, <1>4, WriteGoes

(* A write that fails: the call of the filter ends with it, or its close   *)
(* goes on.                                                                *)
LEMMA NotPassedKeeps ==
  ASSUME IInv, NEW p \in Chain, Runs(p), NotPassed(p),
         faulted' \in [any : BOOLEAN, late : Nat], faulted'.any,
         UNCHANGED <<created, kid, child_stdout, written, taken, made, drained>>,
         UNCHANGED <<block, direction, state, source, handed>>
  PROVE  IInv'
<1>1. Writing /\ ~Fine' /\ WritePlace(p)
  BY WriteRunning DEF Fine, Runs
<1>2. /\ at' \in [Chain -> WritePlaces] /\ \A q \in Chain : q # p => at'[q] = at[q]
      /\ left' \in [Chain -> Nat] /\ \A q \in Chain : q # p => left'[q] = left[q]
      /\ answer' \in [0..Depth -> {"", "ok", "eof", "fatal"}]
      /\ \A q \in Chain : q # p => answer'[q] = answer[q]
      /\ IF Closing(p) THEN at'[p] = "stop" /\ answer'[p] = answer[p]
         ELSE at'[p] = "idle" /\ answer'[p] = "fatal"
      /\ at'[p] \in {"stop", "idle"} /\ left'[p] = 0 /\ (at'[p] = "stop" => Closing(p))
  <2>t. /\ at \in [Chain -> WritePlaces] /\ left \in [Chain -> Nat]
        /\ answer \in [0..Depth -> {"", "ok", "eof", "fatal"}]
        /\ \A q \in Chain : q \in 0..Depth
    BY <1>1, Directions, ChainNat DEF IInv, Kinds
  <2>1. CASE Closing(p)
    <3>1. Goes(p, "stop") /\ UNCHANGED <<answer, left>>
      BY <2>1 DEF NotPassed
    <3>2. left[p] = 0
      BY <1>1, <2>1 DEF WritePlace
    <3> QED BY <2>t, <2>1, <3>1, <3>2 DEF Goes, WritePlaces
  <2>2. CASE ~Closing(p)
    <3>1. Ends(p, "fatal")
      BY <2>2 DEF NotPassed
    <3> QED BY <2>t, <2>2, <3>1 DEF Ends, Goes, WritePlaces
  <2> QED BY <2>1, <2>2
<1>3. /\ call' \in Calls /\ call'.op = call.op /\ call'.now = call.now
      /\ call'.reply = call.reply \/ (call.op = "close" /\ call'.reply = "fatal")
  <2>1. call \in Calls
    BY DEF IInv, Kinds
  <2>2. call' = call \/ (call.op = "close" /\ call' = [call EXCEPT !.reply = "fatal"])
    BY DEF NotPassed, Closing
  <2> QED BY <2>1, <2>2 DEF Calls
<1>4. Kinds'
  <2>1. at' \in [Chain -> IF Reading' THEN ReadPlaces ELSE WritePlaces] /\ total' = total
    BY <1>1, <1>2, Directions DEF Reading, NotPassed
  <2> QED BY <1>2, <1>3, <2>1 DEF IInv, Kinds
<1>5. Children'
  BY StdoutKeeps
<1>6. Opened' /\ Closed' /\ Reader' /\ WriteStack'
  BY <1>2, <1>3, WriteFrame
<1>7. Traced'
  BY <1>2, <1>3, TracedKeeps
<1>8. WriteFlow'
  BY <1>1 DEF WriteFlow
<1>9. ASSUME NEW q \in Chain PROVE WritePlace(q)'
  <2>1. CASE q = p
    <3>1. Closing(p)' <=> Closing(p)
      BY <1>3 DEF Closing
    <3>2. block'[p] = 0
      BY <1>1 DEF WritePlace
    <3> QED BY <1>1, <1>2, <2>1, <3>1, <3>2 DEF WritePlace
  <2>2. CASE q # p
    <3>1. total'[q] = total[q]
      BY DEF NotPassed
    <3> QED BY <1>1, <1>2, <1>3, <2>2, <3>1, SameWrite
  <2> QED BY <2>1, <2>2
<1> QED BY <1>1, <1>4, <1>5, <1>6, <1>7, <1>8, <1>9 DEF IInv, Writer, Writing

LEMMA WriteRefusedKeeps == ASSUME IInv, NEW p \in Chain, WriteRefused(p) PROVE IInv'
<1>1. Runs(p) /\ ~Closing(p)
  BY DEF WriteRefused, Runs, IInv, Writer, WritePlace
<1>2. NotPassed(p)
  BY <1>1 DEF WriteRefused, NotPassed
<1>3. faulted' \in [any : BOOLEAN, late : Nat] /\ faulted'.any
  BY DEF WriteRefused, IInv, Kinds
<1>4. /\ UNCHANGED <<created, kid, child_stdout, written, taken, made, drained>>
      /\ UNCHANGED <<block, direction, state, source, handed>>
  BY DEF WriteRefused, childVars
<1> QED BY <1>1, <1>2, <1>3, <1>4, NotPassedKeeps

(* All that a filter was given is with its child.                          *)
LEMMA WriteDoneKeeps == ASSUME IInv, NEW p \in Chain, WriteDone(p) PROVE IInv'
<1>0. /\ at[p] = "write" /\ left[p] = 0 /\ Ends(p, "ok") /\ call' = call /\ faulted' = faulted
      /\ UNCHANGED <<created, kid, child_stdout, written, taken, made, drained>>
      /\ UNCHANGED <<total, block, direction, state, source, handed>>
  BY DEF WriteDone, childVars, outer
<1>1. Writing /\ Runs(p) /\ WritePlace(p) /\ ~Closing(p)
  BY DEF WriteDone, Runs, IInv, Writer, WritePlace
<1>2. /\ at' \in [Chain -> WritePlaces] /\ at'[p] = "idle"
      /\ \A q \in Chain : q # p => at'[q] = at[q]
      /\ left' = left
      /\ answer' \in [0..Depth -> {"", "ok", "eof", "fatal"}] /\ answer'[p] = "ok"
      /\ \A q \in Chain : q # p => answer'[q] = answer[q]
  <2>t. /\ at \in [Chain -> WritePlaces] /\ left \in [Chain -> Nat]
        /\ answer \in [0..Depth -> {"", "ok", "eof", "fatal"}]
        /\ \A q \in Chain : q \in 0..Depth
    BY <1>1, Directions, ChainNat DEF IInv, Kinds
  <2>1. left' = left
    BY <1>0, <2>t DEF Ends
  <2> QED BY <1>0, <2>t, <2>1 DEF Ends, Goes, WritePlaces
<1>3. Kinds'
  <2>1. at' \in [Chain -> IF Reading' THEN ReadPlaces ELSE WritePlaces]
    BY <1>0, <1>1, <1>2, Directions DEF Reading
  <2> QED BY <1>0, <1>2, <2>1 DEF IInv, Kinds
<1>4. Children'
  BY <1>0, StdoutKeeps
<1>5. Opened' /\ Closed' /\ Reader' /\ WriteStack'
  BY <1>0, <1>1, <1>2, WriteFrame
<1>6. Traced'
  BY <1>0, <1>1, <1>2, TracedKeeps
<1>7. Fine' => Fine
  BY <1>0 DEF Fine
<1>8. WriteFlow'
  <2>1. \A q \in Chain : Underway(q)' = Underway(q)
    BY <1>0, <1>2 DEF Underway
  <2> QED BY <1>0, <1>1, <1>2, <1>7, <2>1, WriteRunning DEF WriteFlow, Onward
<1>9. ASSUME NEW q \in Chain PROVE WritePlace(q)'
  <2>1. CASE q = p
    BY <1>0, <1>1, <1>2, <1>7, <2>1 DEF WritePlace
  <2>2. CASE q # p
    BY <1>0, <1>1, <1>2, <1>7, <2>2, SameWrite
  <2> QED BY <2>1, <2>2
<1> QED BY <1>0, <1>1, <1>3, <1>4, <1>5, <1>6, <1>8, <1>9 DEF IInv, Writer, Writing

LEMMA PassingBelow ==
  ASSUME IInv, NEW p \in Chain, Runs(p), ~Closing(p), NEW q \in Chain, q + 1 = p
  PROVE  at[q] = "passing" /\ q < Depth
<1> DEFINE m == call.now
<1>1. at[p] # "idle" /\ WriteStack /\ (call.op = "write" \/ (call.op = "close" /\ m <= p))
  BY WriteRunning DEF Runs
<1>2. call.op = "close" => m # p
  BY DEF Closing
<1>3. \A r \in Chain : r < p /\ (call.op = "close" => m <= r) => at[r] = "passing"
  BY <1>1 DEF WriteStack
<1>4. m \in Nat
  BY CallIs DEF IInv
<1> HIDE DEF m
<1>5. q < p /\ (m <= p /\ m # p => m <= q) /\ q < Depth
  <2>1. q \in Nat /\ p <= Depth /\ Depth \in Nat
    BY ChainNat
  <2> QED BY <1>4, <2>1
<1> QED BY <1>1, <1>2, <1>3, <1>5

(* The bytes of one filter.                                                *)
Flow(p) == drained[p] = Onward(p) + block[p] + Underway(p)

LEMMA FlowIs ==
  ASSUME IInv, Writing, NEW p \in Chain
  PROVE  /\ Underway(p) \in Nat /\ Onward(p) \in Nat
         /\ Fine => Flow(p) /\ drained[p] = Onward(p) + Underway(p)
<1>1. /\ Onward(p) \in Nat /\ total[p] \in Nat /\ left \in [Chain -> Nat]
  BY Values DEF IInv, Kinds
<1>2. block[p] = 0 /\ (at[p] = "passing" => p + 1 \in Chain)
  BY ChainNat DEF IInv, Writer, WritePlace
<1>3. Underway(p) \in Nat
  BY <1>1, <1>2 DEF Underway
<1>4. Fine => Flow(p)
  BY DEF IInv, Writer, WriteFlow, Flow
<1>5. Flow(p) => drained[p] = Onward(p) + 0 + Underway(p)
  BY <1>2 DEF Flow
<1>6. Onward(p) + 0 + Underway(p) = Onward(p) + Underway(p)
  BY <1>1, <1>3
<1> QED BY <1>1, <1>3, <1>4, <1>5, <1>6

LEMMA WriteInputKeeps == ASSUME IInv, NEW p \in Chain, WriteInput(p) PROVE IInv'
<1>0. /\ at[p] = "write"
      /\ UNCHANGED <<created, kid, child_stdout, taken, made, drained, call, faulted>>
      /\ UNCHANGED <<at, total, block, answer, direction, state, source, handed>>
  BY DEF WriteInput, Write, outer
<1>1. Writing /\ Runs(p) /\ WritePlace(p) /\ ~Closing(p)
  BY DEF WriteInput, Runs, IInv, Writer, WritePlace
<1>2. PICK n \in 1..Smaller(left[p], Room(p)) : Write(p, n) /\ left' = [left EXCEPT ![p] = @ - n]
  BY DEF WriteInput
<1>t. /\ left \in [Chain -> Nat] /\ left[p] \in Nat /\ written \in [Chain -> Nat]
      /\ written[p] \in Nat
  BY DEF IInv, Kinds
<1>3. n \in Nat /\ n <= left[p]
  <2>1. Room(p) \in Int
    BY RoomIs DEF IInv
  <2> QED BY <1>t, <2>1, SmallerIs
<1>4. /\ written' \in [Chain -> Nat] /\ written'[p] = written[p] + n
      /\ \A q \in Chain : q # p => written'[q] = written[q]
  <2>1. written' = [written EXCEPT ![p] = @ + n]
    BY <1>2 DEF Write
  <2> QED BY <1>t, <1>3, <2>1
<1>5. /\ left' \in [Chain -> Nat] /\ left'[p] = left[p] - n
      /\ \A q \in Chain : q # p => left'[q] = left[q]
  <2>1. left[p] - n \in Nat
    BY <1>t, <1>3
  <2> QED BY <1>t, <1>2, <2>1
<1>6. written'[p] + left'[p] = written[p] + left[p]
  BY <1>t, <1>3, <1>4, <1>5
<1>7. Kinds'
  BY <1>0, <1>4, <1>5 DEF IInv, Kinds, Reading
<1>8. Children'
  BY <1>0, StdoutKeeps
<1>9. Opened' /\ Closed' /\ Reader' /\ WriteStack'
  BY <1>0, <1>1, WriteFrame
<1>10. Traced'
  BY <1>0, <1>1, TracedKeeps
<1>11. Fine' <=> Fine
  BY <1>0 DEF Fine
<1>12. WriteFlow'
  <2> SUFFICES ASSUME Fine
               PROVE  /\ written'[1] + left'[1] = Stream - source
                      /\ \A q \in Chain : Flow(q)'
    BY <1>0, <1>11 DEF WriteFlow, Flow
  <2>1. written'[1] + left'[1] = Stream - source
    <3>1. written[1] + left[1] = Stream - source /\ 1 \in Chain
      BY <1>1, ChainNat DEF IInv, Writer, WriteFlow
    <3>2. written'[1] + left'[1] = written[1] + left[1]
      <4>1. CASE p = 1
        BY <1>6, <4>1
      <4>2. CASE p # 1
        <5>1. written'[1] = written[1] /\ left'[1] = left[1]
          BY <1>4, <1>5, <3>1, <4>2
        <5> QED BY <5>1
      <4> QED BY <4>1, <4>2
    <3> QED BY <3>1, <3>2
  <2>2. ASSUME NEW q \in Chain PROVE Flow(q)'
    <3>1. Flow(q) /\ drained[q] = Onward(q) + Underway(q) /\ block[q] = 0
      BY <1>1, FlowIs DEF IInv, Writer, WritePlace
    <3>2. CASE q + 1 = p
      <4>1. at[q] = "passing" /\ q < Depth
        BY <1>1, <3>2, PassingBelow
      <4>2. /\ Onward(q) = written[p] /\ Underway(q) = left[p]
            /\ Onward(q)' = written'[p] /\ Underway(q)' = left'[p]
        BY <1>0, <3>2, <4>1 DEF Onward, Underway
      <4>3. written'[p] + 0 + left'[p] = written[p] + left[p]
        BY <1>t, <1>3, <1>4, <1>5
      <4> QED BY <1>0, <3>1, <4>2, <4>3 DEF Flow
    <3>3. CASE q + 1 # p
      <4>1. Onward(q)' = Onward(q)
        <5>1. q < Depth => q + 1 \in Chain
          BY ChainNat
        <5> QED BY <1>0, <1>4, <3>3, <5>1 DEF Onward
      <4>2. Underway(q)' = Underway(q)
        <5>1. at[q] = "passing" => q + 1 \in Chain
          BY <1>1, ChainNat DEF IInv, Writer, WritePlace
        <5> QED BY <1>0, <1>5, <3>3, <5>1 DEF Underway
      <4> QED BY <1>0, <3>1, <4>1, <4>2 DEF Flow
    <3> QED BY <3>2, <3>3
  <2> QED BY <2>1, <2>2
<1>13. ASSUME NEW q \in Chain PROVE WritePlace(q)'
  <2>1. CASE q = p
    BY <1>0, <1>1, <1>11, <2>1 DEF WritePlace, Closing
  <2>2. CASE q # p
    BY <1>0, <1>1, <1>5, <1>11, <2>2, SameWrite
  <2> QED BY <2>1, <2>2
<1> QED BY <1>0, <1>1, <1>7, <1>8, <1>9, <1>10, <1>12, <1>13 DEF IInv, Writer, Writing

LEMMA DrainSomeKeeps == ASSUME IInv, NEW p \in Chain, DrainSome(p) PROVE IInv'
<1>0. /\ Writing /\ at[p] \in {"drain", "finish"} /\ Goes(p, "pass")
      /\ UNCHANGED <<created, kid, child_stdout, written, taken, made, call, faulted>>
      /\ UNCHANGED <<block, left, answer, direction, state, source, handed>>
  BY DEF DrainSome, Drain, outer
<1>1. Runs(p) /\ WritePlace(p)
  BY <1>0 DEF Runs, IInv, Writer
<1>2. PICK n \in 1..Smaller(OutPipe(p), OutBuf - total[p]) :
        Drain(p, n) /\ total' = [total EXCEPT ![p] = @ + n]
  BY DEF DrainSome
<1>t. /\ drained[p] \in Nat /\ made[p] \in Nat /\ total[p] \in Nat /\ OutBuf \in Nat
      /\ total \in [Chain -> Nat] /\ Onward(p) \in Nat
  BY FilterAssumption, Values DEF IInv, Kinds
<1>3. n \in Nat /\ n > 0 /\ drained[p] + n <= made[p]
  <2>1. n \in Nat /\ n > 0 /\ n <= OutPipe(p)
    BY <1>t, SmallerIs DEF OutPipe
  <2> QED BY <1>t, <2>1 DEF OutPipe
<1>4. /\ Children' /\ drained' \in [Chain -> Nat] /\ drained'[p] = drained[p] + n
      /\ \A q \in Chain : q # p => drained'[q] = drained[q]
  BY <1>0, <1>2, <1>3, DrainKeeps
<1>5. /\ total' \in [Chain -> Nat] /\ total'[p] = total[p] + n
      /\ \A q \in Chain : q # p => total'[q] = total[q]
  BY <1>t, <1>2, <1>3
<1>6. /\ at' \in [Chain -> WritePlaces] /\ at'[p] = "pass"
      /\ \A q \in Chain : q # p => at'[q] = at[q]
  <2>1. at \in [Chain -> WritePlaces]
    BY <1>0, Directions DEF IInv, Kinds
  <2> QED BY <1>0, <2>1 DEF Goes, WritePlaces
<1>7. Kinds'
  <2>1. at' \in [Chain -> IF Reading' THEN ReadPlaces ELSE WritePlaces]
    BY <1>0, <1>6, Directions DEF Reading
  <2> QED BY <1>0, <1>4, <1>5, <2>1 DEF IInv, Kinds
<1>8. Opened' /\ Closed' /\ Reader' /\ WriteStack'
  <2>1. drained[p] # made[p]
    BY <1>t, <1>3
  <2> QED BY <1>0, <1>1, <1>4, <1>6, <2>1, WriteFrame
<1>9. Traced'
  BY <1>0, <1>1, <1>6, TracedKeeps
<1>10. Fine' <=> Fine
  BY <1>0 DEF Fine
<1>11. WriteFlow'
  <2> SUFFICES ASSUME Fine
               PROVE  /\ written[1] + left[1] = Stream - source
                      /\ \A q \in Chain : Flow(q)'
    BY <1>0, <1>10 DEF WriteFlow, Flow
  <2>1. written[1] + left[1] = Stream - source
    BY <1>0 DEF IInv, Writer, WriteFlow
  <2>2. ASSUME NEW q \in Chain PROVE Flow(q)'
    <3>1. Flow(q) /\ drained[q] = Onward(q) + Underway(q) /\ block[q] = 0
      BY <1>0, FlowIs DEF IInv, Writer, WritePlace
    <3>2. Onward(q)' = Onward(q)
      BY <1>0 DEF Onward
    <3>3. CASE q = p
      <4>1. Underway(p) = total[p] /\ Underway(p)' = total'[p]
        BY <1>0, <1>6 DEF Underway
      <4>2. drained[p] + n = Onward(p) + 0 + (total[p] + n)
        <5>1. drained[p] = Onward(p) + total[p]
          BY <3>1, <3>3, <4>1
        <5> QED BY <1>t, <1>3, <5>1
      <4> QED BY <1>0, <1>4, <1>5, <3>1, <3>2, <3>3, <4>1, <4>2 DEF Flow
    <3>4. CASE q # p
      <4>1. Underway(q)' = Underway(q)
        BY <1>0, <1>5, <1>6, <3>4 DEF Underway
      <4> QED BY <1>0, <1>4, <3>1, <3>2, <3>4, <4>1 DEF Flow
    <3> QED BY <3>3, <3>4
  <2> QED BY <2>1, <2>2
<1>12. ASSUME NEW q \in Chain PROVE WritePlace(q)'
  <2>1. CASE q = p
    BY <1>0, <1>1, <1>6, <2>1 DEF WritePlace, Closing
  <2>2. CASE q # p
    BY <1>0, <1>1, <1>5, <1>6, <1>10, <2>2, SameWrite
  <2> QED BY <2>1, <2>2
<1> QED BY <1>0, <1>4, <1>7, <1>8, <1>9, <1>11, <1>12 DEF IInv, Writer, Writing

(* What was in the buffer is with the next program or the client.          *)
LEMMA PassedKeeps ==
  ASSUME IInv, NEW p \in Chain, Runs(p), Passed(p), handed' \in Nat,
         \/ at[p] = "pass" /\ p = Depth /\ handed' = handed + total[p]
         \/ at[p] = "passing" /\ handed' = handed,
         UNCHANGED <<created, kid, child_stdout, written, taken, made, drained, call, faulted>>,
         UNCHANGED <<block, left, answer, direction, state, source>>
  PROVE  IInv'
<1>1. Writing /\ WritePlace(p)
  BY WriteRunning DEF Runs
<1>2. /\ at' \in [Chain -> WritePlaces] /\ at'[p] = (IF Closing(p) THEN "finish" ELSE "write")
      /\ \A q \in Chain : q # p => at'[q] = at[q]
  <2>1. at \in [Chain -> WritePlaces]
    BY <1>1, Directions DEF IInv, Kinds
  <2> QED BY <2>1 DEF Passed, Goes, WritePlaces
<1>3. /\ total' \in [Chain -> Nat] /\ total'[p] = 0
      /\ \A q \in Chain : q # p => total'[q] = total[q]
  BY DEF Passed, IInv, Kinds
<1>4. Kinds'
  <2>1. at' \in [Chain -> IF Reading' THEN ReadPlaces ELSE WritePlaces]
    BY <1>1, <1>2, Directions DEF Reading
  <2> QED BY <1>3, <2>1 DEF IInv, Kinds
<1>5. Children'
  BY StdoutKeeps
<1>6. Opened' /\ Closed' /\ Reader' /\ WriteStack'
  BY <1>2, WriteFrame
<1>7. Traced'
  BY <1>2, TracedKeeps
<1>8. Fine' <=> Fine
  BY DEF Fine
<1>9. WriteFlow'
  <2> SUFFICES ASSUME Fine
               PROVE  /\ written[1] + left[1] = Stream - source
                      /\ \A q \in Chain : Flow(q)'
    BY <1>8 DEF WriteFlow, Flow
  <2>1. written[1] + left[1] = Stream - source
    BY <1>1 DEF IInv, Writer, WriteFlow
  <2>2. ASSUME NEW q \in Chain PROVE Flow(q)'
    <3>1. Flow(q) /\ drained[q] = Onward(q) + Underway(q) /\ block[q] = 0
      BY <1>1, FlowIs DEF IInv, Writer, WritePlace
    <3>2. CASE q = p
      <4>1. Underway(p)' = 0
        BY <1>2, <1>3 DEF Underway
      <4>2. Onward(p)' = Onward(p) + Underway(p)
        <5>1. CASE at[p] = "pass" /\ p = Depth /\ handed' = handed + total[p]
          <6>1. ~(p < Depth)
            BY <5>1, ChainNat
          <6> QED BY <5>1, <6>1 DEF Onward, Underway
        <5>2. CASE at[p] = "passing" /\ handed' = handed
          <6>1. at[p + 1] = "idle" /\ p + 1 \in Chain
            BY <1>1, <5>2, ChainNat DEF Runs, WritePlace
          <6>2. left[p + 1] = 0
            BY <1>1, <6>1 DEF IInv, Writer, WritePlace
          <6>3. Underway(p) = 0 /\ Onward(p)' = Onward(p)
            BY <5>2, <6>2 DEF Underway, Onward
          <6>4. Onward(p) \in Nat
            BY <1>1, FlowIs
          <6>5. Onward(p) = Onward(p) + 0
            BY <6>4
          <6> QED BY <6>3, <6>5
        <5> QED BY <5>1, <5>2
      <4>3. Onward(p) + Underway(p) = (Onward(p) + Underway(p)) + 0 + 0
        BY <1>1, FlowIs
      <4> QED BY <3>1, <3>2, <4>1, <4>2, <4>3 DEF Flow
    <3>3. CASE q # p
      <4>1. Underway(q)' = Underway(q)
        BY <1>2, <1>3, <3>3 DEF Underway
      <4>2. Onward(q)' = Onward(q)
        <5>1. handed' = handed \/ p = Depth
          OBVIOUS
        <5>2. p = Depth => q < Depth
          <6>1. q \in Nat /\ q <= Depth /\ Depth \in Nat
            BY ChainNat
          <6> QED BY <3>3, <6>1
        <5> QED BY <5>1, <5>2 DEF Onward
      <4> QED BY <3>1, <4>1, <4>2 DEF Flow
    <3> QED BY <3>2, <3>3
  <2> QED BY <2>1, <2>2
<1>10. ASSUME NEW q \in Chain PROVE WritePlace(q)'
  <2>1. CASE q = p
    <3>1. Closing(p)' <=> Closing(p)
      BY DEF Closing
    <3> QED BY <1>1, <1>2, <1>3, <2>1, <3>1 DEF WritePlace
  <2>2. CASE q # p
    BY <1>2, <1>3, <1>8, <2>2, SameWrite
  <2> QED BY <2>1, <2>2
<1> QED BY <1>1, <1>4, <1>5, <1>6, <1>7, <1>9, <1>10 DEF IInv, Writer, Writing

LEMMA PassToClientKeeps == ASSUME IInv, NEW p \in Chain, PassToClient(p) PROVE IInv'
<1>0. /\ at[p] = "pass" /\ p = Depth /\ Runs(p)
      /\ UNCHANGED <<created, kid, child_stdout, written, taken, made, drained>>
      /\ UNCHANGED <<block, direction, state, source>>
  BY DEF PassToClient, Runs, childVars
<1>1. CASE handed' = handed + total[p] /\ Passed(p) /\ UNCHANGED <<left, answer, call, faulted>>
  <2>1. handed' \in Nat
    <3>1. handed \in Nat /\ total[p] \in Nat
      BY DEF IInv, Kinds
    <3> QED BY <1>1, <3>1
  <2> QED BY <1>0, <1>1, <2>1, PassedKeeps
<1>2. CASE NotPassed(p) /\ faulted' = [faulted EXCEPT !.any = TRUE] /\ UNCHANGED handed
  <2>1. faulted' \in [any : BOOLEAN, late : Nat] /\ faulted'.any
    BY <1>2 DEF IInv, Kinds
  <2> QED BY <1>0, <1>2, <2>1, NotPassedKeeps
<1> QED BY <1>1, <1>2 DEF PassToClient

LEMMA PassReturnsKeeps == ASSUME IInv, NEW p \in Chain, PassReturns(p) PROVE IInv'
<1>0. /\ at[p] = "passing" /\ at[p + 1] = "idle" /\ Runs(p)
      /\ UNCHANGED <<created, kid, child_stdout, written, taken, made, drained, faulted>>
      /\ UNCHANGED <<block, direction, state, source, handed>>
  BY DEF PassReturns, Runs, childVars
<1>1. CASE answer[p + 1] = "ok"
  <2>1. Passed(p) /\ UNCHANGED <<left, answer, call>>
    BY <1>1 DEF PassReturns
  <2>2. handed' \in Nat
    BY <1>0 DEF IInv, Kinds
  <2> QED BY <1>0, <2>1, <2>2, PassedKeeps
<1>2. CASE answer[p + 1] # "ok"
  <2>1. NotPassed(p)
    BY <1>2 DEF PassReturns
  <2>2. p < Depth /\ p + 1 \in Chain /\ p + 1 \in 0..Depth
    <3>1. WritePlace(p)
      BY <1>0, WriteRunning
    <3>2. p < Depth
      BY <1>0, <3>1 DEF WritePlace
    <3>3. p + 1 \in Chain
      BY <3>2, ChainNat
    <3> QED BY <3>2, <3>3, ChainNat
  <2>3. answer[p + 1] \in {"", "ok", "eof", "fatal"}
    BY <2>2 DEF IInv, Kinds
  <2>4. faulted.any
    BY <1>0, <1>2, <2>2, <2>3, WriteRunning DEF Traced
  <2>5. faulted' \in [any : BOOLEAN, late : Nat] /\ faulted'.any
    BY <1>0, <2>4 DEF IInv, Kinds
  <2> QED BY <1>0, <2>1, <2>5, NotPassedKeeps
<1> QED BY <1>1, <1>2

LEMMA PassDownKeeps == ASSUME IInv, NEW p \in Chain, PassDown(p) PROVE IInv'
<1>0. /\ Writing /\ at[p] = "pass" /\ p < Depth /\ p + 1 \in Chain
      /\ UNCHANGED <<created, kid, child_stdout, written, taken, made, drained, call, faulted>>
      /\ UNCHANGED <<total, block, answer, direction, state, source, handed>>
  BY ChainNat DEF PassDown, childVars, outer
<1> DEFINE n == p + 1
<1>n. n \in Chain /\ n # p /\ p < n /\ (\A q \in Chain : q < n => q = p \/ q < p)
      /\ n # 1 /\ n = p + 1
  BY <1>0, ChainNat
<1>1. at' = [at EXCEPT ![p] = "passing", ![n] = "write"] /\ left' = [left EXCEPT ![n] = total[p]]
  BY DEF PassDown
<1> HIDE DEF n
<1>2. /\ Runs(p) /\ WriteStack /\ Traced /\ WriteFlow /\ \A q \in Chain : WritePlace(q)
      /\ call.op = "write" \/ (call.op = "close" /\ call.now <= p)
      /\ \A q \in Chain : p < q => at[q] = "idle"
  BY <1>0, WriteRunning DEF Runs
<1>3. /\ at' \in [Chain -> WritePlaces] /\ at'[p] = "passing" /\ at'[n] = "write"
      /\ \A q \in Chain : q # p /\ q # n => at'[q] = at[q]
      /\ left' \in [Chain -> Nat] /\ left'[n] = total[p]
      /\ \A q \in Chain : q # n => left'[q] = left[q]
  <2>1. at \in [Chain -> WritePlaces] /\ left \in [Chain -> Nat] /\ total[p] \in Nat
    BY <1>0, Directions DEF IInv, Kinds
  <2> QED BY <1>n, <1>1, <2>1 DEF WritePlaces
<1>4. at[n] = "idle" /\ left[n] = 0 /\ (Fine => total[n] = 0)
  BY <1>n, <1>2 DEF WritePlace
<1>5. Kinds'
  <2>1. at' \in [Chain -> IF Reading' THEN ReadPlaces ELSE WritePlaces]
    BY <1>0, <1>3, Directions DEF Reading
  <2> QED BY <1>0, <1>3, <2>1 DEF IInv, Kinds
<1>6. Children'
  BY <1>0, StdoutKeeps
<1>c. ~(call.op = "close" /\ call.now = n) /\ (call.op = "close" => call.now <= n)
  <2> DEFINE m == call.now
  <2>1. m \in Nat /\ p \in Nat
    BY CallIs, ChainNat DEF IInv
  <2>2. call.op = "close" => m <= p
    BY <1>2
  <2> HIDE DEF m
  <2>3. m <= p => m # n /\ m <= n
    BY <1>n, <2>1
  <2>4. call.op = "close" => m # n /\ m <= n
    BY <2>2, <2>3
  <2> QED BY <2>4 DEF m
<1>7. Opened' /\ Closed' /\ Reader'
  <2>1. Opened'
    BY <1>0, <1>2 DEF IInv, Opened, Reading, Writing
  <2>2. Reader'
    BY <1>0, Directions DEF Reader, Reading
  <2>3. \A q \in Chain : q = call.now /\ at'[q] # "idle" /\ call.op = "close" => at[q] # "idle"
    BY <1>0, <1>3, <1>c
  <2>4. Closed'
    BY <1>0, <1>2, <2>3 DEF IInv, Closed, Behind, Reading, Writing
  <2> QED BY <2>1, <2>2, <2>4
<1>8. WriteStack'
  <2> SUFFICES ASSUME NEW r \in Chain, at'[r] # "idle"
               PROVE  /\ call.op = "write" \/ (call.op = "close" /\ call.now <= r)
                      /\ \A q \in Chain :
                           q < r /\ (call.op = "close" => call.now <= q) => at'[q] = "passing"
    BY <1>0 DEF WriteStack
  <2>1. CASE r = n
    <3>1. \A q \in Chain : q < p /\ (call.op = "close" => call.now <= q) => at[q] = "passing"
      BY <1>0, <1>2 DEF WriteStack
    <3>2. \A q \in Chain : q < p => q # p /\ q # n
      BY <1>n, ChainNat
    <3> QED BY <1>2, <1>3, <1>c, <1>n, <2>1, <3>1, <3>2
  <2>2. CASE r # n
    <3>1. at[r] # "idle"
      BY <1>0, <1>3, <2>2
    <3>2. \A q \in Chain : q < r => q # n
      <4>1. ~(p < r)
        BY <1>2, <3>1
      <4>2. p \in Nat /\ r \in Nat /\ n \in Nat
        BY <1>n, ChainNat
      <4> QED BY <4>1, <4>2, <1>n
    <3> QED BY <1>2, <1>3, <3>1, <3>2 DEF WriteStack
  <2> QED BY <2>1, <2>2
<1>9. Traced'
  <2>1. \A q \in Chain : at'[q] = "idle" => at[q] = "idle"
    BY <1>0, <1>3, <1>4
  <2>2. ASSUME NEW q \in Chain, q < Depth, at'[q] = "passing", at'[q + 1] = "idle"
        PROVE  answer[q + 1] # ""
    <3>1. q # p
      BY <1>3, <1>n, <2>2
    <3>2. at[q] = "passing" /\ at[q + 1] = "idle"
      <4>1. q + 1 \in Chain
        BY <2>2, ChainNat
      <4> QED BY <1>3, <2>1, <2>2, <3>1, <4>1
    <3> QED BY <1>2, <2>2, <3>2 DEF Traced
  <2>3. 1 \in Chain
    BY ChainNat
  <2> QED BY <1>0, <1>2, <2>1, <2>2, <2>3 DEF Traced
<1>10. Fine' <=> Fine
  BY <1>0 DEF Fine
<1>11. WriteFlow'
  <2> SUFFICES ASSUME Fine
               PROVE  /\ written[1] + left'[1] = Stream - source
                      /\ \A q \in Chain : Flow(q)'
    BY <1>0, <1>10 DEF WriteFlow, Flow
  <2>1. written[1] + left'[1] = Stream - source
    <3>1. left'[1] = left[1]
      BY <1>3, <1>n, ChainNat
    <3> QED BY <1>2, <3>1 DEF WriteFlow
  <2>2. ASSUME NEW q \in Chain PROVE Flow(q)'
    <3>1. Flow(q)
      BY <1>0, FlowIs
    <3>2. Onward(q)' = Onward(q)
      BY <1>0 DEF Onward
    <3>3. Underway(q)' = Underway(q)
      <4>1. CASE q = p
        BY <1>0, <1>3, <1>n, <4>1 DEF Underway
      <4>2. CASE q = n
        BY <1>0, <1>3, <1>4, <4>2 DEF Underway
      <4>3. CASE q # p /\ q # n
        <5>1. at[q] = "passing" => q + 1 # n
          <6>1. q \in Nat /\ p \in Nat
            BY ChainNat
          <6> QED BY <1>n, <4>3, <6>1
        <5>2. at[q] = "passing" => q + 1 \in Chain
          BY <1>2, ChainNat DEF WritePlace
        <5> QED BY <1>0, <1>3, <4>3, <5>1, <5>2 DEF Underway
      <4> QED BY <4>1, <4>2, <4>3
    <3> QED BY <1>0, <3>1, <3>2, <3>3 DEF Flow
  <2> QED BY <2>1, <2>2
<1>12. ASSUME NEW q \in Chain PROVE WritePlace(q)'
  <2>0. WritePlace(q) /\ (Closing(q)' <=> Closing(q)) /\ ~Closing(n)
    BY <1>0, <1>2, <1>c DEF Closing
  <2>1. CASE q = p
    BY <1>0, <1>3, <1>n, <2>0, <2>1 DEF WritePlace
  <2>2. CASE q = n
    BY <1>0, <1>3, <1>4, <1>10, <2>0, <2>2 DEF WritePlace
  <2>3. CASE q # p /\ q # n
    BY <1>0, <1>2, <1>3, <1>10, <2>3, SameWrite
  <2> QED BY <2>1, <2>2, <2>3
<1> QED BY <1>0, <1>5, <1>6, <1>7, <1>8, <1>9, <1>11, <1>12 DEF IInv, Writer, Writing

-----------------------------------------------------------------------------
(* The caller of a writer.                                                 *)

LEMMA GiveBytesKeeps == ASSUME IInv, GiveBytes PROVE IInv'
<1>0. /\ Writing /\ call.op = "none" /\ 1 \in Chain
      /\ UNCHANGED <<created, kid, child_stdout, written, taken, made, drained>>
      /\ UNCHANGED <<total, block, answer, direction, state, handed>>
  BY ChainNat DEF GiveBytes, childVars
<1>1. \A q \in Chain : at[q] = "idle"
  BY <1>0, IdleOutside
<1>2. PICK n \in 1..source : left' = [left EXCEPT ![1] = n] /\ source' = source - n
  BY DEF GiveBytes
<1>t. /\ source \in Nat /\ left \in [Chain -> Nat] /\ written[1] \in Nat /\ Stream \in Nat
      /\ at \in [Chain -> WritePlaces]
  BY <1>0, Directions, FilterAssumption DEF IInv, Kinds
<1>3. n \in Nat /\ source' \in Nat
  <2>1. source \in Nat
    BY <1>t
  <2> QED BY <1>2, <2>1
<1>4. /\ left' \in [Chain -> Nat] /\ left'[1] = n /\ \A q \in Chain : q # 1 => left'[q] = left[q]
  BY <1>0, <1>t, <1>2, <1>3
<1>5. /\ at' \in [Chain -> WritePlaces] /\ at'[1] = "write"
      /\ \A q \in Chain : q # 1 => at'[q] = "idle"
  BY <1>0, <1>1, <1>t DEF GiveBytes, Goes, WritePlaces
<1>6. call' \in Calls /\ call'.op = "write" /\ call'.reply = call.reply /\ call'.now = call.now
  <2>1. call \in Calls /\ call' = [call EXCEPT !.op = "write"]
    BY DEF IInv, Kinds, GiveBytes
  <2> QED BY <2>1 DEF Calls
<1>7. faulted' \in [any : BOOLEAN, late : Nat] /\ faulted'.any = faulted.any
  <2>1. faulted \in [any : BOOLEAN, late : Nat]
    BY DEF IInv, Kinds
  <2>2. faulted' = [faulted EXCEPT !.late = IF faulted.any THEN @ + 1 ELSE @]
    BY DEF GiveBytes
  <2> QED BY <2>1, <2>2
<1>8. Kinds'
  <2>1. at' \in [Chain -> IF Reading' THEN ReadPlaces ELSE WritePlaces]
    BY <1>0, <1>5, Directions DEF Reading
  <2> QED BY <1>0, <1>3, <1>4, <1>6, <1>7, <2>1 DEF IInv, Kinds
<1>9. Children'
  BY <1>0, StdoutKeeps
<1>10. Opened' /\ Closed' /\ Reader'
  BY <1>0, <1>6, Directions DEF IInv, Opened, Closed, Reader, Reading, Writing
<1>11. WriteStack'
  <2> SUFFICES ASSUME NEW r \in Chain, at'[r] # "idle"
               PROVE  \A q \in Chain : q < r => FALSE
    BY <1>6 DEF WriteStack
  <2>1. r = 1
    BY <1>5
  <2> QED BY <2>1, ChainNat
<1>12. Traced'
  BY <1>0, <1>5, <1>6, <1>7 DEF IInv, Writer, Traced
<1>13. Fine' <=> Fine
  BY <1>6, <1>7 DEF Fine
<1>14. WriteFlow'
  <2> SUFFICES ASSUME Fine
               PROVE  /\ written[1] + left'[1] = Stream - source'
                      /\ \A q \in Chain : Flow(q)'
    BY <1>0, <1>13 DEF WriteFlow, Flow
  <2>1. written[1] + left'[1] = Stream - source'
    <3>1. written[1] + left[1] = Stream - source /\ left[1] = 0
      BY <1>0, <1>1 DEF IInv, Writer, WriteFlow, WritePlace
    <3>2. written[1] + 0 = Stream - source
      BY <3>1
    <3>3. written[1] + n = Stream - (source - n)
      BY <1>t, <1>3, <3>2
    <3> QED BY <1>2, <1>4, <3>3
  <2>2. ASSUME NEW q \in Chain PROVE Flow(q)'
    <3>1. Flow(q) /\ at[q] = "idle" /\ at'[q] \in {"idle", "write"}
      BY <1>0, <1>1, <1>5, FlowIs
    <3>2. Onward(q)' = Onward(q) /\ Underway(q)' = Underway(q)
      BY <1>0, <3>1 DEF Onward, Underway
    <3> QED BY <1>0, <3>1, <3>2 DEF Flow
  <2> QED BY <2>1, <2>2
<1>15. ASSUME NEW q \in Chain PROVE WritePlace(q)'
  <2>1. WritePlace(q) /\ at[q] = "idle"
    BY <1>0, <1>1 DEF IInv, Writer
  <2>2. ~Closing(q)'
    BY <1>6 DEF Closing
  <2>3. CASE q = 1
    BY <1>0, <1>5, <1>13, <2>1, <2>2, <2>3 DEF WritePlace
  <2>4. CASE q # 1
    BY <1>0, <1>4, <1>5, <1>13, <2>1, <2>2, <2>4 DEF WritePlace
  <2> QED BY <2>3, <2>4
<1> QED BY <1>0, <1>8, <1>9, <1>10, <1>11, <1>12, <1>14, <1>15 DEF IInv, Writer, Writing

LEMMA BytesGivenKeeps == ASSUME IInv, BytesGiven PROVE IInv'
<1>0. /\ call.op = "write" /\ at[1] = "idle" /\ 1 \in Chain /\ 1 \in 0..Depth
      /\ UNCHANGED <<created, kid, child_stdout, written, taken, made, drained>>
      /\ UNCHANGED <<at, total, block, left, answer, direction, state, source, handed, faulted>>
  BY ChainNat DEF BytesGiven, childVars, frames
<1>1. Writing /\ ~Reading /\ WriteStack /\ Traced /\ WriteFlow /\ \A q \in Chain : WritePlace(q)
  BY <1>0, Directions DEF IInv, Opened, Writer
<1>2. \A q \in Chain : at[q] = "idle"
  <2> SUFFICES ASSUME NEW q \in Chain, at[q] # "idle" PROVE FALSE
    OBVIOUS
  <2>1. q # 1
    BY <1>0
  <2>2. 1 < q
    <3>1. q \in Nat /\ q > 0
      BY ChainNat
    <3> QED BY <2>1, <3>1
  <2> QED BY <1>0, <1>1, <2>2 DEF WriteStack
<1>3. answer[1] \in {"ok", "fatal"} /\ (answer[1] = "fatal" => faulted.any)
  <2>1. answer[1] \in {"", "ok", "eof", "fatal"}
    BY <1>0 DEF IInv, Kinds
  <2> QED BY <1>0, <1>1, <2>1 DEF Traced
<1>4. call' \in Calls /\ call'.op = "none" /\ call'.reply = answer[1]
  <2>1. call \in Calls /\ call' = [call EXCEPT !.op = "none", !.reply = answer[1]]
    BY DEF IInv, Kinds, BytesGiven, Replies
  <2> QED BY <1>3, <2>1 DEF Calls
<1>5. Fine' => Fine
  BY <1>0, <1>1 DEF Traced, Fine
<1>6. Kinds'
  BY <1>0, <1>4 DEF IInv, Kinds, Reading
<1>7. Children'
  BY <1>0, StdoutKeeps
<1>8. Opened' /\ Closed' /\ Reader'
  BY <1>0, <1>1, <1>4 DEF IInv, Opened, Closed, Reader, Reading, Writing
<1>9. WriteStack' /\ Traced'
  BY <1>0, <1>1, <1>2, <1>3, <1>4 DEF WriteStack, Traced
<1>10. WriteFlow'
  BY <1>0, <1>1, <1>5 DEF WriteFlow, Onward, Underway
<1>11. \A q \in Chain : WritePlace(q)'
  BY <1>0, <1>1, <1>2, <1>5 DEF WritePlace
<1> QED BY <1>0, <1>1, <1>6, <1>7, <1>8, <1>9, <1>10, <1>11 DEF IInv, Writer

-----------------------------------------------------------------------------
(* The invariant.                                                          *)

LEMMA InitIInv == Init => IInv
<1> SUFFICES ASSUME Init PROVE IInv
  OBVIOUS
<1>0. /\ direction \in {"read", "write"} /\ created = {} /\ kid = [p \in Chain |-> NoKid]
      /\ child_stdout = [p \in Chain |-> "closed"]
      /\ written = [p \in Chain |-> 0] /\ taken = [p \in Chain |-> 0]
      /\ made = [p \in Chain |-> 0] /\ drained = [p \in Chain |-> 0]
      /\ at = [p \in Chain |-> "idle"] /\ total = [p \in Chain |-> 0]
      /\ block = [p \in 0..Depth |-> 0] /\ left = [p \in Chain |-> 0]
      /\ answer = [p \in 0..Depth |-> ""] /\ state = [p \in Chain |-> "new"]
      /\ source = Stream /\ handed = 0 /\ faulted = [any |-> FALSE, late |-> 0]
  BY DEF Init, ChildInit
<1>1. PICK m \in {1, Depth} : /\ call = [op |-> "open", reply |-> "", now |-> m]
                              /\ Reading => m = 1
                              /\ Writing => m = Depth
  BY DEF Init, Reading, Writing
<1>m. m \in {1, Depth} /\ (Reading => m = 1) /\ (Writing => m = Depth)
  BY <1>1
<1>2. m \in Chain /\ m \in 0..(Depth + 1)
  <2>1. {1, Depth} \subseteq Chain /\ {1, Depth} \subseteq 0..(Depth + 1)
    BY ChainNat
  <2> QED BY <1>m, <2>1
<1>3. /\ call \in Calls /\ call.op = "open" /\ call.reply = "" /\ call.now = m
  BY <1>1, <1>2 DEF Calls
<1>4. NoKid \in Programs /\ NoKid.at = "none" /\ NoKid.mute = FALSE /\ NoKid.status = "none"
  BY DEF NoKid, Programs
<1> HIDE DEF NoKid
<1>5. Stream \in Nat
  BY FilterAssumption
<1>6. Kinds
  BY <1>0, <1>3, <1>4, <1>5 DEF Kinds, ReadPlaces, WritePlaces
<1>7. \A p \in Chain : /\ drained[p] = 0 /\ made[p] = 0 /\ total[p] = 0 /\ left[p] = 0
                       /\ block[p] = 0 /\ Onward(p) = 0 /\ Underway(p) = 0 /\ written[p] = 0
  <2> SUFFICES ASSUME NEW p \in Chain
               PROVE  /\ drained[p] = 0 /\ made[p] = 0 /\ total[p] = 0 /\ left[p] = 0
                      /\ block[p] = 0 /\ Onward(p) = 0 /\ Underway(p) = 0 /\ written[p] = 0
    OBVIOUS
  <2>1. p \in 0..Depth /\ (p < Depth => p + 1 \in Chain)
    BY ChainNat
  <2>2. Onward(p) = 0
    BY <1>0, <2>1 DEF Onward
  <2>3. Underway(p) = 0
    BY <1>0 DEF Underway
  <2> QED BY <1>0, <2>1, <2>2, <2>3
<1>8. \A p \in Chain : /\ at[p] = "idle" /\ answer[p] = "" /\ kid[p] = NoKid /\ state[p] = "new"
                       /\ p \notin created
  BY <1>0, ChainNat
<1>9. Children
  <2>1. \A p \in Chain : drained[p] <= made[p]
    BY <1>7
  <2>2. \A p \in Chain : /\ kid[p].at = "none" /\ kid[p].mute = FALSE /\ kid[p].status = "none"
                        /\ p \notin created /\ state[p] = "new"
    BY <1>4, <1>8
  <2> QED BY <2>1, <2>2 DEF Children
<1>10. Opened
  <2>1. \A p \in Chain : ~(IF Reading THEN p < m ELSE p > m)
    <3>1. \A p \in Chain : ~(p < 1) /\ ~(p > Depth)
      BY ChainNat
    <3>2. CASE Reading
      <4>1. m = 1
        BY <1>m, <3>2
      <4> QED BY <3>1, <3>2, <4>1
    <3>3. CASE ~Reading
      <4>1. m = Depth
        BY <1>0, <1>m, <3>3 DEF Reading, Writing
      <4> QED BY <3>1, <3>3, <4>1
    <3> QED BY <3>2, <3>3
  <2> QED BY <1>2, <1>3, <1>8, <2>1 DEF Opened
<1>11. Closed
  BY <1>3 DEF Closed
<1>z. 0 = 0 + 0 + 0 /\ 0 + 0 = Stream - Stream
  BY <1>5
<1>12. Reader
  <2>1. \A p \in Chain : ReadFlow(p)
    BY <1>7, <1>z DEF ReadFlow
  <2> QED BY <1>3, <1>7, <1>8, <2>1 DEF Reader, ReadStack, ReadEnd, ReadPlace, ReadOver
<1>13. Writer
  <2>1. WriteStack /\ Traced /\ \A p \in Chain : WritePlace(p)
    BY <1>3, <1>7, <1>8 DEF WriteStack, Traced, WritePlace
  <2>2. WriteFlow
    <3>1. written[1] + left[1] = Stream - source
      <4>1. written[1] = 0 /\ left[1] = 0 /\ source = Stream
        BY <1>0, <1>7, ChainNat
      <4> QED BY <1>z, <4>1
    <3>2. \A p \in Chain : drained[p] = Onward(p) + block[p] + Underway(p)
      BY <1>7, <1>z
    <3> QED BY <3>1, <3>2 DEF WriteFlow
  <2> QED BY <2>1, <2>2 DEF Writer
<1> QED BY <1>6, <1>9, <1>10, <1>11, <1>12, <1>13 DEF IInv

LEMMA StutterKeeps == ASSUME IInv, UNCHANGED vars PROVE IInv'
<1>0. /\ UNCHANGED <<created, kid, child_stdin, child_stdout, written, taken, made, drained>>
      /\ UNCHANGED <<at, total, block, left, answer>>
      /\ UNCHANGED <<direction, state, call, source, handed, faulted>>
  BY DEF vars, childVars, frames, outer
<1>k. (Reading' <=> Reading) /\ (Writing' <=> Writing)
  BY <1>0 DEF Reading, Writing
<1>1. Kinds'
  BY <1>0 DEF IInv, Kinds, Reading
<1>2. Children'
  BY <1>0, StdoutKeeps
<1>3. Opened'
  BY <1>0 DEF IInv, Opened, Reading, Writing
<1>4. Closed'
  BY <1>0 DEF IInv, Closed, Behind, Reading, Writing
<1>5. \A p \in Chain : /\ Onward(p)' = Onward(p) /\ Underway(p)' = Underway(p)
                       /\ (Silent(p)' <=> Silent(p)) /\ (Over(p)' <=> Over(p))
                       /\ (Closing(p)' <=> Closing(p))
  BY <1>0 DEF Onward, Underway, Silent, Over, OutputEnded, Lives, Closing
<1>6. Reader'
  <2>1. Reading => ReadStack' /\ ReadEnd'
    BY <1>0 DEF IInv, Reader, ReadStack, ReadEnd, Over
  <2>2. ASSUME Reading, NEW p \in Chain PROVE ReadPlace(p)' /\ ReadOver(p)' /\ ReadFlow(p)'
    <3>1. ReadPlace(p) /\ ReadOver(p) /\ ReadFlow(p)
      BY <2>2 DEF IInv, Reader
    <3>2. ReadPlace(p)'
      BY <1>0, <1>5, <3>1 DEF ReadPlace
    <3>3. ReadOver(p)'
      BY <1>0, <1>5, <3>1 DEF ReadOver
    <3>4. ReadFlow(p)'
      BY <1>0, <1>5, <3>1 DEF ReadFlow
    <3> QED BY <3>2, <3>3, <3>4
  <2> QED BY <1>k, <2>1, <2>2 DEF Reader
<1>7. Writer'
  <2>1. Writing => WriteStack' /\ Traced'
    BY <1>0 DEF IInv, Writer, WriteStack, Traced
  <2>2. Writing => WriteFlow'
    BY <1>0, <1>5 DEF IInv, Writer, WriteFlow, Fine
  <2>3. ASSUME Writing, NEW p \in Chain PROVE WritePlace(p)'
    <3>1. WritePlace(p)
      BY <2>3 DEF IInv, Writer
    <3> QED BY <1>0, <1>5, <3>1 DEF WritePlace, Fine
  <2> QED BY <1>k, <2>1, <2>2, <2>3 DEF Writer
<1> QED BY <1>1, <1>2, <1>3, <1>4, <1>6, <1>7 DEF IInv

LEMMA NextIInv == ASSUME IInv, [Next]_vars PROVE IInv'
<1>1. CASE Launch
  BY <1>1, LaunchKeeps
<1>2. CASE LaunchFails
  BY <1>2, LaunchFailsKeeps
<1>3. CASE ReadSource
  BY <1>3, ReadSourceKeeps
<1>4. CASE BeginClose
  BY <1>4, BeginCloseKeeps
<1>5. CASE CloseReturns
  BY <1>5, CloseReturnsKeeps
<1>6. CASE GetBlock
  BY <1>6, GetBlockKeeps
<1>7. CASE BytesGiven
  BY <1>7, BytesGivenKeeps
<1>8. ASSUME NEW p \in Chain,
             \/ BeginRead(p) \/ ReadOutput(p) \/ OutputOver(p) \/ NothingYet(p)
             \/ InputOver(p) \/ InputRefused(p) \/ Feed(p) \/ Poll(p) \/ Stop(p)
             \/ StopInRead(p)
      PROVE  IInv'
  BY <1>8, Directions, BeginReadKeeps, ReadOutputKeeps, OutputOverKeeps, NothingYetKeeps,
     InputOverKeeps, InputRefusedKeeps, FeedKeeps, ReadPollKeeps, WritePollKeeps,
     ReadStopKeeps, WriteStopKeeps, StopInReadKeeps
<1>9. ASSUME NEW p \in Chain,
             \/ WriteDone(p) \/ WriteInput(p) \/ WriteRefused(p)
             \/ WriteStuck(p) \/ DrainOver(p) \/ DrainWaits(p) \/ DrainSome(p)
             \/ PassToClient(p) \/ PassDown(p) \/ PassReturns(p)
             \/ FinishOver(p) \/ StopInClose(p)
      PROVE  IInv'
  BY <1>9, WriteDoneKeeps, WriteInputKeeps, WriteRefusedKeeps, WriteStuckKeeps, DrainOverKeeps,
     DrainWaitsKeeps, DrainSomeKeeps, PassToClientKeeps, PassDownKeeps, PassReturnsKeeps,
     FinishOverKeeps, StopInCloseKeeps
<1>10. CASE AskBlock \/ GiveBytes \/ AskClose
  BY <1>10, AskBlockKeeps, GiveBytesKeeps, AskCloseKeeps
<1>11. ASSUME NEW p \in Chain, Works(p) \/ Dies(p) PROVE IInv'
  BY <1>11, ChildKeeps
<1>12. CASE UNCHANGED vars
  BY <1>12, StutterKeeps
<1>13. CASE Library
  BY <1>1, <1>2, <1>3, <1>4, <1>5, <1>6, <1>7, <1>8, <1>9, <1>13 DEF Library
<1> QED BY <1>10, <1>11, <1>12, <1>13 DEF Next, Caller

LEMMA Invariance == Spec => []IInv
<1>1. IInv /\ [Next]_vars => IInv'
  BY NextIInv
<1> QED BY <1>1, InitIInv, PTL DEF Spec

LEMMA ConservedHolds == ASSUME IInv PROVE Conserved
<1> SUFFICES ASSUME NEW p \in Chain
             PROVE  \/ IF Reading THEN answer[p] = "fatal" ELSE faulted.any \/ call.reply = "fatal"
                    \/ drained[p] = Onward(p) + block[p] + Underway(p)
  BY DEF Conserved
<1>1. CASE Reading
  <2>1. at[p] # "passing"
    BY <1>1 DEF IInv, Kinds, ReadPlaces
  <2>2. Underway(p) = total[p] /\ ReadFlow(p)
    BY <1>1, <2>1 DEF Underway, IInv, Reader
  <2> QED BY <1>1, <2>2 DEF ReadFlow
<1>2. CASE Writing
  <2>1. WriteFlow /\ ~Reading
    BY <1>2, Directions DEF IInv, Writer
  <2> QED BY <2>1 DEF WriteFlow, Fine
<1> QED BY <1>1, <1>2, Directions

(* Every byte drained from a program is in one place until something       *)
(* fails, for chains of any length (child_read, child_write).              *)
THEOREM BytesConserved == Spec => []Conserved
BY Invariance, ConservedHolds, PTL

(* When a close has returned, all filters are behind it.                   *)
LEMMA AllBehind ==
  ASSUME IInv, call.op = "closed", NEW p \in Chain
  PROVE  Behind(p)
<1> DEFINE m == call.now
<1>1. /\ m \in Nat /\ m <= Depth + 1 /\ m \notin Chain
      /\ (Reading => m <= Depth) /\ (Writing => m > 0)
  BY CallIs DEF IInv, Closed
<1>2. p \in Nat /\ p > 0 /\ p <= Depth /\ Depth \in Nat
  BY ChainNat
<1> HIDE DEF m
<1>3. m = 0 \/ m > Depth
  BY <1>1, <1>2 DEF Chain
<1>4. CASE Reading
  <2>1. m <= Depth
    BY <1>1, <1>4
  <2>2. m < p
    BY <1>1, <1>2, <1>3, <2>1
  <2> QED BY <1>4, <2>2 DEF Behind, m
<1>5. CASE Writing
  <2>1. m > 0 /\ ~Reading
    BY <1>1, <1>5, Directions
  <2>2. p < m
    BY <1>1, <1>2, <1>3, <2>1
  <2> QED BY <2>1, <2>2 DEF Behind, m
<1> QED BY <1>4, <1>5, Directions

LEMMA EndHolds == ASSUME IInv PROVE EndMeansAll
<1>1. Reading /\ call.reply = "eof" => handed = made[Depth] /\ kid[Depth].status = "ok"
  BY DEF IInv, Reader, ReadEnd, Over
<1>2. ASSUME call.op = "closed"
      PROVE  /\ \A p \in created : kid[p].at = "reaped"
             /\ call.reply = "ok" => \A p \in Chain : kid[p].status \in {"ok", "sigpipe"}
             /\ Writing /\ call.reply = "ok" /\ ~faulted.any =>
                  /\ handed = made[Depth] /\ written[1] = Stream - source
                  /\ \A p \in Chain : kid[p].status = "ok" /\ drained[p] = made[p]
  <2>1. \A p \in Chain : state[p] # "open"
    BY <1>2, AllBehind DEF IInv, Closed
  <2>2. \A p \in created : kid[p].at = "reaped"
    BY <2>1 DEF IInv, Kinds, Children
  <2>3. call.reply = "ok" =>
          \A p \in Chain : /\ kid[p].status \in {"ok", "sigpipe"}
                           /\ Writing => kid[p].status = "ok"
                           /\ Writing /\ ~faulted.any => drained[p] = made[p]
    BY <1>2, <2>1 DEF IInv, Closed
  <2>4. ASSUME Writing, call.reply = "ok", ~faulted.any
        PROVE  handed = made[Depth] /\ written[1] = Stream - source
    <3>1. Depth \in Chain /\ 1 \in Chain /\ ~(Depth < Depth) /\ Fine
      BY <2>4, ChainNat DEF Fine
    <3>2. /\ at[Depth] = "idle" /\ at[1] = "idle" /\ total[Depth] = 0 /\ left[1] = 0
      BY <1>2, <2>4, <3>1, IdleOutside DEF IInv, Writer, WritePlace
    <3>3. Onward(Depth) = handed /\ Underway(Depth) = 0
      BY <3>1, <3>2 DEF Onward, Underway
    <3>4. drained[Depth] = made[Depth] /\ drained[Depth] = handed + 0
      BY <2>3, <2>4, <3>1, <3>3, FlowIs
    <3>5. handed = handed + 0
      <4>1. handed \in Nat
        BY DEF IInv, Kinds
      <4> QED BY <4>1
    <3>6. written[1] + 0 = Stream - source
      BY <2>4, <3>1, <3>2 DEF IInv, Writer, WriteFlow
    <3>7. written[1] = written[1] + 0
      <4>1. written[1] \in Nat
        BY <3>1 DEF IInv, Kinds
      <4> QED BY <4>1
    <3> QED BY <3>4, <3>5, <3>6, <3>7
  <2> QED BY <2>2, <2>3, <2>4
<1> QED BY <1>1, <1>2 DEF EndMeansAll

(* An end of the stream and a close that is OK are what they say, for      *)
(* every way programs end (child_stop, __archive_write_program_close).     *)
THEOREM EndIsTrue == Spec => []EndMeansAll
BY Invariance, EndHolds, PTL

=============================================================================
