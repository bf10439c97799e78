------------------------- MODULE WriteArchiveProofs -------------------------
(***************************************************************************)
(* The client's callbacks are paired and their failures reported, and what *)
(* is written reaches the client: proofs of OpenerMatched, ErrorsReported, *)
(* Blocked, Delivered, EntryFramed, ClosedComplete and TypeOK, for every   *)
(* chain, setting, block size, record size and order of calls and failures.*)
(*                                                                         *)
(* OpenerMatched speaks of the states between calls.  Its strengthening    *)
(* says who owes a call of the closer or the freer in every state: an open *)
(* client filter owes a closer and one that exists a freer, and a call in  *)
(* progress is at a stage that agrees with the filter.                     *)
(*                                                                         *)
(* The argument about delivery follows the bytes.  The client filter keeps *)
(* what it has been fed with the client or in the copy buffer (Buffering)  *)
(* and gives it out in blocks (WholeBlocks) of which the last is padded    *)
(* (LastGiven); the encoder keeps what the format has put out in its lines *)
(* (Keeping); the format keeps the entries in whole records (Framing); and *)
(* a close that answers OK has run through all three (Closing).  Which     *)
(* filter is open at which stage of a call (Chain) and what the variables  *)
(* can hold (ClientKinds, ArchiveKinds) come first.                        *)
(***************************************************************************)
EXTENDS WriteArchive, TLAPS

(* A call in progress is a record with these fields, whatever they hold.   *)
InProgress(c) ==
  c = [op |-> c.op, stage |-> c.stage, todo |-> c.todo, ret |-> c.ret, entry |-> c.entry]

Counted == opens \in Nat /\ opened \in Nat /\ closes \in Nat /\ frees \in Nat

Owed ==
  /\ opened = closes + (IF client = "open" THEN 1 ELSE 0)
  /\ state \notin {"freed", "abandoned"} =>
       opens = frees + (IF client = "none" THEN 0 ELSE 1)
  /\ state \in {"freed", "abandoned"} => frees = opens

Agrees ==
  /\ call # Idle => InProgress(call)
  /\ state \in {"new", "freed", "abandoned"} => call = Idle
  /\ state = "new" => client = "none"
  /\ state \in {"closed", "freed"} => client # "open"
  /\ call # Idle => /\ call.stage = "client" => client = "open"
                    /\ call.stage = "free" => client # "open"

Pairing == Counted /\ Owed /\ Agrees

(* What Pairing speaks of.                                                 *)
pairVars == <<state, call, client, opens, opened, closes, frees>>

-----------------------------------------------------------------------------

LEMMA PairingImplies == Pairing => OpenerMatched
  BY DEF Pairing, Counted, Owed, Agrees, OpenerMatched

LEMMA PairingInit == Init => Pairing
  BY DEF Init, ClientInit, Pairing, Counted, Owed, Agrees, Idle

LEMMA PairingStutters == Pairing /\ UNCHANGED pairVars => Pairing'
  BY DEF pairVars, Pairing, Counted, Owed, Agrees, InProgress

(* A call begins when none is in progress, and never in a state in which   *)
(* nothing may be in progress.                                             *)
LEMMA Beginning ==
  ASSUME Pairing, Ready, state # "new", NEW op, NEW stage, NEW todo, NEW entry,
         stage \notin {"client", "free"}, Begins(op, stage, todo, entry),
         UNCHANGED <<state, client, clientCalls>>
  PROVE  Pairing'
<1>1. call' = [op |-> op, stage |-> stage, todo |-> todo, ret |-> OK, entry |-> entry]
  BY DEF Begins
<1>2. InProgress(call)' /\ call'.stage = stage
  BY <1>1 DEF InProgress
<1>3. Counted' /\ Owed'
  BY DEF Pairing, Counted, Owed, clientCalls
<1>4. Agrees'
  BY <1>2 DEF Pairing, Agrees, Ready
<1> QED BY <1>3, <1>4 DEF Pairing

(* A call in progress goes to another stage, or does more of this one.     *)
LEMMA GoingOn ==
  ASSUME Pairing, call # Idle, NEW stage, NEW todo, NEW ret,
         call' = [op |-> call.op, stage |-> stage, todo |-> todo, ret |-> ret,
                  entry |-> call.entry],
         UNCHANGED <<opens, opened, closes, frees, client>>,
         state' \in {state, "header"},
         stage = "client" => client = "open", stage = "free" => client # "open"
  PROVE  Pairing'
<1>1. InProgress(call) /\ state \notin {"new", "freed", "abandoned"}
  BY DEF Pairing, Agrees
<1>2. InProgress(call)' /\ call'.stage = stage
  BY DEF InProgress
<1>3. Counted' /\ Owed'
  BY <1>1 DEF Pairing, Counted, Owed
<1>4. Agrees'
  BY <1>1, <1>2 DEF Pairing, Agrees
<1> QED BY <1>3, <1>4 DEF Pairing

(* A call returns and leaves a state in which the client may be open.      *)
LEMMA Returning ==
  ASSUME Pairing, call' = Idle, UNCHANGED <<opens, opened, closes, frees, client>>,
         state \notin {"freed", "abandoned"},
         state' \in {state, "header", "data", "fatal", "crashed"}
  PROVE  Pairing'
  BY DEF Pairing, Counted, Owed, Agrees

-----------------------------------------------------------------------------
(* The calls of the API.                                                   *)

LEMMA OpenPairs == Pairing /\ Open => Pairing'
<1> SUFFICES ASSUME Pairing, Open PROVE Pairing'
  OBVIOUS
<1>1. /\ call = Idle /\ state = "new" /\ client = "none" /\ opened = closes /\ opens = frees
      /\ Counted
  BY DEF Open, Ready, Pairing, Counted, Owed, Agrees
<1>2. opens' = opens + 1 /\ call' = Idle
  BY <1>1 DEF Open, OpenFails, Returns
<1>3. ASSUME NEW o \in {0, 1}, OpenFails(o, o) PROVE Pairing'
  BY <1>1, <1>2, <1>3 DEF OpenFails, Pairing, Counted, Owed, Agrees
<1>4. CASE /\ client' = "open" /\ opened' = opened + 1 /\ state' = "header"
           /\ UNCHANGED <<closes, frees>>
  BY <1>1, <1>2, <1>4 DEF Pairing, Counted, Owed, Agrees
<1>5. \/ OpenFails(0, 0) \/ OpenFails(1, 1)
      \/ client' = "open" /\ opened' = opened + 1 /\ state' = "header" /\ UNCHANGED <<closes, frees>>
  BY DEF Open
<1> QED BY <1>3, <1>4, <1>5

(* A free: what the filters are is freed, and no state but a fatal one     *)
(* leaves the client open.                                                 *)
LEMMA FreedPairs ==
  ASSUME Pairing, Freed, call' = Idle, UNCHANGED <<opens, opened, closes, client>>,
         state \notin {"freed", "abandoned"}, state # "fatal" => client # "open"
  PROVE  Pairing'
  BY DEF Freed, Pairing, Counted, Owed, Agrees

LEMMA CallsPair == Pairing /\ Calls => Pairing'
<1> SUFFICES ASSUME Pairing, Calls PROVE Pairing'
  OBVIOUS
<1>1. CASE Refuse
  <2>1. /\ call = Idle /\ call' = Idle /\ state' = "fatal"
        /\ state \notin {"freed", "abandoned"}
        /\ UNCHANGED <<opens, opened, closes, frees, client>>
    BY <1>1 DEF Refuse, Ready, Returns, clientCalls
  <2> QED BY <2>1, Returning
<1>2. CASE SetLastBlock
  BY <1>2, PairingStutters DEF SetLastBlock, Returns, clientCalls, pairVars
<1>3. CASE Fail
  <2>1. /\ call' = Idle /\ state' = "fatal" /\ state \notin {"freed", "abandoned"}
        /\ UNCHANGED <<opens, opened, closes, frees, client>>
    BY <1>3 DEF Fail, Ready, clientCalls
  <2> QED BY <2>1, Returning
<1>4. CASE Open
  BY <1>4, OpenPairs
<1>5. ASSUME NEW e \in Entries, HeaderBegins(e) PROVE Pairing'
  <2>1. CASE format
    BY <1>5, <2>1, Beginning DEF HeaderBegins, Allowed
  <2>2. CASE ~format
    <3>1. /\ call' = Idle /\ state' = "fatal" /\ state \notin {"freed", "abandoned"}
          /\ UNCHANGED <<opens, opened, closes, frees, client>>
      BY <1>5, <2>2 DEF HeaderBegins, Ready, Returns, clientCalls
    <3> QED BY <3>1, Returning
  <2> QED BY <2>1, <2>2
<1>6. CASE FinishBegins
  BY <1>6, Beginning DEF FinishBegins, Allowed
<1>7. ASSUME NEW s \in Amounts, DataBegins(s) PROVE Pairing'
  BY <1>7, Beginning DEF DataBegins, Allowed
<1>8. ASSUME NEW op, CloseBegins(op) PROVE Pairing'
  BY <1>8, Beginning DEF CloseBegins
<1>9. CASE CloseNothing
  BY <1>9, PairingStutters DEF CloseNothing, Returns, clientCalls, pairVars
<1>10. CASE FreeOnly
  <2>1. /\ Freed /\ call' = Idle /\ UNCHANGED <<opens, opened, closes, client>>
        /\ state \in {"new", "closed", "fatal"}
    BY <1>10 DEF FreeOnly, Ready, Returns
  <2>2. state # "fatal" => client # "open"
    BY <2>1 DEF Pairing, Agrees
  <2> QED BY <2>1, <2>2, FreedPairs
<1> QED BY <1>1, <1>2, <1>3, <1>4, <1>5, <1>6, <1>7, <1>8, <1>9, <1>10 DEF Calls

-----------------------------------------------------------------------------
(* The stages of a call in progress.                                       *)

LEMMA Dying ==
  ASSUME Pairing, call # Idle, Dies, UNCHANGED <<clientCalls, client>>
  PROVE  Pairing'
<1>1. /\ call' = Idle /\ state' = "fatal" /\ state \notin {"freed", "abandoned"}
      /\ UNCHANGED <<opens, opened, closes, frees, client>>
  BY DEF Dies, Ends, Pairing, Agrees, clientCalls
<1> QED BY <1>1, Returning

(* A call ends in a state of an archive that is open.                      *)
LEMMA Ending ==
  ASSUME Pairing, call # Idle, NEW op, NEW code, Ends(op, code),
         state' \in {state, "header", "data"}, UNCHANGED <<clientCalls, client>>
  PROVE  Pairing'
<1>1. /\ call' = Idle /\ state \notin {"freed", "abandoned"}
      /\ UNCHANGED <<opens, opened, closes, frees, client>>
  BY DEF Ends, Pairing, Agrees, clientCalls
<1> QED BY <1>1, Returning

LEMMA Going ==
  ASSUME Pairing, call # Idle, NEW stage, NEW todo, Goes(stage, todo),
         UNCHANGED <<state, clientCalls, client>>,
         stage = "client" => client = "open", stage # "free"
  PROVE  Pairing'
<1>1. UNCHANGED <<opens, opened, closes, frees>>
  BY DEF clientCalls
<1>2. call' = [op |-> call.op, stage |-> stage, todo |-> todo, ret |-> Worst,
               entry |-> call.entry]
  BY DEF Goes, Pairing, Agrees, InProgress
<1> QED BY <1>1, <1>2, GoingOn

LEMMA PutPairs == Pairing /\ Put => Pairing'
<1> SUFFICES ASSUME Pairing, Put PROVE Pairing'
  OBVIOUS
<1>1. /\ call # Idle /\ InProgress(call) /\ state \notin {"new", "freed", "abandoned"}
      /\ UNCHANGED <<opens, opened, closes, frees, client>>
  BY DEF Put, Pairing, Agrees, clientCalls
<1>2. CASE state' = "crashed" /\ call' = Idle
  BY <1>1, <1>2, Returning
<1>3. CASE UNCHANGED <<state, call>>
  BY <1>1, <1>3, PairingStutters DEF pairVars
<1>4. ASSUME NEW n, call' = [call EXCEPT !.todo = @ - n], UNCHANGED state
      PROVE  Pairing'
  <2>1. call' = [op |-> call.op, stage |-> call.stage, todo |-> call.todo - n,
                 ret |-> call.ret, entry |-> call.entry]
    BY <1>1, <1>4 DEF InProgress
  <2>2. /\ call.stage = "client" => client = "open"
        /\ call.stage = "free" => client # "open"
    BY <1>1 DEF Pairing, Agrees
  <2> QED BY <1>1, <1>4, <2>1, <2>2, GoingOn
<1>5. \/ state' = "crashed" /\ call' = Idle
      \/ UNCHANGED <<state, call>>
      \/ \E n : call' = [call EXCEPT !.todo = @ - n] /\ UNCHANGED state
  BY DEF Put
<1> QED BY <1>2, <1>3, <1>4, <1>5

LEMMA HeaderFinishesEntryPairs == Pairing /\ HeaderFinishesEntry => Pairing'
<1> SUFFICES ASSUME Pairing, HeaderFinishesEntry PROVE Pairing'
  OBVIOUS
<1>1. /\ call # Idle /\ InProgress(call) /\ call.stage = "finish"
      /\ UNCHANGED <<clientCalls, client>> /\ UNCHANGED <<opens, opened, closes, frees>>
  BY DEF HeaderFinishesEntry, StageOver, Pairing, Agrees, clientCalls
<1>2. CASE Dies
  BY <1>1, <1>2, Dying
<1>3. CASE state' = "header" /\ Ends("header", FAILED)
  BY <1>1, <1>3, Ending
<1>4. CASE state' = "header" /\ call' = [call EXCEPT !.stage = "header", !.todo = Record]
  <2>1. call' = [op |-> call.op, stage |-> "header", todo |-> Record, ret |-> call.ret,
                 entry |-> call.entry]
    BY <1>1, <1>4 DEF InProgress
  <2> QED BY <1>1, <1>4, <2>1, GoingOn
<1> QED BY <1>2, <1>3, <1>4 DEF HeaderFinishesEntry

(* The closer is called: what the filter owed is paid.                     *)
LEMMA CloseEndsPairs == Pairing /\ CloseEnds => Pairing'
<1> SUFFICES ASSUME Pairing, CloseEnds PROVE Pairing'
  OBVIOUS
<1>1. /\ call # Idle /\ InProgress(call) /\ state \notin {"new", "freed", "abandoned"}
      /\ UNCHANGED <<opens, opened, frees>>
  BY DEF CloseEnds, AtFilters, Pairing, Agrees
<1>2. /\ client' # "open" /\ (client' = "none" <=> client = "none")
      /\ closes' = closes + (IF client = "open" THEN 1 ELSE 0)
  <2>1. CASE AtFilters("filters") /\ client # "open" /\ UNCHANGED <<client, closes>>
    BY <2>1 DEF Pairing, Counted
  <2>2. CASE /\ call.stage = "client" /\ closes' = closes + 1
             /\ client' = IF got = OK THEN "closed" ELSE "fatal"
    BY <1>1, <2>2 DEF Pairing, Agrees
  <2> QED BY <2>1, <2>2 DEF CloseEnds
<1>3. state' \in {"closed", "fatal"}
  BY DEF CloseEnds
<1>4. Counted' /\ Owed'
  BY <1>1, <1>2, <1>3 DEF Pairing, Counted, Owed
<1>5. \/ call' = Idle
      \/ call' = [op |-> call.op, stage |-> "free", todo |-> call.todo, ret |-> Worst,
                  entry |-> call.entry]
  BY <1>1 DEF CloseEnds, Ends, InProgress
<1>6. Agrees'
  BY <1>2, <1>3, <1>5 DEF Agrees, InProgress
<1> QED BY <1>4, <1>6 DEF Pairing

LEMMA RunsPair == Pairing /\ Runs => Pairing'
<1> SUFFICES ASSUME Pairing, Runs PROVE Pairing'
  OBVIOUS
<1>1. CASE Put
  BY <1>1, PutPairs
<1>2. CASE PutEncoded
  BY <1>2, PairingStutters DEF PutEncoded, clientCalls, pairVars
<1>3. CASE ClientSteps
  BY <1>3, PairingStutters DEF ClientSteps, clientCalls, pairVars
<1>4. CASE HeaderFinishesEntry
  BY <1>4, HeaderFinishesEntryPairs
<1>5. CASE HeaderEnds
  <2>1. call # Idle /\ UNCHANGED <<clientCalls, client>>
    BY <1>5 DEF HeaderEnds, StageOver
  <2>2. Dies \/ (state' = "data" /\ \E code : Ends("header", code))
    BY <1>5 DEF HeaderEnds
  <2> QED BY <2>1, <2>2, Dying, Ending
<1>6. CASE FinishEnds
  <2>1. call # Idle /\ UNCHANGED <<clientCalls, client>>
    BY <1>6 DEF FinishEnds, StageOver
  <2>2. Dies \/ (state' = "header" /\ Ends("finish", OK))
    BY <1>6 DEF FinishEnds
  <2> QED BY <2>1, <2>2, Dying, Ending
<1>7. CASE DataEnds
  <2>1. call # Idle /\ UNCHANGED <<clientCalls, client>>
    BY <1>7 DEF DataEnds, StageOver
  <2>2. Dies \/ (Ends("data", OK) /\ UNCHANGED state)
    BY <1>7 DEF DataEnds
  <2> QED BY <2>1, <2>2, Dying, Ending
<1>8. CASE CloseFinishesEntry
  <2>1. /\ call # Idle /\ UNCHANGED <<state, clientCalls, client>>
        /\ Goes("trailer", IF format THEN 2 * Record ELSE 0)
    BY <1>8 DEF CloseFinishesEntry, StageOver
  <2> QED BY <2>1, Going
<1>9. CASE TrailerEnds
  <2>1. call # Idle /\ UNCHANGED <<state, clientCalls, client>> /\ Goes("filters", 0)
    BY <1>9 DEF TrailerEnds, StageOver
  <2> QED BY <2>1, Going
<1>10. CASE EncoderCloses
  <2>1. call # Idle /\ UNCHANGED <<state, clientCalls, client>> /\ Goes("encoder", 0)
    BY <1>10 DEF EncoderCloses, AtFilters
  <2> QED BY <2>1, Going
<1>11. CASE EncoderClosed
  <2>1. call # Idle /\ UNCHANGED <<state, clientCalls, client>> /\ Goes("filters", 0)
    BY <1>11 DEF EncoderClosed, AtFilters
  <2> QED BY <2>1, Going
<1>12. CASE ClientCloses
  <2>1. /\ call # Idle /\ UNCHANGED <<state, clientCalls, client>>
        /\ Goes("client", 0) /\ client = "open"
    BY <1>12 DEF ClientCloses, AtFilters
  <2> QED BY <2>1, Going
<1>13. CASE CloseEnds
  BY <1>13, CloseEndsPairs
<1>14. CASE FreeEnds
  <2>1. /\ call # Idle /\ call.stage = "free" /\ Freed /\ call' = Idle
        /\ UNCHANGED <<opens, opened, closes, client>>
    BY <1>14 DEF FreeEnds, Ends
  <2>2. client # "open" /\ state \notin {"freed", "abandoned"}
    BY <2>1 DEF Pairing, Agrees
  <2> QED BY <2>1, <2>2, FreedPairs
<1> QED BY <1>1, <1>2, <1>3, <1>4, <1>5, <1>6, <1>7, <1>8, <1>9, <1>10, <1>11, <1>12,
           <1>13, <1>14 DEF Runs

LEMMA PairingPreserved == Pairing /\ [Next]_vars => Pairing'
<1>1. CASE UNCHANGED vars
  BY <1>1, PairingStutters DEF vars, clientCalls, pairVars
<1> QED BY <1>1, CallsPair, RunsPair DEF Next

(* Whatever the chain, the settings and the callbacks, and however calls   *)
(* are refused or fail, the client's closer is called once for every       *)
(* opener that succeeded and the freer once for every open, but for a free *)
(* after a fatal error, which closes nothing.                              *)
THEOREM CallbacksPaired == Spec => []OpenerMatched
<1>1. Spec => []Pairing
  BY PairingInit, PairingPreserved, PTL DEF Spec
<1> QED BY <1>1, PairingImplies, PTL

-----------------------------------------------------------------------------
(* Failures reach the caller: a proof of ErrorsReported.                   *)
(*                                                                         *)
(* The failure of a callback is the answer of the last write until a stage *)
(* takes it into the result of the call, and a write after it would lose   *)
(* it.  In a chain without an encoder there is none: the stage is over.    *)

Remembered ==
  /\ state = "new" => got = OK /\ job = NoJob /\ encoder # "open"
  /\ encoder = "none" =>
       /\ reply.broke => reply.code = FATAL
       /\ got \in {OK, FATAL} /\ (got = FATAL => job = NoJob)
       /\ call # Idle =>
            /\ call.ret \in {OK, FATAL}
            /\ broke => got = FATAL \/ call.ret = FATAL
            /\ call.stage \in {"finish", "header", "body"} => call.ret = OK
            /\ call.stage = "free" => job = NoJob /\ (broke => call.ret = FATAL)

(* What Remembered speaks of.                                              *)
resultVars == <<state, call, encoder, got, job, broke, reply>>

LEMMA RememberedImplies == Remembered => ErrorsReported
  BY DEF Remembered, ErrorsReported

LEMMA RememberedInit == Init => Remembered
  BY DEF Init, ClientInit, Remembered

LEMMA RememberedStutters == Remembered /\ UNCHANGED resultVars => Remembered'
  BY DEF resultVars, Remembered

(* An answer at once, with no callback called.                             *)
LEMMA AnswersAtOnce ==
  ASSUME Remembered, call = Idle, NEW op, NEW code, Returns(op, code),
         state' \in {state, "header", "fatal", "freed", "abandoned"},
         UNCHANGED <<encoder, got, job>>
  PROVE  Remembered'
<1>1. call' = Idle /\ reply'.broke = FALSE
  BY DEF Returns
<1> QED BY <1>1 DEF Remembered

LEMMA BeginsAfresh ==
  ASSUME Remembered, state # "new", NEW op, NEW stage, NEW todo, NEW entry,
         stage # "free", Begins(op, stage, todo, entry), UNCHANGED <<state, encoder>>
  PROVE  Remembered'
<1>1. /\ call'.ret = OK /\ call'.stage = stage /\ got' = OK /\ broke' = FALSE
      /\ UNCHANGED reply
  BY DEF Begins
<1> QED BY <1>1 DEF Remembered, OK, FATAL

(* The result of a call is what the stages and the last write answered.    *)
LEMMA EndsWithResult ==
  ASSUME Remembered, call # Idle, NEW op, NEW code, Ends(op, code),
         state' # "new", UNCHANGED <<encoder, got>>, job' \in {job, NoJob},
         encoder = "none" /\ broke => code = FATAL
  PROVE  Remembered'
<1>1. call' = Idle /\ reply' = [op |-> op, code |-> code, broke |-> broke]
  BY DEF Ends, Answer
<1> QED BY <1>1 DEF Remembered

LEMMA DiesWithResult ==
  ASSUME Remembered, call # Idle, Dies, UNCHANGED <<encoder, got, job>>
  PROVE  Remembered'
<1>1. Ends(call.op, FATAL) /\ state' # "new"
  BY DEF Dies
<1> QED BY <1>1, EndsWithResult

LEMMA WorstIs ==
  ASSUME got \in {OK, FATAL}, call.ret \in {OK, FATAL}
  PROVE  /\ Worst \in {OK, FATAL}
         /\ Worst = FATAL <=> got = FATAL \/ call.ret = FATAL
  BY DEF Worst, minimum, OK, FATAL

LEMMA GoesWithResult ==
  ASSUME Pairing, Remembered, call # Idle, NEW stage, NEW todo, Goes(stage, todo),
         got' = OK, UNCHANGED <<state, broke>>, UNCHANGED encoder \/ encoder' # "none",
         stage \notin {"finish", "header", "body", "free"}
  PROVE  Remembered'
<1>1. /\ state # "new" /\ UNCHANGED reply
      /\ call'.ret = Worst /\ call'.stage = stage
  BY DEF Goes, Pairing, Agrees, InProgress
<1>2. CASE encoder = "none"
  <2>1. /\ Worst \in {OK, FATAL}
        /\ broke => Worst = FATAL
    BY <1>2, WorstIs DEF Remembered
  <2> QED BY <1>1, <2>1 DEF Remembered, OK, FATAL
<1>3. CASE encoder # "none"
  BY <1>1, <1>3 DEF Remembered
<1> QED BY <1>2, <1>3

LEMMA OpenRemembers == Remembered /\ Open => Remembered'
<1> SUFFICES ASSUME Remembered, Open PROVE Remembered'
  OBVIOUS
<1>1. /\ call = Idle /\ state = "new" /\ got = OK /\ job = NoJob
      /\ UNCHANGED <<got, job>>
  BY DEF Open, Ready, Remembered
<1>2. call' = Idle /\ reply'.broke = FALSE
  BY <1>1 DEF Open, OpenFails, Returns
<1>3. state' = "new" => encoder' = "none"
  BY DEF Open, OpenFails
<1> QED BY <1>1, <1>2, <1>3 DEF Remembered, OK, FATAL

LEMMA CallsRemember == Pairing /\ Remembered /\ Calls => Remembered'
<1> SUFFICES ASSUME Pairing, Remembered, Calls PROVE Remembered'
  OBVIOUS
<1>1. CASE Refuse
  BY <1>1, AnswersAtOnce DEF Refuse, Ready, encoderVars, copyVars
<1>2. CASE SetLastBlock
  BY <1>2, AnswersAtOnce DEF SetLastBlock, Ready, encoderVars, copyVars
<1>3. CASE Fail
  BY <1>3 DEF Fail, Ready, encoderVars, copyVars, histVars, Remembered
<1>4. CASE Open
  BY <1>4, OpenRemembers
<1>5. ASSUME NEW e \in Entries, HeaderBegins(e) PROVE Remembered'
  <2>1. CASE format
    BY <1>5, <2>1, BeginsAfresh DEF HeaderBegins, Allowed, encoderVars
  <2>2. CASE ~format
    BY <1>5, <2>2, AnswersAtOnce DEF HeaderBegins, Ready, encoderVars, copyVars
  <2> QED BY <2>1, <2>2
<1>6. CASE FinishBegins
  BY <1>6, BeginsAfresh DEF FinishBegins, Allowed, encoderVars
<1>7. ASSUME NEW s \in Amounts, DataBegins(s) PROVE Remembered'
  BY <1>7, BeginsAfresh DEF DataBegins, Allowed, encoderVars
<1>8. ASSUME NEW op, CloseBegins(op) PROVE Remembered'
  BY <1>8, BeginsAfresh DEF CloseBegins, encoderVars
<1>9. CASE CloseNothing
  BY <1>9, AnswersAtOnce DEF CloseNothing, Ready, encoderVars, copyVars
<1>10. CASE FreeOnly
  BY <1>10, AnswersAtOnce DEF FreeOnly, Freed, Ready, encoderVars, copyVars
<1> QED BY <1>1, <1>2, <1>3, <1>4, <1>5, <1>6, <1>7, <1>8, <1>9, <1>10 DEF Calls

-----------------------------------------------------------------------------

LEMMA PutRemembers == Pairing /\ Remembered /\ Put => Remembered'
<1> SUFFICES ASSUME Pairing, Remembered, Put PROVE Remembered'
  OBVIOUS
<1>1. /\ call # Idle /\ InProgress(call) /\ state # "new" /\ got = OK /\ job = NoJob
      /\ call.stage # "free" /\ UNCHANGED <<encoder, reply>>
  BY DEF Put, Stages, Pairing, Agrees
<1>2. CASE state' = "crashed" /\ call' = Idle /\ UNCHANGED <<got, job>>
  BY <1>1, <1>2 DEF Remembered
<1>3. CASE got' = FATAL /\ UNCHANGED <<state, call, job, broke>>
  BY <1>1, <1>3 DEF Remembered
<1>4. ASSUME NEW n, call' = [call EXCEPT !.todo = @ - n], UNCHANGED <<state, got, broke>>
      PROVE  Remembered'
  <2>1. call'.stage = call.stage /\ call'.ret = call.ret
    BY <1>1, <1>4 DEF InProgress
  <2> QED BY <1>1, <1>4, <2>1 DEF Remembered, OK, FATAL
<1>5. \/ state' = "crashed" /\ call' = Idle /\ UNCHANGED <<got, job>>
      \/ got' = FATAL /\ UNCHANGED <<state, call, job, broke>>
      \/ \E n : call' = [call EXCEPT !.todo = @ - n] /\ UNCHANGED <<state, got, broke>>
  BY DEF Put, ClientWrite, copyVars, histVars
<1> QED BY <1>2, <1>3, <1>4, <1>5

(* The loops of the client filter: a write that ends without a failure did *)
(* not follow one.                                                         *)
LEMMA ClientStepsRemember == Pairing /\ Remembered /\ ClientSteps => Remembered'
<1> SUFFICES ASSUME Pairing, Remembered, ClientSteps PROVE Remembered'
  OBVIOUS
<1>1. /\ call # Idle /\ state # "new" /\ UNCHANGED <<state, call, encoder, reply>>
  BY DEF ClientSteps, encoderVars, Pairing, Agrees
<1>2. job # NoJob
  <2>1. job.at # "idle"
    BY DEF ClientSteps, FlushBuffer, WriteDirect, KeepRest, WriteLast
  <2> QED BY <2>1 DEF NoJob
<1>3. CASE WriterFails
  BY <1>1, <1>2, <1>3 DEF WriterFails, Remembered
<1>4. CASE UNCHANGED <<got, broke>>
  BY <1>1, <1>2, <1>4 DEF Remembered
<1>5. CASE got' = OK /\ UNCHANGED broke
  BY <1>1, <1>2, <1>5 DEF Remembered, OK, FATAL
<1>6. WriterFails \/ UNCHANGED <<got, broke>> \/ (got' = OK /\ UNCHANGED broke)
  BY DEF ClientSteps, FlushBuffer, WriteDirect, KeepRest, WriteLast, Taken, histVars
<1> QED BY <1>3, <1>4, <1>5, <1>6

LEMMA HeaderFinishesEntryRemembers ==
  Pairing /\ Remembered /\ HeaderFinishesEntry => Remembered'
<1> SUFFICES ASSUME Pairing, Remembered, HeaderFinishesEntry PROVE Remembered'
  OBVIOUS
<1>1. /\ call # Idle /\ InProgress(call) /\ call.stage = "finish" /\ state # "new"
      /\ UNCHANGED <<encoder, got, job, broke>>
  BY DEF HeaderFinishesEntry, StageOver, encoderVars, copyVars, histVars, Pairing, Agrees
<1>2. CASE Dies
  BY <1>1, <1>2, DiesWithResult
<1>3. CASE got = OK /\ state' = "header" /\ Ends("header", FAILED)
  <2>1. encoder = "none" => ~broke
    BY <1>1, <1>3 DEF Remembered, OK, FATAL
  <2> QED BY <1>1, <1>3, <2>1, EndsWithResult
<1>4. CASE /\ got = OK /\ state' = "header" /\ UNCHANGED reply
           /\ call' = [call EXCEPT !.stage = "header", !.todo = Record]
  <2>1. call'.stage = "header" /\ call'.ret = call.ret
    BY <1>1, <1>4 DEF InProgress
  <2> QED BY <1>1, <1>4, <2>1 DEF Remembered
<1> QED BY <1>2, <1>3, <1>4 DEF HeaderFinishesEntry

(* A stage that puts out what belongs to an entry ends the call.           *)
LEMMA StageEnds ==
  ASSUME Remembered, call # Idle, call.stage \in {"finish", "header", "body"},
         NEW op, NEW code, Ends(op, code), got = OK,
         state' # "new", UNCHANGED <<encoder, got, job>>
  PROVE  Remembered'
<1>1. encoder = "none" => ~broke
  BY DEF Remembered, OK, FATAL
<1> QED BY <1>1, EndsWithResult

LEMMA CloseEndsRemembers == Pairing /\ Remembered /\ CloseEnds => Remembered'
<1> SUFFICES ASSUME Pairing, Remembered, CloseEnds PROVE Remembered'
  OBVIOUS
<1>1. /\ call # Idle /\ InProgress(call) /\ state' # "new"
      /\ job' = NoJob /\ UNCHANGED <<encoder, got, broke>>
  BY DEF CloseEnds, AtFilters, encoderVars, histVars, Pairing, Agrees
<1>2. encoder = "none" => /\ Worst \in {OK, FATAL}
                          /\ broke => Worst = FATAL
  BY <1>1, WorstIs DEF Remembered
<1>3. CASE Ends("close", Worst)
  BY <1>1, <1>2, <1>3, EndsWithResult
<1>4. CASE call' = [call EXCEPT !.stage = "free", !.ret = Worst] /\ UNCHANGED reply
  <2>1. call'.stage = "free" /\ call'.ret = Worst
    BY <1>1, <1>4 DEF InProgress
  <2> QED BY <1>1, <1>2, <1>4, <2>1 DEF Remembered
<1> QED BY <1>3, <1>4 DEF CloseEnds

LEMMA RunsRemember == Pairing /\ Remembered /\ Runs => Remembered'
<1> SUFFICES ASSUME Pairing, Remembered, Runs PROVE Remembered'
  OBVIOUS
<1>1. CASE Put
  BY <1>1, PutRemembers
<1>2. CASE PutEncoded
  <2>1. encoder = "open" /\ UNCHANGED <<state, encoder>>
    BY <1>2 DEF PutEncoded, Encoding
  <2> QED BY <2>1 DEF Remembered
<1>3. CASE ClientSteps
  BY <1>3, ClientStepsRemember
<1>4. CASE HeaderFinishesEntry
  BY <1>4, HeaderFinishesEntryRemembers
<1>5. CASE HeaderEnds
  <2>1. call # Idle /\ call.stage = "header" /\ UNCHANGED <<encoder, got, job>>
    BY <1>5 DEF HeaderEnds, StageOver, encoderVars, copyVars
  <2>2. Dies \/ (state' = "data" /\ got = OK /\ \E code : Ends("header", code))
    BY <1>5 DEF HeaderEnds
  <2> QED BY <2>1, <2>2, DiesWithResult, StageEnds
<1>6. CASE FinishEnds
  <2>1. call # Idle /\ call.stage = "finish" /\ UNCHANGED <<encoder, got, job>>
    BY <1>6 DEF FinishEnds, StageOver, encoderVars, copyVars
  <2>2. Dies \/ (state' = "header" /\ got = OK /\ Ends("finish", OK))
    BY <1>6 DEF FinishEnds
  <2> QED BY <2>1, <2>2, DiesWithResult, StageEnds
<1>7. CASE DataEnds
  <2>1. /\ call # Idle /\ call.stage = "body" /\ state # "new"
        /\ UNCHANGED <<encoder, got, job>>
    BY <1>7 DEF DataEnds, StageOver, encoderVars, copyVars, Pairing, Agrees
  <2>2. Dies \/ (got = OK /\ Ends("data", OK) /\ UNCHANGED state)
    BY <1>7 DEF DataEnds
  <2> QED BY <2>1, <2>2, DiesWithResult, StageEnds
<1>8. CASE CloseFinishesEntry
  <2>1. /\ call # Idle /\ got' = OK /\ UNCHANGED <<state, encoder, broke>>
        /\ Goes("trailer", IF format THEN 2 * Record ELSE 0)
    BY <1>8 DEF CloseFinishesEntry, StageOver, encoderVars, histVars
  <2> QED BY <2>1, GoesWithResult
<1>9. CASE TrailerEnds
  <2>1. /\ call # Idle /\ got' = OK /\ UNCHANGED <<state, encoder, broke>>
        /\ Goes("filters", 0)
    BY <1>9 DEF TrailerEnds, StageOver, encoderVars, histVars
  <2> QED BY <2>1, GoesWithResult
<1>10. CASE EncoderCloses
  <2>1. encoder = "open" /\ UNCHANGED <<state, encoder>>
    BY <1>10 DEF EncoderCloses
  <2> QED BY <2>1 DEF Remembered
<1>11. CASE EncoderClosed
  <2>1. /\ call # Idle /\ got' = OK /\ UNCHANGED <<state, broke>> /\ encoder' # "none"
        /\ Goes("filters", 0)
    BY <1>11 DEF EncoderClosed, AtFilters, histVars
  <2> QED BY <2>1, GoesWithResult
<1>12. CASE ClientCloses
  <2>1. /\ call # Idle /\ got' = OK /\ UNCHANGED <<state, encoder, broke>>
        /\ Goes("client", 0)
    BY <1>12 DEF ClientCloses, AtFilters, ClientClose, encoderVars, histVars
  <2> QED BY <2>1, GoesWithResult
<1>13. CASE CloseEnds
  BY <1>13, CloseEndsRemembers
<1>14. CASE FreeEnds
  <2>1. /\ call # Idle /\ call.stage = "free" /\ Ends("free", call.ret)
        /\ state' # "new" /\ UNCHANGED <<encoder, got, job>>
    BY <1>14 DEF FreeEnds, Freed, encoderVars, copyVars
  <2>2. encoder = "none" /\ broke => call.ret = FATAL
    BY <2>1 DEF Remembered
  <2> QED BY <2>1, <2>2, EndsWithResult
<1> QED BY <1>1, <1>2, <1>3, <1>4, <1>5, <1>6, <1>7, <1>8, <1>9, <1>10, <1>11, <1>12,
           <1>13, <1>14 DEF Runs

LEMMA RememberedPreserved == Pairing /\ Remembered /\ [Next]_vars => Remembered'
<1>1. CASE UNCHANGED vars
  BY <1>1, RememberedStutters DEF vars, copyVars, histVars, encoderVars, resultVars
<1> QED BY <1>1, CallsRemember, RunsRemember DEF Next

(* In every chain without an encoder, and for every order of calls and     *)
(* failures, a call during which a callback of the client failed answers   *)
(* FATAL, also when it goes on to put out a trailer and to close (close    *)
(* and free) after the failure.                                            *)
THEOREM FailuresReported == Spec => []ErrorsReported
<1>1. Spec => [](Pairing /\ Remembered)
  BY PairingInit, PairingPreserved, RememberedInit, RememberedPreserved, PTL DEF Spec
<1> QED BY <1>1, RememberedImplies, PTL

-----------------------------------------------------------------------------
-----------------------------------------------------------------------------
(* The invariant of the client filter.                                     *)

Jobs == [at : {"idle", "flush", "blocks", "last"}, left : Nat, done : Nat]

(* What the variables of the client filter hold.                           *)
ClientKinds ==
  /\ bytes_per_block \in Nat /\ bytes_in_last_block \in Int
  /\ job \in Jobs /\ (job.at = "idle" => job = NoJob)
  /\ base \in Nat /\ avail \in Nat /\ fed \in Nat /\ given \in Nat /\ shorts \in Nat
  /\ inOrder \in BOOLEAN /\ failed \in BOOLEAN /\ broke \in BOOLEAN /\ ragged \in BOOLEAN
  /\ got \in {OK, FATAL}

(* The copy buffer: a block at most, less than one outside the flush of a  *)
(* full one unless a write has failed, and empty while blocks go directly. *)
Room ==
  /\ avail <= bytes_per_block
  /\ job.at = "flush" => avail = bytes_per_block /\ job.done < bytes_per_block
  /\ job.at = "blocks" /\ job.left > 0 => avail = 0
  /\ job.at \in {"flush", "blocks"} => job.left <= fed
  /\ ~failed /\ job.at # "flush" /\ avail > 0 => avail < bytes_per_block

(* Until a callback fails every byte fed to an open client filter is with  *)
(* the client, in the copy buffer, or still to be done by the loop.        *)
Buffering ==
  ~failed =>
    /\ inOrder
    /\ client = "open" /\ job.at \in {"idle", "blocks"} =>
         given + avail + job.left = fed /\ (avail > 0 => base = given)
    /\ job.at = "flush" => base + job.done = given /\ fed = base + avail + job.left
    /\ job.at = "last" =>
         IF avail = 0 THEN job.left = 0 /\ given = fed
         ELSE /\ base + job.done = given /\ fed = base + avail
              /\ job.done + job.left = LastBlock

(* Without short writes the client has been given whole blocks until the   *)
(* last one.                                                               *)
WholeBlocks ==
  bytes_per_block > 0 /\ shorts = 0 =>
    /\ job.at = "flush" => job.done = 0
    /\ ragged => client # "open" \/ (job.at = "last" /\ job.left = 0)
    /\ job.at = "last" /\ job.left > 0 => job.done = 0
    /\ ~failed /\ client = "open" /\ (job.at = "last" => job.left > 0 \/ avail = 0) =>
         given % bytes_per_block = 0

(* How the last block ends.                                                *)
Padded ==
  /\ given >= fed /\ given - fed < LastUnit
  /\ bytes_per_block > 0 /\ shorts = 0 =>
       LET tail == given % bytes_per_block IN tail # 0 => tail % LastUnit = 0

LastGiven == job.at = "last" /\ job.left = 0 /\ ~failed => Padded

Filter == ClientKinds /\ Room /\ Buffering /\ WholeBlocks /\ LastGiven

-----------------------------------------------------------------------------
(* The invariant of the archive.                                           *)

(* What the variables of the archive, its format and its encoder hold.     *)
ArchiveKinds ==
  /\ state \in States /\ client \in FilterStates /\ encoder \in FilterStates
  /\ output \in Nat /\ framed \in Nat /\ encoded \in Nat /\ hold \in 0..(Line - 1)
  /\ remaining \in Nat /\ padding \in Nat /\ format \in BOOLEAN
  /\ reply.code \in Codes /\ reply.broke \in BOOLEAN
  /\ call # Idle => /\ call.todo \in Nat /\ call.ret \in {OK, FATAL}
                    /\ call.entry.size \in Nat

(* Nothing has happened before the first open that succeeds.               *)
Fresh ==
  state = "new" =>
    /\ encoder \in {"none", "new"} /\ job = NoJob
    /\ base = 0 /\ avail = 0 /\ fed = 0 /\ given = 0 /\ shorts = 0
    /\ inOrder /\ ~failed /\ ~ragged
    /\ output = 0 /\ framed = 0 /\ hold = 0

(* Which operation a stage belongs to, in which states it runs, and what   *)
(* the archive has answered before.                                        *)
Staged ==
  /\ call # Idle =>
       /\ call.op \in {"header", "finish", "data", "close", "free"}
       /\ call.stage \in Stages \cup {"filters", "encoder", "client", "free"}
       /\ call.stage = "header" => call.op = "header" /\ state = "header"
       /\ call.stage = "body" => call.op = "data" /\ state = "data"
       /\ call.stage \in {"trailer", "filters", "encoder", "client"} => call.op \in {"close", "free"}
       /\ call.stage = "free" => call.op = "free"
       /\ IF call.stage = "free" THEN state = "closed" ELSE state \in {"header", "data", "fatal"}
       /\ state = "fatal" => call.op = "close"
  /\ reply.op = "close" /\ state \notin {"fatal", "freed", "abandoned", "crashed"} =>
       state = "closed" /\ call = Idle

(* Which filters are open.  An encoder is opened after the client filter   *)
(* and closed before it, its loop is over when a call returns, and the     *)
(* loops of the client filter run on an open one only.                     *)
Chain ==
  /\ encoder = "open" => /\ client = "open"
                         /\ call = Idle \/ call.stage \in {"filters", "encoder"} =>
                              encoded < EncoderBuffer
  /\ job # NoJob => client = "open" /\ call # Idle
  /\ state \in {"header", "data"} =>
       /\ client = "open" /\ encoder # "new"
       /\ call = Idle \/ call.stage \in Stages => encoder \in {"none", "open"}
  /\ state = "closed" => encoder \notin {"new", "open"}
  /\ call # Idle => /\ call.stage = "client" => encoder # "open"
                    /\ call.stage = "encoder" => encoder = "open"
                    /\ job.at = "last" => call.stage = "client"
                    /\ call.stage = "client" => job.at = "last" \/ failed

(* The encoder has in its buffers what it has not yet fed on: the lines    *)
(* and the mark at the beginning are made of what the format has put out.  *)
Keeping ==
  /\ encoder = "open" /\ (call = Idle \/ call.stage # "encoder") =>
       hold = output % Line /\ fed + encoded = 1 + Lines(output)
  /\ encoder = "none" => fed = output
  /\ encoder = "open" /\ call # Idle /\ call.stage = "encoder" => fed = Whole
  /\ encoder \in {"closed", "fatal"} => fed = Whole

(* Where the entry in progress has to end.                                 *)
Trailer == IF format THEN 2 * Record ELSE 0
Framing ==
  /\ call = Idle =>
       /\ state = "data" => output + remaining + padding = framed
       /\ state = "header" => output = framed
       /\ state = "closed" /\ reply.op = "close" /\ reply.code = OK => output = framed + Trailer
  /\ call # Idle /\ state # "fatal" =>
       /\ call.stage = "finish" => output + call.todo = framed /\ call.ret = OK
       /\ call.stage = "body" => output + call.todo + remaining + padding = framed
       /\ call.stage = "trailer" /\ call.ret = OK => output + call.todo = framed + Trailer
       /\ call.stage \in {"filters", "encoder", "client"} /\ call.ret = OK =>
            output = framed + Trailer

Closing ==
  state = "closed" /\ reply.op = "close" /\ reply.code = OK /\ ~failed => Padded

Archive == ArchiveKinds /\ Fresh /\ Staged /\ Chain /\ Keeping /\ Framing /\ Closing

Delivering == Pairing /\ Filter /\ Archive

-----------------------------------------------------------------------------
(* Quotients and remainders.                                               *)

LEMMA DivMod ==
  ASSUME NEW L \in Nat \ {0}, NEW a \in Nat
  PROVE  a \div L \in Nat /\ (a % L) \in 0..(L - 1) /\ a = L * (a \div L) + (a % L)
  OBVIOUS

LEMMA DivUnique ==
  ASSUME NEW L \in Nat \ {0}, NEW q \in Nat, NEW r \in 0..(L - 1)
  PROVE  (L * q + r) \div L = q /\ (L * q + r) % L = r
  OBVIOUS

(* A block more is a block more.                                           *)
LEMMA Wrap ==
  ASSUME NEW L \in Nat \ {0}, NEW a \in Nat, a % L = 0
  PROVE  (a + L) % L = 0 /\ \A r \in 0..(L - 1) : (a + r) % L = r
<1>1. PICK q \in Nat : a = L * q
  <2>1. a \div L \in Nat /\ a = L * (a \div L) + (a % L)
    BY DivMod
  <2> QED BY <2>1
<1>2. a + L = L * (q + 1) + 0
  BY <1>1
<1>3. (a + L) % L = 0
  <2>1. (L * (q + 1) + 0) % L = 0
    <3>1. q + 1 \in Nat /\ 0 \in 0..(L - 1)
      OBVIOUS
    <3> QED BY <3>1, DivUnique
  <2> QED BY <1>2, <2>1
<1>4. ASSUME NEW r \in 0..(L - 1) PROVE (a + r) % L = r
  BY <1>1, DivUnique
<1> QED BY <1>3, <1>4

(* What is added to a remainder.                                           *)
LEMMA Carry ==
  ASSUME NEW L \in Nat \ {0}, NEW a \in Nat, NEW n \in Nat
  PROVE  /\ ((a % L) + n) % L = (a + n) % L
         /\ (a \div L) + (((a % L) + n) \div L) = (a + n) \div L
<1>1. PICK q \in Nat : q = a \div L /\ a = L * q + (a % L) /\ (a % L) \in 0..(L - 1)
  BY DivMod
<1> DEFINE b == (a % L) + n
<1>2. b \in Nat
  BY <1>1
<1>3. PICK p \in Nat : p = b \div L /\ b = L * p + (b % L) /\ (b % L) \in 0..(L - 1)
  BY <1>2, DivMod
<1>4. a + n = L * q + (L * p + (b % L))
  BY <1>1, <1>3
<1>5. a + n = L * (q + p) + (b % L)
  BY <1>4
<1>6. q + p \in Nat
  OBVIOUS
<1>7. (L * (q + p) + (b % L)) \div L = q + p /\ (L * (q + p) + (b % L)) % L = (b % L)
  BY <1>3, <1>6, DivUnique
<1> HIDE DEF b
<1>8. (a + n) \div L = q + p /\ (a + n) % L = (b % L)
  BY <1>5, <1>7
<1> QED BY <1>1, <1>3, <1>8 DEF b

(* Rounding up to whole units.                                             *)
LEMMA Ceil ==
  ASSUME NEW L \in Nat \ {0}, NEW a \in Nat
  PROVE  LET c == L * ((a + L - 1) \div L) IN c \in Nat /\ a <= c /\ c < a + L /\ c % L = 0
<1>1. LET c == L * ((a + L - 1) \div L) IN c \in Nat /\ a <= c /\ c < a + L
  OBVIOUS
<1>2. (a + L - 1) \div L \in Nat
  OBVIOUS
<1>3. ASSUME NEW k \in Nat PROVE (L * k) % L = 0
  OBVIOUS
<1> QED BY <1>1, <1>2, <1>3

LEMMA Pad ==
  ASSUME NEW L \in Nat \ {0}, NEW size \in Nat
  PROVE  /\ ((L - (size % L)) % L) \in Nat
         /\ size + ((L - (size % L)) % L) = L * ((size + L - 1) \div L)
<1>1. PICK q \in Nat, r \in 0..(L - 1) : r = (size % L) /\ size = L * q + r
  BY DivMod
<1>2. CASE r = 0
  <2>1. (L - r) % L = 0
    <3>1. (L * 1 + 0) % L = 0
      BY DivUnique
    <3> QED BY <1>2, <3>1
  <2>2. (L * q + (L - 1)) \div L = q
    BY DivUnique
  <2>3. size + L - 1 = L * q + (L - 1) /\ L * q \in Nat
    BY <1>1, <1>2
  <2> QED BY <1>1, <1>2, <2>1, <2>2, <2>3
<1>3. CASE r > 0
  <2>1. (L * 0 + (L - r)) % L = L - r
    BY <1>3, DivUnique
  <2>2. (L * (q + 1) + (r - 1)) \div L = q + 1
    BY <1>3, DivUnique
  <2>3. size + L - 1 = L * (q + 1) + (r - 1) /\ size + (L - r) = L * (q + 1)
    BY <1>1
  <2>4. (size + L - 1) \div L = q + 1
    BY <2>2, <2>3
  <2>5. (L - r) % L = L - r
    <3>1. L * 0 + (L - r) = L - r
      OBVIOUS
    <3> QED BY <2>1, <3>1
  <2>6. size + (L - r) = L * ((size + L - 1) \div L) /\ L - r \in Nat
    BY <2>3, <2>4
  <2> QED BY <1>1, <2>5, <2>6
<1> QED BY <1>2, <1>3

LEMMA PaddingRounds ==
  ASSUME NEW size \in Nat
  PROVE  /\ Padding(size) \in Nat
         /\ size + Padding(size) = Record * ((size + Record - 1) \div Record)
<1>1. Record \in Nat \ {0}
  BY WriteArchiveAssumption
<1>2. Padding(size) = ((Record - (size % Record)) % Record)
  BY DEF Padding
<1>3. /\ ((Record - (size % Record)) % Record) \in Nat
      /\ size + ((Record - (size % Record)) % Record) = Record * ((size + Record - 1) \div Record)
  BY <1>1, Pad
<1> QED BY <1>2, <1>3

(* The encoder's buffer has room for more than the mark.                   *)
LEMMA EncoderBufferHolds ==
  ASSUME bytes_per_block \in Nat
  PROVE  EncoderBuffer \in Nat /\ EncoderBuffer > 1
<1>1. Buffer \in Nat /\ Buffer > 1
  BY WriteArchiveAssumption
<1>2. CASE bytes_per_block > Buffer \/ bytes_per_block = 0
  BY <1>1, <1>2 DEF EncoderBuffer
<1>3. CASE ~(bytes_per_block > Buffer \/ bytes_per_block = 0)
  <2>1. ASSUME NEW L \in Nat \ {0}, NEW a \in Nat, a > 1, L <= a
        PROVE  a - (a % L) \in Nat /\ a - (a % L) > 1
    <3>1. PICK q \in Nat, r \in 0..(L - 1) : r = (a % L) /\ a = L * q + r
      BY DivMod
    <3>2. q >= 1
      BY <2>1, <3>1
    <3>3. L * q >= L
      BY <3>2
    <3>4. a - r = L * q /\ L * q \in Nat
      BY <3>1
    <3>5. L = 1 => r = 0
      OBVIOUS
    <3> QED BY <2>1, <3>1, <3>3, <3>4, <3>5
  <2>2. EncoderBuffer = Buffer - (Buffer % bytes_per_block)
    BY <1>3 DEF EncoderBuffer
  <2> QED BY <1>1, <1>3, <2>1, <2>2
<1> QED BY <1>2, <1>3

LEMMA WorstOf ==
  ASSUME got \in {OK, FATAL}, call.ret \in {OK, FATAL}
  PROVE  Worst \in {OK, FATAL} /\ (Worst = OK <=> got = OK /\ call.ret = OK)
  BY DEF Worst, minimum, OK, FATAL

-----------------------------------------------------------------------------
(* The steps of the client filter.                                         *)

(* A step that leaves the client filter alone.  The setting of the last    *)
(* block is made between its loops only.                                   *)
FilterRests ==
  /\ UNCHANGED <<bytes_per_block, base, avail, job, fed, given, inOrder, failed, shorts,
                 ragged, client>>
  /\ bytes_in_last_block' \in Int /\ (job # NoJob => UNCHANGED bytes_in_last_block)
  /\ got' \in {OK, FATAL} /\ broke' \in BOOLEAN

LEMMA FilterAtRest == Filter /\ FilterRests => Filter'
<1> SUFFICES ASSUME Filter, FilterRests PROVE Filter'
  OBVIOUS
<1>1. ClientKinds' /\ Room'
  BY DEF Filter, FilterRests, ClientKinds, Room
<1>2. job.at = "last" => UNCHANGED <<LastBlock, LastUnit>>
  BY DEF FilterRests, LastBlock, LastUnit, NoJob
<1>3. Buffering'
  BY <1>2 DEF Filter, FilterRests, Buffering
<1>4. WholeBlocks'
  BY DEF Filter, FilterRests, WholeBlocks
<1>5. LastGiven'
  BY <1>2 DEF Filter, FilterRests, LastGiven, Padded
<1> QED BY <1>1, <1>3, <1>4, <1>5 DEF Filter

(* The filter is opened, or not, before anything was written.              *)
LEMMA FilterOpens ==
  ASSUME Filter, job = NoJob, avail = 0, fed = 0, given = 0, ~ragged, avail' = 0,
         UNCHANGED <<blockVars, base, job, got, histVars>>
  PROVE  Filter'
<1> USE DEF blockVars, histVars
<1>1. job' = NoJob /\ job'.at = "idle" /\ job'.left = 0
  BY DEF NoJob
<1>2. ClientKinds' /\ Room' /\ LastGiven'
  BY <1>1 DEF Filter, ClientKinds, Room, LastGiven
<1>3. Buffering'
  BY <1>1 DEF Filter, Buffering, ClientKinds
<1>4. bytes_per_block > 0 => 0 % bytes_per_block = 0
  BY DEF Filter, ClientKinds
<1>5. WholeBlocks'
  BY <1>1, <1>4 DEF Filter, WholeBlocks
<1> QED BY <1>2, <1>3, <1>5 DEF Filter

(* A write begins: the copy buffer is filled up first.                     *)
LEMMA FilterWrites ==
  ASSUME Filter, job = NoJob, client = "open", NEW n \in Nat, ClientWrite(n),
         UNCHANGED <<client, bytes_per_block>>, bytes_in_last_block' \in Int
  PROVE  Filter'
<1> DEFINE k == Filled(n)
<1>1. /\ avail \in Nat /\ fed \in Nat /\ given \in Nat /\ base \in Nat
      /\ bytes_per_block \in Nat /\ avail <= bytes_per_block
      /\ job.at = "idle" /\ job.left = 0 /\ job.done = 0
  BY DEF Filter, ClientKinds, Room, NoJob
<1>2. /\ k \in 0..n /\ avail + k <= bytes_per_block
      /\ avail = 0 => k = 0
      /\ avail > 0 => k = n \/ avail + k = bytes_per_block
  BY <1>1 DEF Filled, minimum
<1>3. /\ fed' = fed + n /\ avail' = avail + k
      /\ UNCHANGED <<base, got, given, inOrder, failed, broke, shorts, ragged>>
      /\ job' = [at |-> IF avail > 0 /\ avail' = bytes_per_block THEN "flush" ELSE "blocks",
                 left |-> n - k, done |-> 0]
  BY DEF ClientWrite
<1> HIDE DEF k
<1>4. /\ job'.left = n - k /\ job'.done = 0 /\ job'.left \in Nat
      /\ \/ job'.at = "flush" /\ avail > 0 /\ avail + k = bytes_per_block
         \/ job'.at = "blocks" /\ ~(avail > 0 /\ avail + k = bytes_per_block)
  BY <1>2, <1>3
<1>5. job' \in Jobs
  BY <1>3, <1>4 DEF Jobs
<1>6. ClientKinds'
  <2>1. fed' \in Nat /\ avail' \in Nat
    BY <1>1, <1>2, <1>3
  <2> QED BY <1>3, <1>4, <1>5, <2>1 DEF Filter, ClientKinds
<1>7. Room'
  BY <1>1, <1>2, <1>3, <1>4 DEF Room
<1>8. Buffering'
  BY <1>1, <1>2, <1>3, <1>4 DEF Filter, Buffering
<1>9. WholeBlocks'
  BY <1>1, <1>3, <1>4 DEF Filter, WholeBlocks
<1>10. LastGiven'
  BY <1>4 DEF LastGiven
<1> QED BY <1>6, <1>7, <1>8, <1>9, <1>10 DEF Filter

(* The write callback fails and the loop is left.                          *)
LEMMA FilterFails ==
  ASSUME Filter, client = "open", WriterFails, UNCHANGED <<client, blockVars>>,
         job.left > 0 \/ job.at # "last"
  PROVE  Filter'
<1> USE DEF blockVars
<1>1. /\ job' = NoJob /\ got' = FATAL /\ failed' = TRUE /\ broke' = TRUE
      /\ UNCHANGED <<base, avail, fed, given, inOrder, shorts, ragged>>
  BY DEF WriterFails
<1>2. job'.at = "idle" /\ job'.left = 0 /\ job'.done = 0 /\ job' \in Jobs
  BY <1>1 DEF NoJob, Jobs
<1>3. ClientKinds' /\ Room' /\ Buffering' /\ LastGiven'
  BY <1>1, <1>2 DEF Filter, ClientKinds, Room, Buffering, LastGiven
<1>4. WholeBlocks'
  BY <1>1, <1>2 DEF Filter, ClientKinds, WholeBlocks
<1> QED BY <1>3, <1>4 DEF Filter

(* What a callback that takes n of len bytes records.                      *)
LEMMA TakenIs ==
  ASSUME ClientKinds, NEW from, NEW len \in Nat, NEW n \in Takes(len), Taken(from, len, n)
  PROVE  /\ n \in 1..len /\ given' = given + n /\ given' \in Nat
         /\ inOrder' \in BOOLEAN /\ (inOrder /\ from = given => inOrder')
         /\ shorts' \in Nat /\ (shorts' = 0 => shorts = 0 /\ n = len)
         /\ ragged' \in BOOLEAN /\ (ragged' => ragged \/ len # bytes_per_block)
         /\ UNCHANGED <<fed, failed, broke>>
<1>1. n \in 1..len
  BY DEF Takes
<1>2. given' = given + n /\ given' \in Nat
  BY <1>1 DEF Taken, ClientKinds
<1>3. shorts' \in Nat /\ (shorts' = 0 => shorts = 0 /\ n = len)
  BY <1>1 DEF Taken, ClientKinds
<1>4. /\ inOrder' \in BOOLEAN /\ (inOrder /\ from = given => inOrder')
      /\ ragged' \in BOOLEAN /\ (ragged' => ragged \/ len # bytes_per_block)
  BY DEF Taken, ClientKinds
<1> QED BY <1>1, <1>2, <1>3, <1>4 DEF Taken

(* Behind the flush the rest of the write goes on in blocks.               *)
LEMMA FilterFlushes ==
  ASSUME Filter, client = "open", job.at = "flush", UNCHANGED <<client, blockVars>>,
         NEW n \in Takes(bytes_per_block - job.done),
         Taken(base + job.done, bytes_per_block - job.done, n), Flushed(n),
         UNCHANGED <<base, got>>
  PROVE  Filter'
<1> USE DEF blockVars
<1> DEFINE len == bytes_per_block - job.done
<1>1. /\ ClientKinds /\ Room /\ job = [at |-> job.at, left |-> job.left, done |-> job.done]
      /\ avail \in Nat /\ fed \in Nat /\ given \in Nat /\ base \in Nat
      /\ bytes_per_block \in Nat /\ job.left \in Nat /\ job.done \in Nat
      /\ avail = bytes_per_block /\ job.done < bytes_per_block /\ job.left <= fed
  BY DEF Filter, ClientKinds, Room, Jobs
<1>2. len \in Nat
  BY <1>1
<1>3. /\ n \in 1..len /\ given' = given + n /\ given' \in Nat
      /\ inOrder' \in BOOLEAN /\ (inOrder /\ base + job.done = given => inOrder')
      /\ shorts' \in Nat /\ (shorts' = 0 => shorts = 0 /\ n = len)
      /\ ragged' \in BOOLEAN /\ (ragged' => ragged \/ len # bytes_per_block)
      /\ UNCHANGED <<fed, failed, broke>>
  BY <1>1, <1>2, TakenIs
<1>4. \/ /\ job.done + n = bytes_per_block /\ avail' = 0
         /\ job' = [at |-> "blocks", left |-> job.left, done |-> 0]
      \/ /\ job.done + n # bytes_per_block /\ avail' = avail
         /\ job' = [at |-> "flush", left |-> job.left, done |-> job.done + n]
  BY <1>1 DEF Flushed
<1>5. /\ job' \in Jobs /\ job'.left = job.left
      /\ \/ /\ job.done + n = bytes_per_block /\ avail' = 0
            /\ job'.at = "blocks" /\ job'.done = 0
         \/ /\ job.done + n < bytes_per_block /\ avail' = avail
            /\ job'.at = "flush" /\ job'.done = job.done + n
  BY <1>1, <1>3, <1>4 DEF Jobs
<1>6. ClientKinds'
  BY <1>1, <1>3, <1>5 DEF ClientKinds
<1>7. Room'
  BY <1>1, <1>3, <1>5 DEF Room
<1>8. Buffering'
  BY <1>1, <1>3, <1>5 DEF Filter, Buffering
<1>9. WholeBlocks'
  <2>1. bytes_per_block > 0 /\ shorts' = 0 =>
          /\ job.done = 0 /\ n = bytes_per_block /\ ~ragged' /\ job'.at = "blocks"
          /\ ~failed => given % bytes_per_block = 0
    BY <1>1, <1>3, <1>5 DEF Filter, WholeBlocks
  <2>2. ASSUME bytes_per_block > 0, shorts' = 0, ~failed PROVE given' % bytes_per_block = 0
    <3>1. /\ bytes_per_block \in Nat \ {0} /\ given \in Nat
          /\ given % bytes_per_block = 0 /\ given' = given + bytes_per_block
      BY <1>1, <1>3, <2>1, <2>2
    <3>2. (given + bytes_per_block) % bytes_per_block = 0
      BY <3>1, Wrap
    <3> QED BY <3>1, <3>2
  <2> QED BY <1>3, <2>1, <2>2 DEF WholeBlocks
<1>10. LastGiven'
  BY <1>5 DEF LastGiven
<1> QED BY <1>6, <1>7, <1>8, <1>9, <1>10 DEF Filter

(* Blocks go to the client without being copied.                           *)
LEMMA FilterGivesBlocks ==
  ASSUME Filter, client = "open", job.at = "blocks", job.left >= bytes_per_block, job.left > 0,
         UNCHANGED <<client, blockVars>>, NEW n \in Takes(DirectLength),
         Taken(fed - job.left, DirectLength, n), job' = [job EXCEPT !.left = @ - n],
         UNCHANGED <<base, avail, got>>
  PROVE  Filter'
<1> USE DEF blockVars
<1>1. /\ ClientKinds /\ Room /\ job = [at |-> job.at, left |-> job.left, done |-> job.done]
      /\ avail = 0 /\ fed \in Nat /\ given \in Nat /\ base \in Nat
      /\ bytes_per_block \in Nat /\ job.left \in Nat /\ job.done \in Nat /\ job.left <= fed
  BY DEF Filter, ClientKinds, Room, Jobs
<1>2. /\ DirectLength \in Nat /\ DirectLength <= job.left
      /\ bytes_per_block > 0 => DirectLength = bytes_per_block
  BY <1>1 DEF DirectLength
<1>3. /\ n \in 1..DirectLength /\ given' = given + n /\ given' \in Nat
      /\ inOrder' \in BOOLEAN /\ (inOrder /\ fed - job.left = given => inOrder')
      /\ shorts' \in Nat /\ (shorts' = 0 => shorts = 0 /\ n = DirectLength)
      /\ ragged' \in BOOLEAN /\ (ragged' => ragged \/ DirectLength # bytes_per_block)
      /\ UNCHANGED <<fed, failed, broke>>
  BY <1>1, <1>2, TakenIs
<1>4. job' = [at |-> "blocks", left |-> job.left - n, done |-> job.done]
  BY <1>1
<1>5. /\ job' \in Jobs /\ job'.at = "blocks" /\ job'.left = job.left - n /\ job'.left \in Nat
  BY <1>1, <1>2, <1>3, <1>4 DEF Jobs
<1>6. ClientKinds'
  BY <1>1, <1>3, <1>5 DEF ClientKinds
<1>7. Room'
  BY <1>1, <1>3, <1>5 DEF Room
<1>8. Buffering'
  BY <1>1, <1>3, <1>5 DEF Filter, Buffering
<1>9. WholeBlocks'
  <2>1. bytes_per_block > 0 /\ shorts' = 0 =>
          /\ n = bytes_per_block /\ ~ragged'
          /\ ~failed => given % bytes_per_block = 0
    BY <1>1, <1>2, <1>3 DEF Filter, WholeBlocks
  <2>2. ASSUME bytes_per_block > 0, shorts' = 0, ~failed PROVE given' % bytes_per_block = 0
    <3>1. /\ bytes_per_block \in Nat \ {0} /\ given \in Nat
          /\ given % bytes_per_block = 0 /\ given' = given + bytes_per_block
      BY <1>1, <1>3, <2>1, <2>2
    <3>2. (given + bytes_per_block) % bytes_per_block = 0
      BY <3>1, Wrap
    <3> QED BY <3>1, <3>2
  <2> QED BY <1>3, <1>5, <2>1, <2>2 DEF WholeBlocks
<1>10. LastGiven'
  BY <1>5 DEF LastGiven
<1> QED BY <1>6, <1>7, <1>8, <1>9, <1>10 DEF Filter

LEMMA FilterKeepsRest ==
  ASSUME Filter, client = "open", KeepRest, UNCHANGED <<client, blockVars>>
  PROVE  Filter'
<1> USE DEF blockVars, histVars
<1>1. /\ job.at = "blocks" /\ job.left \in Nat /\ avail \in Nat /\ fed \in Nat /\ given \in Nat
      /\ base \in Nat /\ bytes_per_block \in Nat /\ job.left <= fed
      /\ job.left > 0 => avail = 0 /\ job.left < bytes_per_block
  BY DEF KeepRest, Filter, ClientKinds, Room, Jobs
<1>2. job' = NoJob /\ job'.at = "idle" /\ job'.left = 0 /\ job'.done = 0 /\ job' \in Jobs
  BY DEF KeepRest, NoJob, Jobs
<1>3. /\ avail' = avail + job.left
      /\ base' = IF job.left = 0 THEN base ELSE fed - job.left
      /\ got' = OK /\ UNCHANGED histVars
  BY <1>1 DEF KeepRest
<1>4. ClientKinds'
  BY <1>1, <1>2, <1>3 DEF Filter, ClientKinds
<1>5. Room'
  BY <1>1, <1>2, <1>3 DEF Filter, Room
<1>6. Buffering'
  BY <1>1, <1>2, <1>3 DEF Filter, Buffering
<1>7. WholeBlocks'
  BY <1>1, <1>2, <1>3 DEF Filter, WholeBlocks
<1>8. LastGiven'
  BY <1>2 DEF LastGiven
<1> QED BY <1>4, <1>5, <1>6, <1>7, <1>8 DEF Filter

(* The last block holds what is in the copy buffer and less padding than   *)
(* its unit, and is a whole block or a number of units.                    *)
LEMMA LastBlockIs ==
  ASSUME ClientKinds, avail > 0, avail < bytes_per_block
  PROVE  /\ LastBlock \in Nat /\ avail <= LastBlock /\ LastBlock - avail < LastUnit
         /\ LastBlock = bytes_per_block \/ (LastBlock < bytes_per_block /\ LastBlock % LastUnit = 0)
<1>1. avail \in Nat /\ bytes_per_block \in Nat /\ bytes_in_last_block \in Int
  BY DEF ClientKinds
<1>2. CASE bytes_in_last_block <= 0
  <2>1. LastBlock = bytes_per_block /\ LastUnit = bytes_per_block
    BY <1>1, <1>2 DEF LastBlock, LastUnit
  <2> QED BY <1>1, <2>1
<1>3. CASE bytes_in_last_block > 0
  <2>1. PICK u \in Nat \ {0} : u = bytes_in_last_block
    BY <1>1, <1>3
  <2>2. PICK c \in Nat : /\ c = u * ((avail + u - 1) \div u)
                         /\ avail <= c /\ c < avail + u /\ c % u = 0
    BY <1>1, Ceil
  <2>3. LastBlock = (IF bytes_per_block < c THEN bytes_per_block ELSE c)
    BY <1>1, <1>3, <2>1, <2>2 DEF LastBlock, minimum
  <2>4. LastUnit = (IF u < bytes_per_block THEN u ELSE bytes_per_block)
    BY <1>1, <1>3, <2>1 DEF LastUnit, minimum
  <2>5. c < bytes_per_block => c % LastUnit = 0
    <3>1. ASSUME c < bytes_per_block PROVE LastUnit = u
      <4>1. ASSUME c < u PROVE FALSE
        <5>1. (u * 0 + c) % u = c
          BY <4>1, DivUnique
        <5>2. u * 0 + c = c
          OBVIOUS
        <5>3. c = 0
          BY <2>2, <5>1, <5>2
        <5> QED BY <1>1, <2>2, <5>3
      <4>2. c >= u
        BY <4>1
      <4> QED BY <1>1, <2>4, <3>1, <4>2
    <3> QED BY <2>2, <3>1
  <2>6. c <= bytes_per_block => LastBlock = c
    BY <1>1, <2>3
  <2>7. c > bytes_per_block => LastBlock = bytes_per_block
    BY <1>1, <2>3
  <2> QED BY <1>1, <2>2, <2>4, <2>5, <2>6, <2>7
<1> QED BY <1>1, <1>2, <1>3

(* The client has everything in whole blocks, or the last block as well.   *)
LEMMA PaddedWithoutRest ==
  ASSUME ClientKinds, given = fed,
         bytes_per_block > 0 /\ shorts = 0 => given % bytes_per_block = 0
  PROVE  Padded
<1>1. LastUnit > 0
  BY DEF ClientKinds, LastUnit, minimum
<1>2. given - fed = 0 /\ given >= fed
  BY DEF ClientKinds
<1> QED BY <1>1, <1>2 DEF Padded

LEMMA PaddedWithRest ==
  ASSUME ClientKinds, 0 < avail, avail < bytes_per_block, fed = base + avail,
         NEW g, g = base + LastBlock, NEW few \in BOOLEAN, few => base % bytes_per_block = 0
  PROVE  /\ g >= fed /\ g - fed < LastUnit
         /\ few => LET tail == g % bytes_per_block IN tail # 0 => tail % LastUnit = 0
<1>1. avail \in Nat /\ bytes_per_block \in Nat \ {0} /\ base \in Nat /\ fed \in Nat
  BY DEF ClientKinds
<1>2. /\ LastBlock \in Nat /\ avail <= LastBlock /\ LastBlock - avail < LastUnit
      /\ LastBlock = bytes_per_block \/ (LastBlock < bytes_per_block /\ LastBlock % LastUnit = 0)
  BY LastBlockIs
<1>3. LastUnit \in Int
  BY DEF LastUnit, minimum, ClientKinds
<1>4. g >= fed /\ g - fed < LastUnit
  BY <1>1, <1>2, <1>3
<1>5. ASSUME few, LastBlock = bytes_per_block PROVE g % bytes_per_block = 0
  <2>1. (base + bytes_per_block) % bytes_per_block = 0
    BY <1>1, <1>5, Wrap
  <2> QED BY <1>5, <2>1
<1>6. ASSUME few, LastBlock < bytes_per_block, LastBlock % LastUnit = 0
      PROVE  (g % bytes_per_block) % LastUnit = 0
  <2>1. LastBlock \in 0..(bytes_per_block - 1)
    BY <1>1, <1>2, <1>6
  <2>2. (base + LastBlock) % bytes_per_block = LastBlock
    BY <1>1, <1>6, <2>1, Wrap
  <2>3. g % bytes_per_block = LastBlock
    BY <2>2
  <2> QED BY <1>6, <2>3
<1> QED BY <1>2, <1>4, <1>5, <1>6

LEMMA FilterCloses ==
  ASSUME Filter, client = "open", job = NoJob, ClientClose, UNCHANGED <<client, blockVars>>
  PROVE  Filter'
<1> USE DEF blockVars, histVars
<1>1. /\ job.at = "idle" /\ job.left = 0 /\ job.done = 0
      /\ ClientKinds /\ Room /\ avail \in Nat /\ bytes_per_block \in Nat
      /\ base \in Nat /\ fed \in Nat /\ given \in Nat
  BY DEF NoJob, Filter, ClientKinds
<1>2. /\ got' = OK /\ UNCHANGED <<base, avail, histVars>> /\ UNCHANGED LastBlock
      /\ job'.at = "last" /\ job'.left = (IF avail = 0 THEN 0 ELSE LastBlock) /\ job'.done = 0
  BY DEF ClientClose, LastBlock
<1>3. LastBlock \in Nat /\ (avail > 0 => LastBlock > 0)
  <2>1. CASE bytes_in_last_block <= 0
    BY <1>1, <2>1 DEF LastBlock, Room
  <2>2. CASE bytes_in_last_block > 0
    <3>1. PICK u \in Nat \ {0} : u = bytes_in_last_block
      BY <2>2 DEF Filter, ClientKinds
    <3>2. PICK c \in Nat : c = u * ((avail + u - 1) \div u) /\ avail <= c
      BY <1>1, Ceil
    <3>3. LastBlock = (IF bytes_per_block < c THEN bytes_per_block ELSE c)
      BY <2>2, <3>1, <3>2 DEF LastBlock, minimum
    <3> QED BY <1>1, <3>2, <3>3 DEF Room
  <2> QED BY <2>1, <2>2 DEF Filter, ClientKinds
<1>4. job' = [at |-> "last", left |-> IF avail = 0 THEN 0 ELSE LastBlock, done |-> 0]
  BY DEF ClientClose
<1>5. job' \in Jobs
  BY <1>1, <1>3, <1>4 DEF Jobs
<1>6. ClientKinds'
  BY <1>1, <1>2, <1>5 DEF ClientKinds
<1>7. Room'
  BY <1>1, <1>2 DEF Room
<1>8. Buffering'
  BY <1>1, <1>2, <1>3 DEF Filter, Buffering
<1>9. WholeBlocks'
  BY <1>1, <1>2, <1>3 DEF Filter, WholeBlocks
<1>10. LastGiven'
  <2>1. ASSUME job'.left = 0, ~failed' PROVE Padded'
    <3>1. avail = 0 /\ ~failed
      BY <1>1, <1>2, <1>3, <2>1
    <3>2. given = fed
      BY <1>1, <3>1 DEF Filter, Buffering
    <3>3. bytes_per_block > 0 /\ shorts = 0 => given % bytes_per_block = 0
      BY <1>1, <3>1 DEF Filter, WholeBlocks
    <3>4. Padded
      BY <1>1, <3>2, <3>3, PaddedWithoutRest
    <3>5. UNCHANGED LastUnit
      BY DEF LastUnit
    <3> QED BY <1>2, <3>4, <3>5 DEF Padded
  <2> QED BY <2>1 DEF LastGiven
<1> QED BY <1>6, <1>7, <1>8, <1>9, <1>10 DEF Filter

LEMMA FilterGivesLast ==
  ASSUME Filter, client = "open", job.at = "last", job.left > 0, UNCHANGED <<client, blockVars>>,
         NEW n \in Takes(job.left), Taken(base + job.done, job.left, n),
         job' = [job EXCEPT !.left = @ - n, !.done = @ + n], UNCHANGED <<base, avail, got>>
  PROVE  Filter'
<1> USE DEF blockVars
<1>1. /\ ClientKinds /\ Room /\ job = [at |-> job.at, left |-> job.left, done |-> job.done]
      /\ avail \in Nat /\ fed \in Nat /\ given \in Nat /\ base \in Nat
      /\ bytes_per_block \in Nat /\ job.left \in Nat /\ job.done \in Nat
  BY DEF Filter, ClientKinds, Jobs
<1>2. /\ n \in 1..job.left /\ given' = given + n /\ given' \in Nat
      /\ inOrder' \in BOOLEAN /\ (inOrder /\ base + job.done = given => inOrder')
      /\ shorts' \in Nat /\ (shorts' = 0 => shorts = 0 /\ n = job.left)
      /\ ragged' \in BOOLEAN
      /\ UNCHANGED <<fed, failed, broke>>
  BY <1>1, TakenIs
<1>3. job' = [at |-> "last", left |-> job.left - n, done |-> job.done + n]
  BY <1>1
<1>4. /\ job' \in Jobs /\ job'.at = "last" /\ job'.left = job.left - n /\ job'.done = job.done + n
      /\ job'.left \in Nat
  BY <1>1, <1>2, <1>3 DEF Jobs
<1>5. UNCHANGED <<LastBlock, LastUnit>>
  BY DEF LastBlock, LastUnit
<1>6. ~failed => /\ avail > 0 /\ base + job.done = given /\ fed = base + avail
                 /\ job.done + job.left = LastBlock
  BY <1>1 DEF Filter, Buffering
<1>7. ClientKinds'
  BY <1>1, <1>2, <1>4 DEF ClientKinds
<1>8. Room'
  BY <1>1, <1>2, <1>4 DEF Room
<1>9. Buffering'
  <2>1. ASSUME ~failed PROVE inOrder' /\ base + (job.done + n) = given + n
                             /\ (job.done + n) + (job.left - n) = LastBlock
    BY <1>1, <1>2, <1>6, <2>1 DEF Filter, Buffering
  <2> QED BY <1>2, <1>4, <1>5, <1>6, <2>1 DEF Buffering
<1>10. WholeBlocks'
  <2>1. ASSUME shorts' = 0 PROVE job'.left = 0
    BY <1>1, <1>2, <1>4, <2>1
  <2>2. ~failed => ~(avail = 0)
    BY <1>1, <1>6
  <2> QED BY <1>2, <1>4, <2>1, <2>2 DEF WholeBlocks
<1>11. LastGiven'
  <2>1. ASSUME job'.left = 0, ~failed PROVE Padded'
    <3>1. /\ avail > 0 /\ avail < bytes_per_block /\ fed = base + avail
          /\ given' = base + LastBlock
      BY <1>1, <1>2, <1>4, <1>6, <2>1 DEF Room
    <3>2. ASSUME shorts' = 0 PROVE base % bytes_per_block = 0
      <4>1. job.done = 0 /\ base = given /\ given % bytes_per_block = 0
        BY <1>1, <1>2, <1>6, <2>1, <3>1, <3>2 DEF Filter, WholeBlocks
      <4> QED BY <4>1
    <3> DEFINE few == shorts' = 0
    <3>3. few \in BOOLEAN /\ (few => base % bytes_per_block = 0)
      BY <3>2
    <3> HIDE DEF few
    <3>4. /\ given' >= fed /\ given' - fed < LastUnit
          /\ few => LET tail == given' % bytes_per_block IN tail # 0 => tail % LastUnit = 0
      BY <1>1, <3>1, <3>3, PaddedWithRest
    <3> QED BY <1>2, <1>5, <3>4 DEF Padded, few
  <2> QED BY <1>2, <2>1 DEF LastGiven
<1> QED BY <1>7, <1>8, <1>9, <1>10, <1>11 DEF Filter

(* The client filter is closed: it is not written to again.                *)
LEMMA FilterEnds ==
  ASSUME Filter, job.at \in {"idle", "last"}, job' = NoJob, client' # "open",
         UNCHANGED <<blockVars, base, avail, got, histVars>>
  PROVE  Filter'
<1> USE DEF blockVars, histVars
<1>1. job'.at = "idle" /\ job'.left = 0 /\ job'.done = 0 /\ job' \in Jobs
  BY DEF NoJob, Jobs
<1>2. ClientKinds' /\ Room'
  BY <1>1 DEF Filter, ClientKinds, Room
<1>3. Buffering' /\ WholeBlocks' /\ LastGiven'
  BY <1>1 DEF Filter, Buffering, WholeBlocks, LastGiven
<1> QED BY <1>2, <1>3 DEF Filter

LEMMA FilterSteps == Filter /\ client = "open" /\ ClientSteps => Filter'
<1> SUFFICES ASSUME Filter, client = "open", ClientSteps PROVE Filter'
  OBVIOUS
<1>1. UNCHANGED <<client, blockVars>>
  BY DEF ClientSteps
<1>2. CASE FlushBuffer
  <2>1. CASE WriterFails
    BY <1>1, <1>2, <2>1, FilterFails DEF FlushBuffer
  <2>2. CASE ~WriterFails
    <3>1. PICK n \in Takes(bytes_per_block - job.done) :
            /\ Taken(base + job.done, bytes_per_block - job.done, n) /\ Flushed(n)
            /\ UNCHANGED <<base, got>>
      BY <1>2, <2>2 DEF FlushBuffer
    <3> QED BY <1>1, <1>2, <3>1, FilterFlushes DEF FlushBuffer
  <2> QED BY <2>1, <2>2
<1>3. CASE WriteDirect
  <2>1. CASE WriterFails
    BY <1>1, <1>3, <2>1, FilterFails DEF WriteDirect
  <2>2. CASE ~WriterFails
    <3>1. PICK n \in Takes(DirectLength) :
            /\ Taken(fed - job.left, DirectLength, n) /\ job' = [job EXCEPT !.left = @ - n]
            /\ UNCHANGED <<base, avail, got>>
      BY <1>3, <2>2 DEF WriteDirect
    <3> QED BY <1>1, <1>3, <3>1, FilterGivesBlocks DEF WriteDirect
  <2> QED BY <2>1, <2>2
<1>4. CASE KeepRest
  BY <1>1, <1>4, FilterKeepsRest
<1>5. CASE WriteLast
  <2>1. CASE WriterFails
    BY <1>1, <1>5, <2>1, FilterFails DEF WriteLast
  <2>2. CASE ~WriterFails
    <3>1. PICK n \in Takes(job.left) :
            /\ Taken(base + job.done, job.left, n)
            /\ job' = [job EXCEPT !.left = @ - n, !.done = @ + n]
            /\ UNCHANGED <<base, avail, got>>
      BY <1>5, <2>2 DEF WriteLast
    <3> QED BY <1>1, <1>5, <3>1, FilterGivesLast DEF WriteLast
  <2> QED BY <2>1, <2>2
<1> QED BY <1>2, <1>3, <1>4, <1>5 DEF ClientSteps

-----------------------------------------------------------------------------
(* The invariant at first, and what it implies.                            *)

LEMMA DeliveringInit == Init => Delivering
<1> SUFFICES ASSUME Init PROVE Delivering
  OBVIOUS
<1>1. Pairing
  BY PairingInit
<1>2. /\ job = NoJob /\ job.at = "idle" /\ job.left = 0 /\ job.done = 0 /\ job \in Jobs
      /\ base = 0 /\ avail = 0 /\ fed = 0 /\ given = 0 /\ shorts = 0 /\ got = OK
      /\ inOrder = TRUE /\ failed = FALSE /\ broke = FALSE /\ ragged = FALSE
      /\ client = "none" /\ bytes_per_block \in Nat /\ bytes_in_last_block \in Int
  BY WriteArchiveAssumption DEF Init, ClientInit, NoJob, Jobs
<1>3. ClientKinds /\ Room /\ Buffering /\ LastGiven
  <2>1. ClientKinds
    BY <1>2 DEF ClientKinds
  <2>2. Room
    BY <1>2 DEF Room
  <2>3. Buffering
    BY <1>2 DEF Buffering
  <2>4. LastGiven
    BY <1>2 DEF LastGiven
  <2> QED BY <2>1, <2>2, <2>3, <2>4
<1>4. WholeBlocks
  BY <1>2 DEF WholeBlocks
<1>5. /\ state = "new" /\ call = Idle /\ encoder \in {"none", "new"} /\ hold = 0 /\ encoded = 0
      /\ format \in BOOLEAN /\ remaining = 0 /\ padding = 0 /\ framed = 0 /\ output = 0
      /\ reply.op = "none" /\ reply.code = OK /\ reply.broke = FALSE
  BY DEF Init
<1>6. ArchiveKinds
  <2>1. 0 \in 0..(Line - 1)
    BY WriteArchiveAssumption
  <2> QED BY <1>2, <1>5, <2>1 DEF ArchiveKinds, States, FilterStates, Codes
<1>7. Fresh /\ Staged /\ Chain /\ Framing /\ Closing
  BY <1>2, <1>5 DEF Fresh, Staged, Chain, Framing, Closing
<1>8. Keeping
  BY <1>2, <1>5 DEF Keeping
<1> QED BY <1>1, <1>3, <1>4, <1>6, <1>7, <1>8 DEF Delivering, Filter, Archive

LEMMA DeliveringImplies ==
  Delivering => TypeOK /\ Delivered /\ EntryFramed /\ ClosedComplete
<1> SUFFICES ASSUME Delivering PROVE TypeOK /\ Delivered /\ EntryFramed /\ ClosedComplete
  OBVIOUS
<1>1. TypeOK
  <2>1. /\ job.at \in {"idle", "flush", "blocks", "last"} /\ job.left \in Nat /\ job.done \in Nat
        /\ avail \in 0..bytes_per_block /\ got \in Codes
    BY DEF Delivering, Filter, ClientKinds, Room, Jobs, Codes
  <2>2. job.at \in {"idle", "blocks"} /\ ~failed /\ avail > 0 => avail < bytes_per_block
    BY DEF Delivering, Filter, Room
  <2>3. call = Idle \/ (call.todo \in Nat /\ call.ret \in Codes)
    BY DEF Delivering, Archive, ArchiveKinds, Codes
  <2>4. {base, fed, given, shorts, output, framed, encoded, remaining, padding} \subseteq Nat
    BY DEF Delivering, Filter, Archive, ClientKinds, ArchiveKinds
  <2>5. {format, inOrder, failed, broke, ragged, reply.broke} \subseteq BOOLEAN
    BY DEF Delivering, Filter, Archive, ClientKinds, ArchiveKinds
  <2>6. /\ state \in States /\ client \in FilterStates /\ encoder \in FilterStates
        /\ hold \in 0..(Line - 1) /\ reply.code \in Codes
    BY DEF Delivering, Archive, ArchiveKinds
  <2> QED BY <2>1, <2>2, <2>3, <2>4, <2>5, <2>6 DEF TypeOK
<1>2. Delivered
  <2>1. job = NoJob => job.at = "idle" /\ job.left = 0
    BY DEF NoJob
  <2>2. ~failed => inOrder /\ (job = NoJob /\ client = "open" => given + avail = fed)
    BY <2>1 DEF Delivering, Filter, Buffering, ClientKinds
  <2>3. Keeping
    BY DEF Delivering, Archive
  <2> QED BY <2>2, <2>3 DEF Delivered, Keeping
<1>3. EntryFramed
  BY DEF Delivering, Archive, Framing, Trailer, EntryFramed
<1>4. ClosedComplete
  <2>1. ASSUME state = "closed", reply.op = "close", reply.code = OK, ~failed
        PROVE  inOrder /\ fed = Whole /\ Padded
    <3>1. inOrder /\ Padded
      BY <2>1 DEF Delivering, Filter, Buffering, Archive, Closing
    <3>2. fed = Whole
      BY <2>1 DEF Delivering, Archive, ArchiveKinds, FilterStates, Chain, Keeping, Whole
    <3> QED BY <3>1, <3>2
  <2> QED BY <2>1 DEF ClosedComplete, Padded
<1> QED BY <1>1, <1>2, <1>3, <1>4

-----------------------------------------------------------------------------
(* The calls of the API.                                                   *)

(* What the invariants of the archive speak of besides the call.           *)
keptVars == <<client, encoder, hold, encoded, bytes_per_block, output, framed, format,
              base, avail, job, fed, given, inOrder, failed, shorts, ragged>>

LEMMA BufferKept == UNCHANGED bytes_per_block => UNCHANGED EncoderBuffer
  BY DEF EncoderBuffer

(* A call that returns at once and writes nothing.                         *)
LEMMA QuickAnswer ==
  ASSUME Delivering, Ready, call' = Idle, UNCHANGED keptVars, UNCHANGED <<remaining, padding>>,
         state' \in {state, "fatal", "freed", "abandoned"},
         reply'.op # "close" \/ state' \in {"fatal"},
         reply'.code \in Codes, reply'.broke \in BOOLEAN
  PROVE  Archive'
<1> USE DEF keptVars
<1>1. call = Idle
  BY DEF Ready
<1>2. ArchiveKinds' /\ Fresh'
  BY <1>1 DEF Delivering, Archive, ArchiveKinds, Fresh, States
<1>3. Staged'
  BY <1>1 DEF Delivering, Archive, Staged
<1>4. Chain'
  BY <1>1, BufferKept DEF Delivering, Archive, Chain
<1>5. Keeping'
  BY <1>1 DEF Delivering, Archive, Keeping, Whole, Lines
<1>6. Framing' /\ Closing'
  BY <1>1 DEF Delivering, Archive, Framing, Trailer, Closing
<1> QED BY <1>2, <1>3, <1>4, <1>5, <1>6 DEF Archive

(* The fields of a call that begins.                                       *)
LEMMA BeginsIs ==
  ASSUME NEW op, NEW stage, NEW todo, NEW entry, Begins(op, stage, todo, entry), op # "idle"
  PROVE  /\ call'.op = op /\ call'.stage = stage /\ call'.todo = todo /\ call'.ret = OK
         /\ call'.entry = entry /\ call' # Idle /\ got' = OK /\ broke' = FALSE
         /\ UNCHANGED <<reply, copyVars, fed, given, inOrder, failed, shorts, ragged>>
<1>1. /\ call'.op = op /\ call'.stage = stage /\ call'.todo = todo /\ call'.ret = OK
      /\ call'.entry = entry
  BY DEF Begins
<1>2. Idle.op = "idle"
  BY DEF Idle
<1> QED BY <1>1, <1>2 DEF Begins

(* A call begins with the rest of the entry in progress.                   *)
LEMMA BeginsWithRest ==
  ASSUME Delivering, Ready, state \in {"header", "data", "fatal"},
         NEW op \in {"header", "finish", "close", "free"}, state = "fatal" => op = "close",
         NEW entry, entry.size \in Nat, Begins(op, "finish", Unfinished, entry),
         UNCHANGED <<state, client, encoderVars, formatVars, output, bytes_per_block>>
  PROVE  Archive'
<1> USE DEF encoderVars, formatVars, copyVars
<1>1. /\ call'.op = op /\ call'.stage = "finish" /\ call'.todo = Unfinished /\ call'.ret = OK
      /\ call'.entry = entry /\ call' # Idle
      /\ UNCHANGED <<reply, base, avail, job, fed, given, inOrder, failed, shorts, ragged>>
  BY BeginsIs
<1>2. call = Idle
  BY DEF Ready
<1>3. Unfinished \in Nat
  BY DEF Unfinished, Delivering, Archive, ArchiveKinds
<1>4. ArchiveKinds' /\ Fresh'
  BY <1>1, <1>3 DEF Delivering, Archive, ArchiveKinds, Fresh
<1>5. Staged'
  BY <1>1, <1>2 DEF Delivering, Archive, Staged, Stages
<1>6. Chain'
  BY <1>1, <1>2, BufferKept DEF Delivering, Archive, Chain, Stages, NoJob
<1>7. Keeping'
  BY <1>1, <1>2 DEF Delivering, Archive, Keeping, Whole, Lines
<1>8. Framing'
  BY <1>1, <1>2 DEF Delivering, Archive, ArchiveKinds, Framing, Unfinished
<1>9. Closing'
  BY <1>1 DEF Closing
<1> QED BY <1>4, <1>5, <1>6, <1>7, <1>8, <1>9 DEF Archive

LEMMA DataBeginsKeeps ==
  ASSUME Delivering, NEW s \in Amounts, DataBegins(s)
  PROVE  Archive'
<1> USE DEF encoderVars, formatVars, copyVars, blockVars
<1>1. /\ call'.op = "data" /\ call'.stage = "body" /\ call'.todo = Accepted(s) /\ call'.ret = OK
      /\ call'.entry = NoEntry /\ call' # Idle
      /\ UNCHANGED <<reply, base, avail, job, fed, given, inOrder, failed, shorts, ragged>>
  <2>1. /\ call' = [op |-> "data", stage |-> "body", todo |-> Accepted(s), ret |-> OK,
                   entry |-> NoEntry]
        /\ UNCHANGED <<reply, copyVars, fed, given, inOrder, failed, shorts, ragged>>
    BY DEF DataBegins, Begins
  <2>2. call'.op # Idle.op
    BY <2>1 DEF Idle
  <2> QED BY <2>1, <2>2
<1>2. /\ call = Idle /\ state = "data" /\ remaining' = remaining - Accepted(s)
      /\ UNCHANGED <<state, client, encoder, hold, encoded, format, padding, framed, output,
                     bytes_per_block>>
  BY DEF DataBegins, Ready, Allowed
<1>3. Accepted(s) \in Nat /\ remaining - Accepted(s) \in Nat /\ NoEntry.size \in Nat
  BY WriteArchiveAssumption DEF Accepted, minimum, Delivering, Archive, ArchiveKinds, NoEntry
<1>4. ArchiveKinds' /\ Fresh'
  BY <1>1, <1>2, <1>3 DEF Delivering, Archive, ArchiveKinds, Fresh
<1>5. Staged'
  BY <1>1, <1>2 DEF Delivering, Archive, Staged, Stages
<1>6. Chain'
  BY <1>1, <1>2, BufferKept DEF Delivering, Archive, Chain, Stages, NoJob
<1>7. Keeping'
  BY <1>1, <1>2 DEF Delivering, Archive, Keeping, Whole, Lines
<1>8. Framing'
  BY <1>1, <1>2, <1>3 DEF Delivering, Archive, ArchiveKinds, Framing
<1>9. Closing'
  BY <1>1, <1>2 DEF Closing
<1> QED BY <1>4, <1>5, <1>6, <1>7, <1>8, <1>9 DEF Archive

LEMMA OpenKeeps ==
  ASSUME Delivering, Open
  PROVE  Filter' /\ Archive'
<1> USE DEF encoderVars, formatVars, blockVars, histVars
<1>1. /\ call = Idle /\ state = "new" /\ job = NoJob /\ avail = 0 /\ base = 0 /\ fed = 0
      /\ given = 0 /\ output = 0 /\ framed = 0 /\ hold = 0 /\ shorts = 0
      /\ inOrder /\ ~failed /\ ~ragged /\ encoder \in {"none", "new"}
      /\ bytes_per_block \in Nat
  BY DEF Open, Ready, Delivering, Archive, Fresh, Filter, ClientKinds
<1>2. /\ call' = Idle /\ reply' = [op |-> "open", code |-> reply'.code, broke |-> FALSE]
      /\ reply'.code \in {OK, FATAL}
      /\ avail' = 0 /\ UNCHANGED <<blockVars, base, job, got, histVars, formatVars, output>>
  BY <1>1 DEF Open, OpenFails, Returns
<1>3. Filter'
  BY <1>1, <1>2, FilterOpens DEF Delivering
<1>4. /\ reply'.op = "open" /\ reply'.broke = FALSE
      /\ \/ state' = "new" /\ client' = "none" /\ encoder' = "none" /\ hold' = 0 /\ encoded' = 0
         \/ /\ state' = "header" /\ client' = "open" /\ hold' = 0
            /\ \/ encoder' = "none" /\ encoded' = encoded
               \/ encoder' = "open" /\ encoded' = 1
  BY <1>1, <1>2 DEF Open, OpenFails
<1>5. encoded' \in Nat /\ 0 \in 0..(Line - 1)
  BY <1>4, WriteArchiveAssumption DEF Delivering, Archive, ArchiveKinds
<1>6. ArchiveKinds'
  BY <1>2, <1>4, <1>5 DEF Delivering, Archive, ArchiveKinds, States, FilterStates, Codes
<1>7. Fresh' /\ Staged' /\ Closing'
  BY <1>1, <1>2, <1>4 DEF Fresh, Staged, Closing
<1>8. Chain'
  <2>1. EncoderBuffer > 1 /\ UNCHANGED EncoderBuffer
    BY <1>1, <1>2, EncoderBufferHolds, BufferKept
  <2>2. EncoderBuffer' > 1
    BY <2>1
  <2> QED BY <1>1, <1>2, <1>4, <2>2 DEF Chain
<1>9. Keeping'
  <2>1. 0 \div Line = 0 /\ 0 % Line = 0 /\ Line \in Nat
    <3>1. (Line * 0 + 0) \div Line = 0 /\ (Line * 0 + 0) % Line = 0
      BY DivUnique, WriteArchiveAssumption
    <3>2. Line \in Nat /\ Line * 0 + 0 = 0
      BY WriteArchiveAssumption
    <3> QED BY <3>1, <3>2
  <2>2. Lines(0) = 0
    BY <2>1 DEF Lines, Encoded
  <2> QED BY <1>1, <1>2, <1>4, <2>1, <2>2 DEF Keeping
<1>10. Framing'
  BY <1>1, <1>2, <1>4 DEF Framing
<1> QED BY <1>3, <1>6, <1>7, <1>8, <1>9, <1>10 DEF Archive

-----------------------------------------------------------------------------
(* The stages of a call in progress.                                       *)

(* A call in progress is one of these.                                     *)
LEMMA CallIs ==
  ASSUME Delivering, call # Idle
  PROVE  /\ call = [op |-> call.op, stage |-> call.stage, todo |-> call.todo, ret |-> call.ret,
                    entry |-> call.entry]
         /\ call.op \in {"header", "finish", "data", "close", "free"}
         /\ call.stage \in Stages \cup {"filters", "encoder", "client", "free"}
         /\ call.todo \in Nat /\ call.ret \in {OK, FATAL} /\ call.entry.size \in Nat
         /\ state \notin {"new", "freed", "abandoned", "crashed"}
         /\ got \in {OK, FATAL}
<1>1. InProgress(call) /\ state \notin {"new", "freed", "abandoned"}
  BY DEF Delivering, Pairing, Agrees
<1>2. /\ call.op \in {"header", "finish", "data", "close", "free"}
      /\ call.stage \in Stages \cup {"filters", "encoder", "client", "free"}
      /\ state # "crashed"
  BY DEF Delivering, Archive, Staged
<1>3. /\ call.todo \in Nat /\ call.ret \in {OK, FATAL} /\ call.entry.size \in Nat
      /\ got \in {OK, FATAL}
  BY DEF Delivering, Filter, ClientKinds, Archive, ArchiveKinds
<1> QED BY <1>1, <1>2, <1>3 DEF InProgress

(* It goes on as one.                                                      *)
LEMMA CallStays ==
  ASSUME Delivering, call # Idle, NEW stage, NEW todo, NEW ret,
         call' = [op |-> call.op, stage |-> stage, todo |-> todo, ret |-> ret,
                  entry |-> call.entry]
  PROVE  /\ call' # Idle /\ call'.op = call.op /\ call'.stage = stage /\ call'.todo = todo
         /\ call'.ret = ret /\ call'.entry = call.entry
<1>1. /\ call'.op = call.op /\ call'.stage = stage /\ call'.todo = todo
      /\ call'.ret = ret /\ call'.entry = call.entry
  OBVIOUS
<1>2. call.op # "idle"
  BY CallIs
<1>3. Idle.op = "idle"
  BY DEF Idle
<1> QED BY <1>1, <1>2, <1>3

(* When the loop of the encoder is over it holds less than a buffer.       *)
LEMMA LoopOver ==
  ASSUME Delivering, ~Encoding, encoder = "open"
  PROVE  encoded < EncoderBuffer
<1>1. EncoderBuffer \in Nat /\ encoded \in Nat
  BY EncoderBufferHolds DEF Delivering, Filter, ClientKinds, Archive, ArchiveKinds
<1> QED BY <1>1 DEF Encoding

(* The encoder takes n bytes of the format into its lines.                 *)
LEMMA PutEncodes ==
  ASSUME Delivering, Put, NEW n \in Nat, n <= call.todo, encoder = "open",
         call' = [call EXCEPT !.todo = @ - n], output' = output + n, Encode(n),
         UNCHANGED <<copyVars, got, histVars, state>>
  PROVE  Filter' /\ Archive'
<1> USE DEF encoderVars, formatVars, blockVars, copyVars, histVars
<1>1. /\ call # Idle /\ call.stage \in Stages /\ job = NoJob /\ call.todo \in Nat
      /\ UNCHANGED <<blockVars, client, encoder, formatVars, reply>>
  BY CallIs DEF Put
<1>2. call' = [op |-> call.op, stage |-> call.stage, todo |-> call.todo - n, ret |-> call.ret,
               entry |-> call.entry]
  BY <1>1, CallIs
<1>3. /\ call' # Idle /\ call'.op = call.op /\ call'.stage = call.stage
      /\ call'.todo = call.todo - n /\ call'.ret = call.ret /\ call'.entry = call.entry
  BY <1>1, <1>2, CallStays
<1>4. Filter'
  <2>1. bytes_in_last_block \in Int /\ got \in {OK, FATAL} /\ broke \in BOOLEAN
    BY DEF Delivering, Filter, ClientKinds
  <2> QED BY <1>1, <2>1, FilterAtRest DEF Delivering, FilterRests
<1>5. /\ hold = output % Line /\ fed + encoded = 1 + Lines(output)
      /\ output \in Nat /\ encoded \in Nat /\ fed \in Nat /\ Line \in Nat \ {0}
      /\ hold \in 0..(Line - 1)
  BY <1>1, WriteArchiveAssumption
     DEF Delivering, Filter, ClientKinds, Archive, ArchiveKinds, Keeping, Stages
<1>6. /\ hold' = (output + n) % Line /\ hold' \in 0..(Line - 1)
      /\ encoded' \in Nat /\ fed' + encoded' = 1 + Lines(output')
  <2>1. /\ (hold + n) % Line = (output + n) % Line
        /\ (output \div Line) + ((hold + n) \div Line) = (output + n) \div Line
    BY <1>5, Carry
  <2>2. PICK p \in Nat, q \in Nat : p = output \div Line /\ q = (hold + n) \div Line
    <3>1. hold + n \in Nat
      BY <1>5
    <3> QED BY <1>5, <3>1, DivMod
  <2>3. encoded' = encoded + q * (Line + 1)
    BY <2>2 DEF Encode, Encoded
  <2>4. Lines(output') = (p + q) * (Line + 1) /\ Lines(output) = p * (Line + 1)
    BY <2>1, <2>2 DEF Lines, Encoded
  <2>5. (p + q) * (Line + 1) = p * (Line + 1) + q * (Line + 1) /\ q * (Line + 1) \in Nat
    BY <1>5
  <2>6. (output + n) % Line \in 0..(Line - 1)
    <3>1. output + n \in Nat
      BY <1>5
    <3> QED BY <1>5, <3>1, DivMod
  <2>7. p * (Line + 1) \in Nat
    BY <1>5
  <2>8. encoded' \in Nat /\ fed' + encoded' = 1 + Lines(output')
    BY <1>5, <2>3, <2>4, <2>5, <2>7
  <2>9. hold' = (hold + n) % Line
    BY DEF Encode
  <2> QED BY <2>1, <2>6, <2>8, <2>9
<1>7. ArchiveKinds'
  <2>1. output' \in Nat /\ call'.todo \in Nat
    BY <1>1, <1>3, <1>5
  <2> QED BY <1>1, <1>3, <1>6, <2>1 DEF Delivering, Archive, ArchiveKinds
<1>8. Fresh' /\ Staged' /\ Closing'
  <2>1. state # "new"
    BY <1>1, CallIs
  <2> QED BY <1>1, <1>3, <2>1 DEF Delivering, Archive, Fresh, Staged, Closing
<1>9. Chain'
  BY <1>1, <1>3 DEF Delivering, Archive, Chain, Stages
<1>10. Keeping'
  BY <1>1, <1>3, <1>6 DEF Keeping, Stages
<1>11. Framing'
  BY <1>1, <1>3, <1>5 DEF Delivering, Archive, ArchiveKinds, Framing, Trailer, Stages
<1> QED BY <1>4, <1>7, <1>8, <1>9, <1>10, <1>11 DEF Archive

(* Without an encoder they go to the client filter.                        *)
LEMMA PutWrites ==
  ASSUME Delivering, Put, NEW n \in Nat, n <= call.todo, encoder = "none", client = "open",
         call' = [call EXCEPT !.todo = @ - n], output' = output + n, ClientWrite(n),
         UNCHANGED <<hold, encoded, state>>
  PROVE  Filter' /\ Archive'
<1> USE DEF encoderVars, formatVars, blockVars
<1>1. /\ call # Idle /\ call.stage \in Stages /\ job = NoJob /\ call.todo \in Nat
      /\ UNCHANGED <<blockVars, client, encoder, formatVars, reply>>
  BY CallIs DEF Put
<1>2. call' = [op |-> call.op, stage |-> call.stage, todo |-> call.todo - n, ret |-> call.ret,
               entry |-> call.entry]
  BY <1>1, CallIs
<1>3. /\ call' # Idle /\ call'.op = call.op /\ call'.stage = call.stage
      /\ call'.todo = call.todo - n /\ call'.ret = call.ret /\ call'.entry = call.entry
  BY <1>1, <1>2, CallStays
<1>4. Filter'
  <2>1. bytes_in_last_block \in Int
    BY DEF Delivering, Filter, ClientKinds
  <2> QED BY <1>1, <2>1, FilterWrites DEF Delivering
<1>5. /\ fed' = fed + n /\ job'.at \in {"flush", "blocks"} /\ failed' = failed
      /\ UNCHANGED got
  BY DEF ClientWrite
<1>6. fed = output /\ output \in Nat /\ state # "new"
  BY <1>1, CallIs DEF Delivering, Archive, ArchiveKinds, Keeping
<1>7. ArchiveKinds'
  <2>1. output' \in Nat /\ call'.todo \in Nat
    BY <1>1, <1>3, <1>6
  <2> QED BY <1>1, <1>3, <2>1 DEF Delivering, Archive, ArchiveKinds
<1>8. Fresh' /\ Staged' /\ Closing'
  BY <1>1, <1>3, <1>6 DEF Delivering, Archive, Fresh, Staged, Closing
<1>9. Chain'
  BY <1>1, <1>3, <1>5 DEF Delivering, Archive, Chain, Stages
<1>10. Keeping'
  BY <1>1, <1>5, <1>6 DEF Keeping
<1>11. Framing'
  BY <1>1, <1>3, <1>6 DEF Delivering, Archive, ArchiveKinds, Framing, Trailer, Stages
<1> QED BY <1>4, <1>7, <1>8, <1>9, <1>10, <1>11 DEF Archive

(* What leaves the archive's own bookkeeping alone, whatever the client    *)
(* filter does.                                                            *)
archiveVars == <<state, client, encoder, hold, encoded, format, remaining, padding, framed,
                 call, reply, output, bytes_per_block, fed>>

LEMMA ArchiveRests ==
  ASSUME Delivering, call # Idle, UNCHANGED archiveVars,
         job' # NoJob => client = "open", job'.at = "last" => call.stage = "client",
         call.stage = "client" => job'.at = "last" \/ failed'
  PROVE  Archive'
<1> USE DEF archiveVars
<1>1. state # "new" /\ (state = "closed" => reply.op # "close")
  BY CallIs DEF Delivering, Archive, Staged
<1>2. ArchiveKinds' /\ Fresh' /\ Staged' /\ Closing'
  BY <1>1 DEF Delivering, Archive, ArchiveKinds, Fresh, Staged, Closing
<1>3. Chain'
  BY BufferKept DEF Delivering, Archive, Chain
<1>4. Keeping'
  BY DEF Delivering, Archive, Keeping, Whole, Lines
<1>5. Framing'
  BY DEF Delivering, Archive, Framing, Trailer
<1> QED BY <1>2, <1>3, <1>4, <1>5 DEF Archive

LEMMA PutKeeps == Delivering /\ Put => Filter' /\ Archive'
<1> SUFFICES ASSUME Delivering, Put PROVE Filter' /\ Archive'
  OBVIOUS
<1> USE DEF encoderVars, formatVars, blockVars
<1>1. /\ call # Idle /\ call.stage \in Stages /\ job = NoJob /\ call.todo \in Nat
      /\ UNCHANGED <<blockVars, client, encoder, formatVars, reply>>
      /\ bytes_in_last_block \in Int /\ broke \in BOOLEAN /\ got \in {OK, FATAL} /\ state # "new"
      /\ job.at = "idle"
  BY CallIs DEF Put, Delivering, Filter, ClientKinds, NoJob
<1>2. CASE /\ First = "none" /\ state' = "crashed" /\ call' = Idle
           /\ UNCHANGED <<copyVars, got, histVars, hold, encoded, output>>
  <2>1. Filter'
    BY <1>1, <1>2, FilterAtRest DEF Delivering, FilterRests, copyVars, histVars
  <2>2. encoder = "none"
    BY <1>2 DEF First
  <2>3. ArchiveKinds'
    BY <1>1, <1>2 DEF Delivering, Archive, ArchiveKinds, States
  <2>4. Fresh' /\ Staged' /\ Framing' /\ Closing'
    BY <1>1, <1>2 DEF Fresh, Staged, Framing, Closing
  <2>5. Chain' /\ Keeping'
    BY <1>1, <1>2, <2>2 DEF Delivering, Archive, Chain, Keeping, copyVars, histVars
  <2> QED BY <2>1, <2>3, <2>4, <2>5 DEF Archive
<1>3. CASE got' = FATAL /\ UNCHANGED <<state, call, copyVars, histVars, hold, encoded, output>>
  <2>1. Filter'
    BY <1>1, <1>3, FilterAtRest DEF Delivering, FilterRests, copyVars, histVars
  <2>2. Archive'
    BY <1>1, <1>3, ArchiveRests DEF archiveVars, copyVars, histVars, Stages
  <2> QED BY <2>1, <2>2
<1>4. ASSUME NEW n \in Nat, n <= call.todo, First = "open",
             call' = [call EXCEPT !.todo = @ - n], output' = output + n, UNCHANGED state,
             IF encoder = "open" THEN Encode(n) /\ UNCHANGED <<copyVars, got, histVars>>
             ELSE ClientWrite(n) /\ UNCHANGED <<hold, encoded>>
      PROVE  Filter' /\ Archive'
  <2>1. CASE encoder = "open"
    BY <1>4, <2>1, PutEncodes
  <2>2. CASE encoder # "open"
    <3>1. encoder = "none" /\ client = "open"
      BY <1>4, <2>2 DEF First
    <3> QED BY <1>4, <2>2, <3>1, PutWrites
  <2> QED BY <2>1, <2>2
<1>5. \A m : m = (IF call.stage \in {"finish", "trailer"} THEN minimum(call.todo, NullLength)
                  ELSE call.todo) => m \in Nat /\ m <= call.todo
  BY <1>1, WriteArchiveAssumption DEF minimum
<1> QED BY <1>2, <1>3, <1>4, <1>5 DEF Put

LEMMA PutEncodedKeeps == Delivering /\ PutEncoded => Filter' /\ Archive'
<1> SUFFICES ASSUME Delivering, PutEncoded PROVE Filter' /\ Archive'
  OBVIOUS
<1> USE DEF formatVars, blockVars
<1>1. /\ job = NoJob /\ encoder = "open" /\ encoded >= EncoderBuffer /\ ClientWrite(EncoderBuffer)
      /\ encoded' = encoded - EncoderBuffer
      /\ UNCHANGED <<blockVars, client, state, encoder, hold, formatVars, call, reply, output>>
  BY DEF PutEncoded, Encoding
<1>2. /\ EncoderBuffer \in Nat /\ encoded \in Nat /\ fed \in Nat /\ bytes_in_last_block \in Int
      /\ encoded - EncoderBuffer \in Nat /\ ~(encoded < EncoderBuffer)
  BY <1>1, EncoderBufferHolds DEF Delivering, Filter, ClientKinds, Archive, ArchiveKinds
<1>3. call # Idle /\ call.stage \notin {"filters", "encoder"} /\ client = "open"
  BY <1>1, <1>2 DEF Delivering, Archive, Chain
<1>4. Filter'
  BY <1>1, <1>2, <1>3, FilterWrites DEF Delivering
<1>5. /\ fed' = fed + EncoderBuffer /\ job'.at \in {"flush", "blocks"} /\ failed' = failed
  BY <1>1 DEF ClientWrite
<1>6. state # "new" /\ (state = "closed" => reply.op # "close")
  BY <1>3, CallIs DEF Delivering, Archive, Staged
<1>7. ArchiveKinds' /\ Fresh' /\ Staged' /\ Closing'
  BY <1>1, <1>2, <1>6 DEF Delivering, Archive, ArchiveKinds, Fresh, Staged, Closing
<1>8. Chain'
  BY <1>1, <1>3, <1>5 DEF Delivering, Archive, Chain
<1>9. Keeping'
  <2>1. hold = output % Line /\ fed + encoded = 1 + Lines(output)
    BY <1>1, <1>3 DEF Delivering, Archive, Keeping
  <2>2. fed' + encoded' = fed + encoded
    BY <1>1, <1>2, <1>5
  <2> QED BY <1>1, <1>3, <2>1, <2>2 DEF Keeping, Lines
<1>10. Framing'
  BY <1>1 DEF Delivering, Archive, Framing, Trailer
<1> QED BY <1>4, <1>7, <1>8, <1>9, <1>10 DEF Archive

LEMMA ClientStepsKeep == Delivering /\ ClientSteps => Filter' /\ Archive'
<1> SUFFICES ASSUME Delivering, ClientSteps PROVE Filter' /\ Archive'
  OBVIOUS
<1>1. /\ call # Idle
      /\ UNCHANGED <<blockVars, client, state, encoderVars, formatVars, call, reply, output>>
  BY DEF ClientSteps
<1>2. job # NoJob
  <2>1. job.at # "idle"
    BY DEF ClientSteps, FlushBuffer, WriteDirect, KeepRest, WriteLast
  <2> QED BY <2>1 DEF NoJob
<1>3. client = "open" /\ (job.at = "last" => call.stage = "client")
  BY <1>1, <1>2 DEF Delivering, Archive, Chain
<1>4. Filter'
  BY <1>3, FilterSteps DEF Delivering
<1>5. UNCHANGED fed
  BY DEF ClientSteps, FlushBuffer, WriteDirect, KeepRest, WriteLast, WriterFails, Taken, histVars
<1>6. (job'.at = "last" => job.at = "last") /\ (job.at = "last" => job'.at = "last" \/ failed')
  <2>1. job = [at |-> job.at, left |-> job.left, done |-> job.done]
    BY DEF Delivering, Filter, ClientKinds, Jobs
  <2>2. CASE job.at # "last" /\ (job' = NoJob \/ \E l, d : job' = [at |-> "blocks", left |-> l, done |-> d])
    BY <2>2 DEF NoJob
  <2>3. CASE job' = NoJob /\ failed'
    BY <2>3 DEF NoJob
  <2>4. CASE \E l, d : job' = [at |-> job.at, left |-> l, done |-> d]
    BY <2>4
  <2>5. \/ job.at # "last" /\ (job' = NoJob \/ \E l, d : job' = [at |-> "blocks", left |-> l, done |-> d])
        \/ job' = NoJob /\ failed'
        \/ \E l, d : job' = [at |-> job.at, left |-> l, done |-> d]
    <3>1. CASE FlushBuffer
      BY <2>1, <3>1 DEF FlushBuffer, WriterFails, Flushed
    <3>2. CASE WriteDirect
      BY <2>1, <3>2 DEF WriteDirect, WriterFails
    <3>3. CASE KeepRest
      BY <3>3 DEF KeepRest
    <3>4. CASE WriteLast
      BY <2>1, <3>4 DEF WriteLast, WriterFails
    <3> QED BY <3>1, <3>2, <3>3, <3>4 DEF ClientSteps
  <2> QED BY <2>2, <2>3, <2>4, <2>5
<1>8. UNCHANGED failed \/ failed'
  BY DEF ClientSteps, FlushBuffer, WriteDirect, KeepRest, WriteLast, WriterFails, Taken, histVars
<1>9. call.stage = "client" => job'.at = "last" \/ failed'
  BY <1>1, <1>6, <1>8 DEF Delivering, Archive, Chain
<1>7. Archive'
  BY <1>1, <1>3, <1>5, <1>6, <1>9, ArchiveRests DEF archiveVars, encoderVars, formatVars, blockVars
<1> QED BY <1>4, <1>7

(* The client filter rests while a stage of the archive ends.              *)
LEMMA StageRests ==
  ASSUME Delivering, UNCHANGED keptVars, UNCHANGED bytes_in_last_block,
         got' \in {OK, FATAL}, UNCHANGED broke
  PROVE  Filter'
<1>1. bytes_in_last_block \in Int /\ broke \in BOOLEAN
  BY DEF Delivering, Filter, ClientKinds
<1> QED BY <1>1, FilterAtRest DEF Delivering, FilterRests, keptVars

(* A stage that belongs to an entry ends the call, with or without success. *)
LEMMA StageEndsCall ==
  ASSUME Delivering, call # Idle, job = NoJob, ~Encoding, UNCHANGED keptVars, call' = Idle,
         state \in {"header", "data", "fatal"}, call.stage \in Stages,
         reply'.op = call.op, reply'.code \in Codes, reply'.broke \in BOOLEAN,
         remaining' \in Nat, padding' \in Nat,
         \/ state' = "fatal"
         \/ /\ state # "fatal" /\ state' \in {"header", "data"} /\ call.op # "close"
            /\ output + remaining' + padding' = framed
            /\ state' = "header" => remaining' = 0 /\ padding' = 0
  PROVE  Archive'
<1> USE DEF keptVars
<1>1. encoder = "open" => encoded < EncoderBuffer
  BY LoopOver
<1>2. ArchiveKinds' /\ Fresh' /\ Staged' /\ Closing'
  BY DEF Delivering, Archive, ArchiveKinds, Fresh, Staged, Closing, States
<1>3. Chain'
  BY <1>1, BufferKept DEF Delivering, Archive, Chain
<1>4. Keeping'
  BY DEF Delivering, Archive, Keeping, Whole, Lines, Stages
<1>5. Framing'
  <2>1. output \in Nat
    BY DEF Delivering, Archive, ArchiveKinds
  <2>2. state' = "header" => output = framed
    BY <2>1
  <2>3. state' \in {"fatal", "header", "data"}
    OBVIOUS
  <2>4. state' = "data" => output' + remaining' + padding' = framed'
    OBVIOUS
  <2> QED BY <2>2, <2>3, <2>4 DEF Framing
<1> QED BY <1>2, <1>3, <1>4, <1>5 DEF Archive

(* What holds when the stage of a header, an entry or its data is over.    *)
LEMMA StageOverIs ==
  ASSUME Delivering, NEW stage \in Stages, StageOver(stage)
  PROVE  /\ call # Idle /\ call.stage = stage /\ job = NoJob /\ ~Encoding
         /\ state \in {"header", "data", "fatal"} /\ (state = "fatal" => call.op = "close")
         /\ got = OK => call.todo = 0
         /\ stage = "header" => call.op = "header" /\ state = "header"
         /\ stage = "body" => call.op = "data" /\ state = "data"
         /\ stage = "trailer" => call.op \in {"close", "free"}
  BY DEF StageOver, Delivering, Archive, Staged, Stages

LEMMA EndsIs ==
  ASSUME Delivering, NEW op, NEW code, Ends(op, code)
  PROVE  /\ call' = Idle /\ reply'.op = op /\ reply'.code = code /\ reply'.broke = broke
         /\ broke \in BOOLEAN
  BY DEF Ends, Answer, Delivering, Filter, ClientKinds

LEMMA HeaderFinishesEntryKeeps == Delivering /\ HeaderFinishesEntry => Filter' /\ Archive'
<1> SUFFICES ASSUME Delivering, HeaderFinishesEntry PROVE Filter' /\ Archive'
  OBVIOUS
<1> USE DEF encoderVars, formatVars, blockVars, copyVars, histVars
<1>1. /\ call # Idle /\ call.stage = "finish" /\ call.op = "header" /\ job = NoJob /\ ~Encoding
      /\ state \in {"header", "data"} /\ (got = OK => call.todo = 0) /\ got \in {OK, FATAL}
  BY StageOverIs, CallIs DEF HeaderFinishesEntry, Stages
<1>2. /\ remaining' = 0 /\ padding' = 0 /\ UNCHANGED <<keptVars, bytes_in_last_block, got, broke>>
  BY DEF HeaderFinishesEntry, keptVars
<1>3. Filter'
  BY <1>1, <1>2, StageRests
<1>4. got = OK => output = framed /\ call.ret = OK
  BY <1>1 DEF Delivering, Archive, ArchiveKinds, Framing
<1>5. output \in Nat /\ framed \in Nat /\ 0 \in Nat
  BY DEF Delivering, Archive, ArchiveKinds
<1>6. CASE Dies
  <2>1. /\ call' = Idle /\ reply'.op = call.op /\ reply'.code = FATAL /\ reply'.broke \in BOOLEAN
        /\ state' = "fatal"
    BY <1>6, EndsIs DEF Dies
  <2>2. Archive'
    BY <1>1, <1>2, <2>1, StageEndsCall DEF Stages, Codes
  <2> QED BY <1>3, <2>2
<1>7. CASE got = OK /\ state' = "header" /\ Ends("header", FAILED)
  <2>1. /\ call' = Idle /\ reply'.op = "header" /\ reply'.code = FAILED /\ reply'.broke \in BOOLEAN
    BY <1>7, EndsIs
  <2>2. output + remaining' + padding' = framed
    BY <1>2, <1>4, <1>5, <1>7
  <2>3. Archive'
    BY <1>1, <1>2, <1>7, <2>1, <2>2, StageEndsCall DEF Stages, Codes
  <2> QED BY <1>3, <2>3
<1>8. CASE /\ got = OK /\ state' = "header" /\ UNCHANGED reply
           /\ call' = [call EXCEPT !.stage = "header", !.todo = Record]
  <2>1. call' = [op |-> call.op, stage |-> "header", todo |-> Record, ret |-> call.ret,
                 entry |-> call.entry]
    BY <1>1, <1>8, CallIs
  <2>2. /\ call' # Idle /\ call'.op = "header" /\ call'.stage = "header" /\ call'.todo = Record
        /\ call'.ret = call.ret /\ call'.entry = call.entry
    BY <1>1, <2>1, CallStays
  <2>3. ArchiveKinds'
    BY <1>1, <1>2, <1>8, <2>2, CallIs, WriteArchiveAssumption
       DEF Delivering, Archive, ArchiveKinds, keptVars, States
  <2>4. Fresh' /\ Staged' /\ Framing' /\ Closing'
    BY <1>1, <1>8, <2>2 DEF Delivering, Archive, Fresh, Staged, Framing, Closing, Stages
  <2>5. Chain'
    BY <1>1, <1>2, <1>8, <2>2 DEF Delivering, Archive, Chain, keptVars, Stages, NoJob
  <2>6. Keeping'
    BY <1>1, <1>2, <1>8, <2>2 DEF Delivering, Archive, Keeping, keptVars, Whole, Lines
  <2> QED BY <1>3, <2>3, <2>4, <2>5, <2>6 DEF Archive
<1> QED BY <1>6, <1>7, <1>8 DEF HeaderFinishesEntry

LEMMA HeaderEndsKeeps == Delivering /\ HeaderEnds => Filter' /\ Archive'
<1> SUFFICES ASSUME Delivering, HeaderEnds PROVE Filter' /\ Archive'
  OBVIOUS
<1> USE DEF encoderVars, blockVars, copyVars, histVars
<1>1. /\ call # Idle /\ call.stage = "header" /\ call.op = "header" /\ job = NoJob /\ ~Encoding
      /\ state = "header" /\ call.entry.size \in Nat /\ got \in {OK, FATAL}
  BY StageOverIs, CallIs DEF HeaderEnds, Stages
<1>2. UNCHANGED <<client, encoder, hold, encoded, bytes_per_block, bytes_in_last_block, output,
                  format, base, avail, job, fed, given, inOrder, failed, shorts, ragged, got, broke>>
  BY DEF HeaderEnds
<1>3. Filter'
  <2>1. bytes_in_last_block \in Int /\ broke \in BOOLEAN
    BY DEF Delivering, Filter, ClientKinds
  <2> QED BY <1>1, <1>2, <2>1, FilterAtRest DEF Delivering, FilterRests
<1>4. /\ output \in Nat /\ remaining \in Nat /\ padding \in Nat
      /\ encoder = "open" => encoded < EncoderBuffer
  BY <1>1, LoopOver DEF Delivering, Archive, ArchiveKinds
<1>5. CASE Dies /\ UNCHANGED <<remaining, padding, framed>>
  <2>1. /\ call' = Idle /\ reply'.op = call.op /\ reply'.code = FATAL /\ reply'.broke \in BOOLEAN
        /\ state' = "fatal"
    BY <1>5, EndsIs DEF Dies
  <2>2. Archive'
    BY <1>1, <1>2, <1>4, <1>5, <2>1, StageEndsCall DEF Stages, Codes, keptVars
  <2> QED BY <1>3, <2>2
<1>6. CASE got = OK /\ ~(Dies /\ UNCHANGED <<remaining, padding, framed>>)
  <2>1. PICK size \in Nat, code \in {OK, WARN} :
          /\ remaining' = size /\ padding' = Padding(size)
          /\ framed' = output + Record * ((size + Record - 1) \div Record)
          /\ state' = "data" /\ Ends("header", code)
    BY <1>1, <1>6 DEF HeaderEnds
  <2>2. /\ call' = Idle /\ reply'.op = "header" /\ reply'.code \in Codes /\ reply'.broke \in BOOLEAN
    BY <2>1, EndsIs DEF Codes
  <2>3. Padding(size) \in Nat /\ framed' = output + (size + Padding(size))
    BY <2>1, PaddingRounds
  <2>4. framed' \in Nat /\ output' + remaining' + padding' = framed'
    BY <1>2, <1>4, <2>1, <2>3
  <2>5. ArchiveKinds'
    BY <1>2, <2>1, <2>2, <2>3, <2>4 DEF Delivering, Archive, ArchiveKinds, States
  <2>6. Fresh' /\ Staged' /\ Framing' /\ Closing'
    BY <2>1, <2>2, <2>4 DEF Fresh, Staged, Framing, Closing
  <2>7. Chain'
    BY <1>1, <1>2, <1>4, <2>1, <2>2, BufferKept DEF Delivering, Archive, Chain, Stages
  <2>8. Keeping'
    BY <1>1, <1>2, <2>2 DEF Delivering, Archive, Keeping, Whole, Lines
  <2> QED BY <1>3, <2>5, <2>6, <2>7, <2>8 DEF Archive
<1> QED BY <1>5, <1>6 DEF HeaderEnds

LEMMA FinishEndsKeeps == Delivering /\ FinishEnds => Filter' /\ Archive'
<1> SUFFICES ASSUME Delivering, FinishEnds PROVE Filter' /\ Archive'
  OBVIOUS
<1> USE DEF encoderVars, blockVars, copyVars, histVars
<1>1. /\ call # Idle /\ call.stage = "finish" /\ call.op = "finish" /\ job = NoJob /\ ~Encoding
      /\ state \in {"header", "data"} /\ (got = OK => call.todo = 0) /\ got \in {OK, FATAL}
  BY StageOverIs, CallIs DEF FinishEnds, Stages
<1>2. /\ remaining' = 0 /\ padding' = 0 /\ UNCHANGED <<keptVars, bytes_in_last_block, got, broke>>
  BY DEF FinishEnds, keptVars
<1>3. Filter'
  BY <1>1, <1>2, StageRests
<1>4. output \in Nat /\ (got = OK => output + remaining' + padding' = framed)
  BY <1>1, <1>2 DEF Delivering, Archive, ArchiveKinds, Framing
<1>5. PICK code \in {OK, FATAL} : Ends("finish", code) /\ state' \in {"header", "fatal"}
                                  /\ (state' # "fatal" => got = OK)
  BY <1>1 DEF FinishEnds, Dies
<1>6. call' = Idle /\ reply'.op = "finish" /\ reply'.code \in Codes /\ reply'.broke \in BOOLEAN
  BY <1>5, EndsIs DEF Codes
<1>7. Archive'
  BY <1>1, <1>2, <1>4, <1>5, <1>6, StageEndsCall DEF Stages
<1> QED BY <1>3, <1>7

LEMMA DataEndsKeeps == Delivering /\ DataEnds => Filter' /\ Archive'
<1> SUFFICES ASSUME Delivering, DataEnds PROVE Filter' /\ Archive'
  OBVIOUS
<1> USE DEF encoderVars, formatVars, blockVars, copyVars, histVars
<1>1. /\ call # Idle /\ call.stage = "body" /\ call.op = "data" /\ job = NoJob /\ ~Encoding
      /\ state = "data" /\ (got = OK => call.todo = 0) /\ got \in {OK, FATAL}
  BY StageOverIs, CallIs DEF DataEnds, Stages
<1>2. UNCHANGED <<keptVars, bytes_in_last_block, got, broke, remaining, padding>>
  BY DEF DataEnds, keptVars
<1>3. Filter'
  BY <1>1, <1>2, StageRests
<1>4. /\ output \in Nat /\ remaining \in Nat /\ padding \in Nat
      /\ got = OK => output + remaining + padding = framed
  BY <1>1 DEF Delivering, Archive, ArchiveKinds, Framing
<1>5. PICK code \in {OK, FATAL} : Ends("data", code) /\ state' \in {"data", "fatal"}
                                  /\ (state' # "fatal" => got = OK)
  BY <1>1 DEF DataEnds, Dies
<1>6. call' = Idle /\ reply'.op = "data" /\ reply'.code \in Codes /\ reply'.broke \in BOOLEAN
  BY <1>5, EndsIs DEF Codes
<1>7. Archive'
  BY <1>1, <1>2, <1>4, <1>5, <1>6, StageEndsCall DEF Stages
<1> QED BY <1>3, <1>7

(* A close goes to its next stage: its result so far takes in what the     *)
(* last write answered.                                                    *)
LEMMA GoesIs ==
  ASSUME Delivering, call # Idle, NEW stage, NEW todo, Goes(stage, todo)
  PROVE  /\ call' # Idle /\ call'.op = call.op /\ call'.stage = stage /\ call'.todo = todo
         /\ call'.ret \in {OK, FATAL} /\ (call'.ret = OK => call.ret = OK /\ got = OK)
         /\ call'.entry = call.entry /\ UNCHANGED reply
<1>1. call' = [op |-> call.op, stage |-> stage, todo |-> todo, ret |-> Worst,
               entry |-> call.entry]
  BY CallIs DEF Goes
<1>2. Worst \in {OK, FATAL} /\ (Worst = OK <=> got = OK /\ call.ret = OK)
  BY CallIs, WorstOf
<1>3. /\ call' # Idle /\ call'.op = call.op /\ call'.stage = stage /\ call'.todo = todo
      /\ call'.ret = Worst /\ call'.entry = call.entry
  BY <1>1, CallStays
<1> QED BY <1>2, <1>3 DEF Goes

LEMMA GoesKeeps ==
  ASSUME Delivering, call # Idle, call.stage \notin {"free"}, call.op \in {"close", "free"},
         NEW stage \in {"trailer", "filters", "encoder", "client"}, NEW todo \in Nat,
         Goes(stage, todo), UNCHANGED <<state, client, hold, output, format, framed>>,
         encoder' \in FilterStates, encoded' \in Nat, remaining' \in Nat, padding' \in Nat
  PROVE  ArchiveKinds' /\ Fresh' /\ Staged' /\ Closing'
<1>1. /\ call' # Idle /\ call'.op = call.op /\ call'.stage = stage /\ call'.todo = todo
      /\ call'.ret \in {OK, FATAL} /\ call'.entry = call.entry /\ UNCHANGED reply
  BY GoesIs
<1>2. state \in {"header", "data", "fatal"} /\ call.entry.size \in Nat
  BY CallIs DEF Delivering, Archive, Staged
<1>3. ArchiveKinds'
  BY <1>1, <1>2 DEF Delivering, Archive, ArchiveKinds
<1>4. Fresh' /\ Staged' /\ Closing'
  BY <1>1, <1>2 DEF Delivering, Archive, Fresh, Staged, Closing, Stages
<1> QED BY <1>3, <1>4

LEMMA CloseFinishesEntryKeeps == Delivering /\ CloseFinishesEntry => Filter' /\ Archive'
<1> SUFFICES ASSUME Delivering, CloseFinishesEntry PROVE Filter' /\ Archive'
  OBVIOUS
<1> USE DEF encoderVars, blockVars, copyVars, histVars
<1>1. /\ call # Idle /\ call.stage = "finish" /\ call.op \in {"close", "free"} /\ job = NoJob
      /\ got = OK => call.todo = 0
  BY StageOverIs DEF CloseFinishesEntry, Stages
<1>2. /\ Goes("trailer", Trailer) /\ got' = OK /\ remaining' \in Nat /\ padding' \in Nat
      /\ UNCHANGED <<keptVars, bytes_in_last_block, broke, state>>
  BY DEF CloseFinishesEntry, Trailer, keptVars, Delivering, Archive, ArchiveKinds
<1>3. /\ call' # Idle /\ call'.op = call.op /\ call'.stage = "trailer" /\ call'.todo = Trailer
      /\ call'.ret \in {OK, FATAL} /\ (call'.ret = OK => call.ret = OK /\ got = OK)
  BY <1>1, <1>2, GoesIs
<1>4. Filter'
  BY <1>2, StageRests
<1>5. Trailer \in Nat /\ output \in Nat /\ encoded \in Nat /\ encoder \in FilterStates
  BY WriteArchiveAssumption DEF Trailer, Delivering, Archive, ArchiveKinds
<1>6. ArchiveKinds' /\ Fresh' /\ Staged' /\ Closing'
  BY <1>1, <1>2, <1>5, GoesKeeps DEF keptVars
<1>7. Chain'
  BY <1>1, <1>2, <1>3 DEF Delivering, Archive, Chain, keptVars, Stages, NoJob
<1>8. Keeping'
  BY <1>1, <1>2, <1>3 DEF Delivering, Archive, Keeping, keptVars, Whole, Lines
<1>9. Framing'
  <2>1. state # "fatal" /\ call'.ret = OK => output + 0 = framed
    BY <1>1, <1>3 DEF Delivering, Archive, Framing
  <2>2. UNCHANGED Trailer
    BY <1>2 DEF Trailer, keptVars
  <2> QED BY <1>2, <1>3, <1>5, <2>1, <2>2 DEF Framing, keptVars
<1> QED BY <1>4, <1>6, <1>7, <1>8, <1>9 DEF Archive

LEMMA TrailerEndsKeeps == Delivering /\ TrailerEnds => Filter' /\ Archive'
<1> SUFFICES ASSUME Delivering, TrailerEnds PROVE Filter' /\ Archive'
  OBVIOUS
<1> USE DEF encoderVars, formatVars, blockVars, copyVars, histVars
<1>1. /\ call # Idle /\ call.stage = "trailer" /\ call.op \in {"close", "free"} /\ job = NoJob
      /\ ~Encoding /\ (got = OK => call.todo = 0)
  BY StageOverIs DEF TrailerEnds, Stages
<1>2. /\ Goes("filters", 0) /\ got' = OK /\ UNCHANGED <<remaining, padding>>
      /\ UNCHANGED <<keptVars, bytes_in_last_block, broke, state>>
  BY DEF TrailerEnds, keptVars
<1>3. /\ call' # Idle /\ call'.op = call.op /\ call'.stage = "filters"
      /\ call'.ret \in {OK, FATAL} /\ (call'.ret = OK => call.ret = OK /\ got = OK)
  BY <1>1, <1>2, GoesIs
<1>4. Filter'
  BY <1>2, StageRests
<1>5. /\ output \in Nat /\ encoded \in Nat /\ encoder \in FilterStates
      /\ remaining \in Nat /\ padding \in Nat
      /\ encoder = "open" => encoded < EncoderBuffer
  BY <1>1, LoopOver DEF Delivering, Archive, ArchiveKinds
<1>6. ArchiveKinds' /\ Fresh' /\ Staged' /\ Closing'
  BY <1>1, <1>2, <1>5, GoesKeeps DEF keptVars
<1>7. Chain'
  BY <1>1, <1>2, <1>3, <1>5, BufferKept DEF Delivering, Archive, Chain, keptVars, Stages, NoJob
<1>8. Keeping'
  BY <1>1, <1>2, <1>3 DEF Delivering, Archive, Keeping, keptVars, Whole, Lines
<1>9. Framing'
  <2>1. state # "fatal" /\ call'.ret = OK => output + 0 = framed + Trailer
    BY <1>1, <1>3 DEF Delivering, Archive, Framing
  <2>2. UNCHANGED Trailer
    BY <1>2 DEF Trailer, keptVars
  <2> QED BY <1>2, <1>3, <1>5, <2>1, <2>2 DEF Framing, keptVars
<1> QED BY <1>4, <1>6, <1>7, <1>8, <1>9 DEF Archive

(* What holds when the filters of a chain are closed.                      *)
LEMMA AtFiltersIs ==
  ASSUME Delivering, NEW stage \in {"filters", "encoder"}, AtFilters(stage)
  PROVE  /\ call # Idle /\ call.stage = stage /\ call.op \in {"close", "free"} /\ job = NoJob
         /\ state \in {"header", "data", "fatal"} /\ got \in {OK, FATAL}
         /\ output \in Nat /\ fed \in Nat /\ encoded \in Nat /\ hold \in Nat
         /\ remaining \in Nat /\ padding \in Nat /\ encoder \in FilterStates
         /\ state # "fatal" /\ call.ret = OK => output = framed + Trailer
<1>1. /\ call # Idle /\ call.stage = stage /\ call.op \in {"close", "free"} /\ job = NoJob
      /\ state \in {"header", "data", "fatal"}
  BY DEF AtFilters, Delivering, Archive, Staged
<1>2. /\ got \in {OK, FATAL} /\ output \in Nat /\ fed \in Nat /\ encoded \in Nat
      /\ remaining \in Nat /\ padding \in Nat /\ encoder \in FilterStates
  BY DEF Delivering, Filter, ClientKinds, Archive, ArchiveKinds
<1>3. hold \in Nat
  BY WriteArchiveAssumption DEF Delivering, Archive, ArchiveKinds
<1> QED BY <1>1, <1>2, <1>3 DEF Delivering, Archive, Framing

LEMMA EncoderClosesKeeps == Delivering /\ EncoderCloses => Filter' /\ Archive'
<1> SUFFICES ASSUME Delivering, EncoderCloses PROVE Filter' /\ Archive'
  OBVIOUS
<1> USE DEF formatVars
<1> DEFINE n == encoded + (IF hold = 0 THEN 0 ELSE Encoded(hold)) + 1
<1>1. /\ call # Idle /\ call.stage = "filters" /\ call.op \in {"close", "free"} /\ job = NoJob
      /\ got \in {OK, FATAL}
      /\ output \in Nat /\ fed \in Nat /\ encoded \in Nat /\ hold \in Nat
      /\ remaining \in Nat /\ padding \in Nat
      /\ state # "fatal" /\ call.ret = OK => output = framed + Trailer
  BY AtFiltersIs DEF EncoderCloses
<1>2. /\ encoder = "open" /\ ClientWrite(n) /\ encoded' = 0 /\ Goes("encoder", 0)
      /\ bytes_in_last_block' \in {bytes_in_last_block, 1}
      /\ UNCHANGED <<bytes_per_block, client, state, encoder, hold, format, remaining, padding,
                     framed, output>>
  BY DEF EncoderCloses
<1>3. n \in Nat
  BY <1>1 DEF Encoded
<1>4. client = "open" /\ bytes_in_last_block' \in Int
  BY <1>2 DEF Delivering, Filter, ClientKinds, Archive, Chain
<1>5. fed + n = Whole
  <2>1. hold = output % Line /\ fed + encoded = 1 + Lines(output)
    BY <1>1, <1>2 DEF Delivering, Archive, Keeping
  <2>2. PICK m \in Nat : m = (IF hold = 0 THEN 0 ELSE Encoded(hold))
    BY <1>1 DEF Encoded
  <2>3. Whole = 1 + Lines(output) + m + 1
    BY <1>2, <2>1, <2>2 DEF Whole
  <2>4. fed + n = (fed + encoded) + m + 1
    BY <1>1, <2>2
  <2> QED BY <2>1, <2>3, <2>4
<1> HIDE DEF n
<1>6. fed' = Whole /\ failed' = failed /\ job'.at \in {"flush", "blocks"}
  BY <1>2, <1>5 DEF ClientWrite
<1>7. Filter'
  BY <1>1, <1>2, <1>3, <1>4, FilterWrites DEF Delivering
<1>8. /\ call' # Idle /\ call'.op = call.op /\ call'.stage = "encoder"
      /\ call'.ret \in {OK, FATAL} /\ (call'.ret = OK => call.ret = OK /\ got = OK)
  BY <1>1, <1>2, GoesIs
<1>9. ArchiveKinds' /\ Fresh' /\ Staged' /\ Closing'
  BY <1>1, <1>2, GoesKeeps DEF FilterStates
<1>10. Chain'
  <2>1. EncoderBuffer > 0 /\ UNCHANGED EncoderBuffer
    <3>1. bytes_per_block \in Nat
      BY DEF Delivering, Filter, ClientKinds
    <3> QED BY <1>2, <3>1, EncoderBufferHolds, BufferKept
  <2>2. EncoderBuffer' > 0
    BY <2>1
  <2> QED BY <1>1, <1>2, <1>4, <1>6, <1>8, <2>2 DEF Delivering, Archive, Chain, Stages
<1>11. Keeping'
  <2>1. UNCHANGED Whole
    BY <1>2 DEF Whole, Lines
  <2> QED BY <1>2, <1>6, <1>8, <2>1 DEF Keeping
<1>12. Framing'
  <2>1. UNCHANGED Trailer
    BY <1>2 DEF Trailer
  <2> QED BY <1>1, <1>2, <1>8, <2>1 DEF Framing
<1> QED BY <1>7, <1>9, <1>10, <1>11, <1>12 DEF Archive

LEMMA EncoderClosedKeeps == Delivering /\ EncoderClosed => Filter' /\ Archive'
<1> SUFFICES ASSUME Delivering, EncoderClosed PROVE Filter' /\ Archive'
  OBVIOUS
<1> USE DEF formatVars, blockVars, copyVars, histVars
<1>1. /\ call # Idle /\ call.stage = "encoder" /\ call.op \in {"close", "free"} /\ job = NoJob
      /\ got \in {OK, FATAL} /\ encoded \in Nat
      /\ remaining \in Nat /\ padding \in Nat
      /\ state # "fatal" /\ call.ret = OK => output = framed + Trailer
  BY AtFiltersIs DEF EncoderClosed
<1>2. /\ encoder' \in {"closed", "fatal"} /\ Goes("filters", 0) /\ got' = OK
      /\ UNCHANGED <<bytes_per_block, bytes_in_last_block, client, base, avail, job, fed, given,
                     inOrder, failed, broke, shorts, ragged, state, hold, encoded, format,
                     remaining, padding, framed, output>>
  BY DEF EncoderClosed
<1>3. /\ call' # Idle /\ call'.op = call.op /\ call'.stage = "filters"
      /\ call'.ret \in {OK, FATAL} /\ (call'.ret = OK => call.ret = OK /\ got = OK)
  BY <1>1, <1>2, GoesIs
<1>4. Filter'
  <2>1. bytes_in_last_block \in Int /\ broke \in BOOLEAN
    BY DEF Delivering, Filter, ClientKinds
  <2> QED BY <1>2, <2>1, FilterAtRest DEF Delivering, FilterRests
<1>5. ArchiveKinds' /\ Fresh' /\ Staged' /\ Closing'
  BY <1>1, <1>2, GoesKeeps DEF FilterStates
<1>6. Chain'
  BY <1>1, <1>2, <1>3 DEF Delivering, Archive, Chain, NoJob, Stages
<1>7. Keeping'
  <2>1. encoder = "open" /\ fed = Whole
    BY <1>1 DEF Delivering, Archive, Chain, Keeping
  <2>2. UNCHANGED Whole
    BY <1>2, <2>1 DEF Whole, Lines
  <2> QED BY <1>2, <2>1, <2>2 DEF Keeping
<1>8. Framing'
  <2>1. UNCHANGED Trailer
    BY <1>2 DEF Trailer
  <2> QED BY <1>1, <1>2, <1>3, <2>1 DEF Framing
<1> QED BY <1>4, <1>5, <1>6, <1>7, <1>8 DEF Archive

LEMMA ClientClosesKeeps == Delivering /\ ClientCloses => Filter' /\ Archive'
<1> SUFFICES ASSUME Delivering, ClientCloses PROVE Filter' /\ Archive'
  OBVIOUS
<1> USE DEF encoderVars, formatVars
<1>1. /\ call # Idle /\ call.stage = "filters" /\ call.op \in {"close", "free"} /\ job = NoJob
      /\ got \in {OK, FATAL} /\ encoded \in Nat /\ encoder \in FilterStates
      /\ remaining \in Nat /\ padding \in Nat
      /\ state # "fatal" /\ call.ret = OK => output = framed + Trailer
  BY AtFiltersIs DEF ClientCloses
<1>2. /\ encoder # "open" /\ client = "open" /\ ClientClose /\ Goes("client", 0)
      /\ UNCHANGED <<blockVars, client, state, encoder, hold, encoded, format, remaining, padding,
                     framed, output>>
  BY DEF ClientCloses
<1>3. /\ job'.at = "last" /\ UNCHANGED histVars
  BY <1>2 DEF ClientClose
<1>4. Filter'
  BY <1>1, <1>2, FilterCloses DEF Delivering
<1>5. /\ call' # Idle /\ call'.op = call.op /\ call'.stage = "client"
      /\ call'.ret \in {OK, FATAL} /\ (call'.ret = OK => call.ret = OK /\ got = OK)
  BY <1>1, <1>2, GoesIs
<1>6. ArchiveKinds' /\ Fresh' /\ Staged' /\ Closing'
  BY <1>1, <1>2, GoesKeeps
<1>7. Chain'
  BY <1>1, <1>2, <1>3, <1>5 DEF Delivering, Archive, Chain, Stages
<1>8. Keeping'
  BY <1>2, <1>3 DEF Delivering, Archive, Keeping, Whole, Lines, histVars
<1>9. Framing'
  <2>1. UNCHANGED Trailer
    BY <1>2 DEF Trailer
  <2> QED BY <1>1, <1>2, <1>5, <2>1 DEF Framing
<1> QED BY <1>4, <1>6, <1>7, <1>8, <1>9 DEF Archive

(* The client filter, the last of the chain, has been closed.              *)
LEMMA CloseEndsKeeps == Delivering /\ CloseEnds => Filter' /\ Archive'
<1> SUFFICES ASSUME Delivering, CloseEnds PROVE Filter' /\ Archive'
  OBVIOUS
<1> USE DEF encoderVars, formatVars
<1>1. /\ job' = NoJob
      /\ UNCHANGED <<blockVars, base, avail, got, histVars, encoder, hold, encoded, format,
                     remaining, padding, framed, output>>
  BY DEF CloseEnds
<1>2. /\ call # Idle /\ call.op \in {"close", "free"} /\ call.ret \in {OK, FATAL}
      /\ got \in {OK, FATAL} /\ call.stage \in {"filters", "client"}
      /\ state \in {"header", "data", "fatal"} /\ (state = "fatal" => call.op = "close")
      /\ call.entry.size \in Nat /\ call.todo \in Nat
  BY CallIs DEF CloseEnds, AtFilters, Delivering, Archive, Staged
<1>3. /\ client' \in {"none", "new", "closed", "fatal"} /\ encoder # "open"
      /\ job.at \in {"idle", "last"} /\ (job.at = "last" => job.left = 0)
      /\ state # "fatal" => call.stage = "client"
  <2>1. CASE AtFilters("filters") /\ encoder # "open" /\ client # "open" /\ UNCHANGED <<client, closes>>
    <3>1. job.at = "idle" /\ call.stage = "filters"
      BY <2>1 DEF AtFilters, NoJob
    <3>2. client \in FilterStates /\ state \notin {"header", "data"}
      BY <2>1 DEF Delivering, Archive, ArchiveKinds, Chain
    <3> QED BY <1>2, <2>1, <3>1, <3>2 DEF FilterStates
  <2>2. CASE /\ call # Idle /\ call.stage = "client" /\ job.at \in {"idle", "last"} /\ job.left = 0
             /\ client' = (IF got = OK THEN "closed" ELSE "fatal") /\ closes' = closes + 1
    BY <2>2 DEF Delivering, Archive, Chain
  <2> QED BY <2>1, <2>2 DEF CloseEnds
<1>4. Worst \in {OK, FATAL} /\ (Worst = OK <=> got = OK /\ call.ret = OK)
  BY <1>2, WorstOf
<1>5. Filter'
  BY <1>1, <1>3, FilterEnds DEF Delivering
<1>6. \/ /\ call.op = "close" /\ call' = Idle /\ state' = (IF state = "fatal" THEN "fatal" ELSE "closed")
         /\ reply'.op = "close" /\ reply'.code = Worst /\ reply'.broke \in BOOLEAN
      \/ /\ call.op = "free" /\ state' = "closed" /\ call' # Idle /\ call'.stage = "free"
         /\ call'.op = "free" /\ call'.ret = Worst /\ call'.todo = call.todo
         /\ call'.entry = call.entry /\ UNCHANGED reply
  <2>1. CASE call.op = "close"
    <3>1. state' = (IF state = "fatal" THEN "fatal" ELSE "closed") /\ Ends("close", Worst)
      BY <2>1 DEF CloseEnds
    <3>2. /\ call' = Idle /\ reply'.op = "close" /\ reply'.code = Worst /\ reply'.broke = broke
          /\ broke \in BOOLEAN
      BY <3>1 DEF Ends, Answer, Delivering, Filter, ClientKinds
    <3> QED BY <2>1, <3>1, <3>2
  <2>2. CASE call.op = "free"
    <3>1. /\ state' = "closed" /\ UNCHANGED reply
          /\ call' = [call EXCEPT !.stage = "free", !.ret = Worst]
      BY <2>2 DEF CloseEnds
    <3>2. call' = [op |-> call.op, stage |-> "free", todo |-> call.todo, ret |-> Worst,
                   entry |-> call.entry]
      BY <1>2, <3>1, CallIs
    <3>3. /\ call' # Idle /\ call'.op = call.op /\ call'.stage = "free" /\ call'.todo = call.todo
          /\ call'.ret = Worst /\ call'.entry = call.entry
      BY <1>2, <3>2, CallStays
    <3> QED BY <2>2, <3>1, <3>3
  <2> QED BY <1>2, <2>1, <2>2
<1>7. ArchiveKinds'
  BY <1>1, <1>2, <1>3, <1>4, <1>6
     DEF Delivering, Archive, ArchiveKinds, States, FilterStates, Codes
<1>8. Fresh' /\ Staged'
  BY <1>2, <1>6 DEF Delivering, Archive, Fresh, Staged, Stages
<1>9. Chain'
  BY <1>1, <1>2, <1>3, <1>6 DEF Delivering, Archive, Chain, NoJob, Stages
<1>10. Keeping'
  BY <1>1, <1>3 DEF Delivering, Archive, Keeping, Whole, Lines, histVars
<1>11. Framing'
  <2>1. UNCHANGED Trailer
    BY <1>1 DEF Trailer
  <2>2. state # "fatal" /\ call.ret = OK => output = framed + Trailer
    BY <1>2, <1>3 DEF Delivering, Archive, Framing
  <2> QED BY <1>1, <1>2, <1>4, <1>6, <2>1, <2>2 DEF Framing
<1>12. Closing'
  <2>1. ASSUME state' = "closed", reply'.op = "close", reply'.code = OK, ~failed'
        PROVE  Padded'
    <3>1. ~(call.op = "free")
      BY <1>2, <1>6, <2>1 DEF Delivering, Archive, Staged
    <3>2. call.stage = "client" /\ ~failed
      BY <1>1, <1>3, <1>6, <2>1, <3>1 DEF histVars
    <3>3. job.at = "last" /\ job.left = 0
      BY <1>2, <1>3, <3>2 DEF Delivering, Archive, Chain
    <3>4. Padded
      BY <3>2, <3>3 DEF Delivering, Filter, LastGiven
    <3>5. UNCHANGED LastUnit
      BY <1>1 DEF LastUnit, blockVars
    <3> QED BY <1>1, <3>4, <3>5 DEF Padded, blockVars, histVars
  <2> QED BY <2>1 DEF Closing
<1> QED BY <1>5, <1>7, <1>8, <1>9, <1>10, <1>11, <1>12 DEF Archive

LEMMA FreeEndsKeeps == Delivering /\ FreeEnds => Filter' /\ Archive'
<1> SUFFICES ASSUME Delivering, FreeEnds PROVE Filter' /\ Archive'
  OBVIOUS
<1> USE DEF encoderVars, formatVars, blockVars, copyVars, histVars
<1>1. /\ call # Idle /\ call.stage = "free" /\ state = "closed" /\ client # "open"
      /\ encoder # "open" /\ call.ret \in {OK, FATAL} /\ got \in {OK, FATAL}
  BY CallIs DEF FreeEnds, Delivering, Pairing, Agrees, Archive, Staged, Chain
<1>2. /\ UNCHANGED <<keptVars, bytes_in_last_block, got, broke, remaining, padding>>
      /\ state' = "freed" /\ Ends("free", call.ret)
  BY <1>1 DEF FreeEnds, Freed, keptVars
<1>3. call' = Idle /\ reply'.op = "free" /\ reply'.code \in Codes /\ reply'.broke \in BOOLEAN
  BY <1>1, <1>2, EndsIs DEF Codes
<1>4. Filter'
  BY <1>1, <1>2, StageRests
<1>5. ArchiveKinds'
  BY <1>2, <1>3 DEF Delivering, Archive, ArchiveKinds, keptVars, States
<1>6. Fresh' /\ Staged' /\ Framing' /\ Closing'
  BY <1>2, <1>3 DEF Fresh, Staged, Framing, Closing
<1>7. Chain' /\ Keeping'
  BY <1>1, <1>2, <1>3 DEF Delivering, Archive, Chain, Keeping, keptVars, Whole, Lines
<1> QED BY <1>4, <1>5, <1>6, <1>7 DEF Archive

-----------------------------------------------------------------------------
(* Every step.                                                             *)

LEMMA BeginningRests ==
  ASSUME Delivering, NEW op, NEW stage, NEW todo, NEW entry, Begins(op, stage, todo, entry),
         UNCHANGED <<blockVars, client>>
  PROVE  Filter'
<1>1. /\ got' = OK /\ broke' = FALSE
      /\ UNCHANGED <<copyVars, fed, given, inOrder, failed, shorts, ragged>>
  BY DEF Begins
<1>2. bytes_in_last_block \in Int
  BY DEF Delivering, Filter, ClientKinds
<1> QED BY <1>1, <1>2, FilterAtRest DEF Delivering, FilterRests, copyVars, blockVars

LEMMA CallsKeep == Delivering /\ Calls => Filter' /\ Archive'
<1> SUFFICES ASSUME Delivering, Calls PROVE Filter' /\ Archive'
  OBVIOUS
<1>1. got \in {OK, FATAL} /\ reply.code \in Codes /\ reply.broke \in BOOLEAN
  BY DEF Delivering, Filter, ClientKinds, Archive, ArchiveKinds
<1>2. ASSUME NEW op, NEW code \in Codes, Returns(op, code), Ready, op # "close",
             state' \in {state, "fatal", "freed", "abandoned"}, UNCHANGED <<remaining, padding>>,
             UNCHANGED keptVars, UNCHANGED <<bytes_in_last_block, got, broke>>
      PROVE  Filter' /\ Archive'
  <2>1. /\ call' = Idle /\ reply'.op = op /\ reply'.code = code /\ reply'.broke = FALSE
    BY <1>2 DEF Returns, Ready
  <2>2. Filter'
    BY <1>1, <1>2, StageRests
  <2>3. Archive'
    BY <1>2, <2>1, QuickAnswer
  <2> QED BY <2>2, <2>3
<1> USE DEF encoderVars, formatVars, blockVars, copyVars, histVars, keptVars
<1>3. CASE Refuse
  BY <1>2, <1>3 DEF Refuse, Codes
<1>4. CASE SetLastBlock
  <2>1. /\ call' = Idle /\ reply'.op = "set" /\ reply'.code = OK /\ reply'.broke = FALSE
        /\ Ready /\ call = Idle /\ UNCHANGED <<keptVars, state, got, broke, remaining, padding>>
    BY <1>4 DEF SetLastBlock, Returns, Ready
  <2>2. bytes_in_last_block' \in Int /\ job = NoJob /\ broke \in BOOLEAN
    BY <1>4, <2>1, WriteArchiveAssumption
       DEF SetLastBlock, Delivering, Filter, ClientKinds, Archive, Chain
  <2>3. Filter'
    BY <1>1, <2>1, <2>2, FilterAtRest DEF Delivering, FilterRests
  <2>4. Archive'
    BY <2>1, QuickAnswer DEF Codes
  <2> QED BY <2>3, <2>4
<1>5. CASE Fail
  <2>1. /\ Ready /\ call' = Idle /\ state' = "fatal"
        /\ UNCHANGED <<keptVars, bytes_in_last_block, got, broke, remaining, padding, reply>>
    BY <1>5 DEF Fail, Ready
  <2>2. Filter'
    BY <1>1, <2>1, StageRests
  <2>3. Archive'
    BY <1>1, <2>1, QuickAnswer
  <2> QED BY <2>2, <2>3
<1>6. CASE Open
  BY <1>6, OpenKeeps
<1>7. ASSUME NEW e \in Entries, HeaderBegins(e) PROVE Filter' /\ Archive'
  <2>1. CASE format
    <3>1. /\ Begins("header", "finish", Unfinished, e) /\ Ready /\ state \in {"header", "data"}
          /\ UNCHANGED <<blockVars, client, state, encoderVars, formatVars, output>>
          /\ e.size \in Nat
      BY <1>7, <2>1, WriteArchiveAssumption DEF HeaderBegins, Allowed
    <3> QED BY <3>1, BeginningRests, BeginsWithRest
  <2>2. CASE ~format
    BY <1>2, <1>7, <2>2 DEF HeaderBegins, Codes
  <2> QED BY <2>1, <2>2
<1>8. CASE FinishBegins
  <2>1. /\ Begins("finish", "finish", Unfinished, NoEntry) /\ Ready /\ state \in {"header", "data"}
        /\ UNCHANGED <<blockVars, client, state, encoderVars, formatVars, output>>
        /\ NoEntry.size \in Nat
    BY <1>8 DEF FinishBegins, Allowed, NoEntry
  <2> QED BY <2>1, BeginningRests, BeginsWithRest
<1>9. ASSUME NEW s \in Amounts, DataBegins(s) PROVE Filter' /\ Archive'
  <2>1. Begins("data", "body", Accepted(s), NoEntry) /\ UNCHANGED <<blockVars, client>>
    BY <1>9 DEF DataBegins
  <2> QED BY <1>9, <2>1, BeginningRests, DataBeginsKeeps
<1>10. ASSUME NEW op \in {"close", "free"}, CloseBegins(op) PROVE Filter' /\ Archive'
  <2>1. /\ Begins(op, "finish", Unfinished, NoEntry) /\ Ready
        /\ UNCHANGED <<blockVars, client, state, encoderVars, formatVars, output>>
        /\ NoEntry.size \in Nat
    BY <1>10 DEF CloseBegins, NoEntry
  <2>2. state \in {"header", "data", "fatal"} /\ (state = "fatal" => op = "close")
    BY <1>10 DEF CloseBegins, Ready, Delivering, Archive, ArchiveKinds, States
  <2> QED BY <2>1, <2>2, BeginningRests, BeginsWithRest
<1>11. CASE CloseNothing
  BY <1>2, <1>11 DEF CloseNothing, Codes
<1>12. CASE FreeOnly
  BY <1>2, <1>12 DEF FreeOnly, Freed, Codes
<1> QED BY <1>3, <1>4, <1>5, <1>6, <1>7, <1>8, <1>9, <1>10, <1>11, <1>12 DEF Calls

LEMMA RunsKeep == Delivering /\ Runs => Filter' /\ Archive'
  BY PutKeeps, PutEncodedKeeps, ClientStepsKeep, HeaderFinishesEntryKeeps, HeaderEndsKeeps,
     FinishEndsKeeps, DataEndsKeeps, CloseFinishesEntryKeeps, TrailerEndsKeeps,
     EncoderClosesKeeps, EncoderClosedKeeps, ClientClosesKeeps, CloseEndsKeeps, FreeEndsKeeps
  DEF Runs

LEMMA DeliveringPreserved == Delivering /\ [Next]_vars => Delivering'
<1> SUFFICES ASSUME Delivering, [Next]_vars PROVE Delivering'
  OBVIOUS
<1>1. Pairing'
  BY PairingPreserved DEF Delivering
<1>2. CASE UNCHANGED vars
  <2>1. Filter'
    <3>1. got \in {OK, FATAL} /\ broke \in BOOLEAN /\ bytes_in_last_block \in Int
      BY DEF Delivering, Filter, ClientKinds
    <3> QED BY <1>2, <3>1, FilterAtRest
            DEF Delivering, FilterRests, vars, blockVars, copyVars, histVars
  <2>2. UNCHANGED <<archiveVars, base, avail, job, given, inOrder, failed, shorts, ragged,
                    bytes_in_last_block>>
    BY <1>2 DEF vars, blockVars, copyVars, histVars, encoderVars, formatVars, archiveVars
  <2>3. ArchiveKinds' /\ Fresh' /\ Staged'
    BY <2>2 DEF Delivering, Archive, ArchiveKinds, Fresh, Staged, archiveVars
  <2>4. Chain'
    BY <2>2, BufferKept DEF Delivering, Archive, Chain, archiveVars
  <2>5. Keeping' /\ Framing'
    BY <2>2 DEF Delivering, Archive, Keeping, Whole, Lines, Framing, Trailer, archiveVars
  <2>6. Closing'
    BY <2>2 DEF Delivering, Archive, Closing, Padded, LastUnit, archiveVars
  <2> QED BY <1>1, <2>1, <2>3, <2>4, <2>5, <2>6 DEF Delivering, Archive
<1> QED BY <1>1, <1>2, CallsKeep, RunsKeep DEF Next, Delivering

(* Whatever the sizes, settings, callbacks and calls: what the variables   *)
(* hold, and a copy buffer that is never longer than a block.              *)
THEOREM BufferWithinBlock == Spec => []TypeOK
<1>1. Spec => []Delivering
  BY DeliveringInit, DeliveringPreserved, PTL DEF Spec
<1> QED BY <1>1, DeliveringImplies, PTL

(* Until a callback fails no byte is lost, repeated or out of order on its *)
(* way from the format through the encoder and the copy buffer.            *)
THEOREM NothingLost == Spec => []Delivered
<1>1. Spec => []Delivering
  BY DeliveringInit, DeliveringPreserved, PTL DEF Spec
<1> QED BY <1>1, DeliveringImplies, PTL

(* Every entry fills whole records, whatever is written for it, and the    *)
(* archive ends with two more, whatever failed, was refused or repeated.   *)
THEOREM RecordsFilled == Spec => []EntryFramed
<1>1. Spec => []Delivering
  BY DeliveringInit, DeliveringPreserved, PTL DEF Spec
<1> QED BY <1>1, DeliveringImplies, PTL

(* A close that answers OK has handed everything to the client, the last   *)
(* block padded as it was asked for.                                       *)
THEOREM ClosedIsWritten == Spec => []ClosedComplete
<1>1. Spec => []Delivering
  BY DeliveringInit, DeliveringPreserved, PTL DEF Spec
<1> QED BY <1>1, DeliveringImplies, PTL

-----------------------------------------------------------------------------
(* Blocks: a proof of Blocked.                                             *)

(* Only the loops of the client filter give bytes to the client.           *)
LEMMA OnlyLoopsGive ==
  ASSUME [Next]_vars, given' # given
  PROVE  ClientSteps /\ (job.at \in {"flush", "blocks"} \/ (job.at = "last" /\ job.left > 0))
<1>1. CASE Calls
  BY <1>1 DEF Calls, Refuse, SetLastBlock, Fail, Open, HeaderBegins, FinishBegins, DataBegins,
       CloseBegins, CloseNothing, FreeOnly, Begins, histVars
<1>2. CASE Runs
  <2>1. ClientSteps
    <3>1. ~Put /\ ~PutEncoded /\ ~EncoderCloses
      BY DEF Put, PutEncoded, EncoderCloses, ClientWrite, histVars
    <3>2. ~HeaderFinishesEntry /\ ~HeaderEnds /\ ~FinishEnds /\ ~DataEnds /\ ~CloseFinishesEntry
      BY DEF HeaderFinishesEntry, HeaderEnds, FinishEnds, DataEnds, CloseFinishesEntry, histVars
    <3>3. ~TrailerEnds /\ ~EncoderClosed /\ ~ClientCloses /\ ~CloseEnds /\ ~FreeEnds
      BY DEF TrailerEnds, EncoderClosed, ClientCloses, ClientClose, CloseEnds, FreeEnds, histVars
    <3> QED BY <1>2, <3>1, <3>2, <3>3 DEF Runs
  <2> QED BY <2>1 DEF ClientSteps, FlushBuffer, WriteDirect, KeepRest, WriteLast, histVars
<1>3. CASE UNCHANGED vars
  BY <1>3 DEF vars, histVars
<1> QED BY <1>1, <1>2, <1>3 DEF Next

LEMMA GivenInBlocks ==
  Delivering /\ [Next]_vars =>
    (given' # given => /\ opened = closes + 1
                       /\ bytes_per_block > 0 /\ shorts = 0 => ~ragged)
<1> SUFFICES ASSUME Delivering, [Next]_vars, given' # given
             PROVE  /\ opened = closes + 1
                    /\ bytes_per_block > 0 /\ shorts = 0 => ~ragged
  OBVIOUS
<1>1. job.at \in {"flush", "blocks"} \/ (job.at = "last" /\ job.left > 0)
  BY OnlyLoopsGive
<1>2. job # NoJob
  BY <1>1 DEF NoJob
<1>3. client = "open"
  BY <1>2 DEF Delivering, Archive, Chain
<1>4. opened = closes + 1
  BY <1>3 DEF Delivering, Pairing, Counted, Owed
<1>5. bytes_per_block > 0 /\ shorts = 0 => ~ragged
  BY <1>1, <1>3 DEF Delivering, Filter, WholeBlocks
<1> QED BY <1>4, <1>5

(* No client is written to before its opener has succeeded or after its    *)
(* closer, and without short writes it gets whole blocks but for the last. *)
THEOREM WritesAreBlocks == Spec => Blocked
<1>1. Spec => []Delivering
  BY DeliveringInit, DeliveringPreserved, PTL DEF Spec
<1>2. Delivering /\ [Next]_vars =>
        [given' # given => /\ opened = closes + 1
                           /\ bytes_per_block > 0 /\ shorts = 0 => ~ragged]_vars
  BY GivenInBlocks
<1> QED BY <1>1, <1>2, PTL DEF Spec, Blocked

=============================================================================
