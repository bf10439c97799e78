---------------------------- MODULE ReadAheadProofs ----------------------------
(***************************************************************************)
(* Theorems about ReadAhead, for every number and size of volumes, every   *)
(* block size, every set of requests and every choice of client callbacks. *)
(***************************************************************************)
EXTENDS ReadAhead, TLAPS

(* As long as the layer holds data from a client block, the data not yet   *)
(* used is the end of that block.                                          *)
BlockShape == Len(copy) + cavail > 0 /\ ctotal > 0 => cnext + cavail = ctotal

(* A consume asks the client only when both buffers are empty, and its     *)
(* skip callback, if it has one, only for a positive number of bytes.      *)
PastBuffers ==
  /\ call.op \in {"skip", "discard"} => copy = <<>> /\ cavail = 0
  /\ call.op = "skip" => /\ call.got < call.left + call.missed
                         /\ "skip" \notin has => call.got = 0

(* The inductive invariant.  BufferBounds alone is not inductive: rolling  *)
(* back needs BlockShape, and a discard keeps BlockShape only because of   *)
(* PastBuffers.                                                            *)
IInv == TypeOK /\ BufferBounds /\ GrowthBounded /\ BlockShape /\ PastBuffers

(* The volumes are numbered from 0 and begin at natural numbers.           *)
LEMMA StartNat ==
  /\ Nodes \subseteq Nat /\ Last \in Nodes
  /\ \A v \in Nodes : v + 1 \in 0..Volumes /\ v \in 0..Volumes
  /\ \A v \in 0..Volumes : Start[v] \in Nat
  /\ Size \in Nat
  /\ Mins \subseteq Nat /\ Amounts \subseteq Nat /\ Offsets \subseteq Int
BY StreamAssumption DEF Nodes, Last, Size

(* The layer starts in the inductive invariant.                            *)
LEMMA IInvInit == Init => IInv
<1> SUFFICES ASSUME Init PROVE IInv OBVIOUS
<1>1. call \in CallType BY DEF Init, CallType
<1>2. PastBuffers BY DEF Init, PastBuffers, Idle
<1>3. BlockShape BY DEF Init, BlockShape
<1>4. BufferBounds BY DEF Init, BufferBounds
<1>5. cursor \in Nodes /\ sized \in 0..Volumes BY StreamAssumption DEF Init, Nodes
<1>6. opening \in BOOLEAN BY StreamAssumption DEF Init
<1>7. copy \in Seq(Nat) BY DEF Init
<1>8. GrowthBounded BY DEF Init, GrowthBounded
<1> QED BY <1>1, <1>2, <1>3, <1>4, <1>5, <1>6, <1>7, <1>8 DEF Init, TypeOK, IInv

(* A run of n bytes is n consecutive numbers.                              *)
LEMMA BytesProperties ==
  ASSUME NEW from \in Nat, NEW n \in Nat
  PROVE  /\ BS!Bytes(from, n) \in Seq(Nat)
         /\ Len(BS!Bytes(from, n)) = n
         /\ \A i \in 1..n : BS!Bytes(from, n)[i] = from + i - 1
BY DEF BS!Bytes

(* Appending adds the lengths.                                             *)
LEMMA ConcatLen ==
  ASSUME NEW s \in Seq(Nat), NEW t \in Seq(Nat)
  PROVE  s \o t \in Seq(Nat) /\ Len(s \o t) = Len(s) + Len(t)
OBVIOUS

(* Dropping the first c elements renumbers the others.                     *)
LEMMA TailProperties ==
  ASSUME NEW s \in Seq(Nat), NEW c \in Nat, c <= Len(s)
  PROVE  /\ SubSeq(s, c + 1, Len(s)) \in Seq(Nat)
         /\ Len(SubSeq(s, c + 1, Len(s))) = Len(s) - c
         /\ \A i \in 1..(Len(s) - c) : SubSeq(s, c + 1, Len(s))[i] = s[c + i]
<1>1. Len(s) \in Nat /\ \A i \in (c+1)..Len(s) : i \in 1..Len(s) OBVIOUS
<1>2. CASE c = Len(s)
  BY <1>1, <1>2
<1>3. CASE c < Len(s)
  BY <1>1, <1>3
<1> QED BY <1>1, <1>2, <1>3

(* minimum() is one of its arguments and no larger than either.            *)
LEMMA MinimumType ==
  ASSUME NEW x \in Nat, NEW y \in Nat
  PROVE  /\ minimum(x, y) \in Nat /\ minimum(x, y) <= x /\ minimum(x, y) <= y
         /\ minimum(x, y) = x \/ minimum(x, y) = y
BY DEF minimum

(* Stuttering preserves the invariant.                                     *)
LEMMA IInvUnchanged == ASSUME IInv, UNCHANGED vars PROVE IInv'
BY DEF IInv, TypeOK, CallType, BufferBounds, GrowthBounded, BlockShape, PastBuffers,
       vars, copyVars, blockVars, streamVars, clientVars

(* Steps that answer a call or start one and leave the buffers alone. *)
LEMMA IInvCall ==
  ASSUME IInv, UNCHANGED <<copyVars, blockVars, opening>>,
         call' \in CallType, PastBuffers',
         position' \in Nat, fatal' \in BOOLEAN, eof' \in BOOLEAN,
         cursor' \in Nodes, source' \in Nat, usable' \in BOOLEAN,
         sized' \in 0..Volumes, lost' \in BOOLEAN, has' = has, cut' \in BOOLEAN
  PROVE  IInv'
BY DEF IInv, TypeOK, CallType, BufferBounds, GrowthBounded, BlockShape, copyVars, blockVars

(* Answering a call leaves no call that could break PastBuffers.           *)
LEMMA IdleType == Idle \in CallType /\ (call' = Idle => call' \in CallType /\ PastBuffers')
BY DEF CallType, Idle, PastBuffers

(* Beginning a look-ahead preserves the invariant.                         *)
LEMMA IInvAhead ==
  ASSUME IInv, NEW min \in Mins, Ahead(min) PROVE IInv'
<1>0. TypeOK BY DEF IInv
<1>1. call' \in CallType /\ PastBuffers'
  BY IdleType DEF Ahead, Begin, Return, CallType, PastBuffers
<1> QED BY <1>0, <1>1, IInvCall DEF Ahead, TypeOK, streamVars, clientVars

(* A switch leaves the client in a volume, at a byte.                      *)
LEMMA SwitchType ==
  ASSUME TypeOK, NEW v \in Nodes, SwitchTo(v) \/ SwitchFails(v)
  PROVE  cursor' \in Nodes /\ source' \in Nat /\ usable' \in BOOLEAN
BY StartNat DEF SwitchTo, SwitchFails, TypeOK

(* There is a volume after every one but the last.                         *)
LEMMA NextNode == ASSUME TypeOK, cursor # Last PROVE cursor + 1 \in Nodes
BY StreamAssumption DEF TypeOK, Nodes, Last

(* What follows a drained volume leaves the client in a volume, too.       *)
LEMMA EndType ==
  ASSUME TypeOK, OnToNext \/ NoMore
  PROVE  /\ cursor' \in Nodes /\ source' \in Nat /\ usable' \in BOOLEAN
         /\ sized' = sized /\ has' = has /\ cut' \in BOOLEAN
BY NextNode, SwitchType DEF OnToNext, NoMore, TypeOK

(* What the read callback delivers lies in the volume.                     *)
LEMMA DeliveredType ==
  ASSUME TypeOK, NEW n \in Delivered
  PROVE  n \in Nat /\ n >= 1 /\ n <= Remaining /\ usable /\ Remaining = VolumeEnd - source
BY StartNat, StreamAssumption DEF TypeOK, Delivered, minimum, maximum, Remaining, VolumeEnd

(* Rolling copied data back stays inside the client block: the block has   *)
(* been used up to its end as far as BlockShape says.                      *)
LEMMA IInvPeekClient ==
  ASSUME IInv, PeekClient PROVE IInv'
<1> USE DEF PeekClient
<1>0. /\ call \in [op : {"ahead"}, min : Mins] /\ call' = Idle /\ copy' = <<>>
  BY DEF IInv, TypeOK, CallType, Looking, Idle, Return
<1>1. Len(copy) \in Nat /\ Len(copy) <= cnext
  <2>1. cnext \in Nat /\ cavail \in Nat /\ ctotal \in Nat /\ Len(copy) \in Nat
    BY DEF IInv, TypeOK, BufferBounds
  <2>2. ctotal >= cavail + Len(copy)
    BY DEF ClientServes
  <2>3. cnext + cavail <= ctotal
        /\ (Len(copy) + cavail > 0 /\ ctotal > 0 => cnext + cavail = ctotal)
    BY DEF IInv, BufferBounds, BlockShape
  <2> QED
    BY <2>1, <2>2, <2>3
<1>2. TypeOK' BY <1>0, <1>1 DEF IInv, TypeOK, CallType, streamVars, clientVars
<1>3. BufferBounds' BY <1>0, <1>1 DEF IInv, TypeOK, BufferBounds, streamVars, clientVars
<1>4. BlockShape'
  <2>1. cnext \in Nat /\ cavail \in Nat /\ ctotal' = ctotal /\ Len(copy') = 0
    BY <1>0 DEF IInv, TypeOK, BufferBounds
  <2>2. cavail' = cavail + Len(copy) /\ cnext' = cnext - Len(copy)
    OBVIOUS
  <2>3. Len(copy) + cavail > 0 /\ ctotal > 0 => cnext + cavail = ctotal
    BY DEF IInv, BlockShape
  <2> QED
    BY <1>1, <2>1, <2>2, <2>3 DEF BlockShape
<1>5. PastBuffers' BY <1>0 DEF PastBuffers, Idle
<1>6. GrowthBounded' BY DEF IInv, GrowthBounded
<1> QED BY <1>2, <1>3, <1>4, <1>5, <1>6 DEF IInv

(* The memmove only lowers the gap.                                        *)
LEMMA SlidType ==
  ASSUME TypeOK PROVE Slid \in Nat /\ Slid <= gap
BY DEF Slid, TypeOK

(* A step that slides the copy buffer and replaces the client block by a   *)
(* well-formed one preserves the invariant.                                *)
LEMMA IInvSlide ==
  ASSUME IInv, MustPull, gap' \in Nat, gap' <= gap, UNCHANGED <<copy, bufsize, opening>>,
         base' \in Nat, cnext' \in Nat, cavail' \in Nat, ctotal' \in Nat,
         cnext' + cavail' <= ctotal', BlockShape',
         call' = call \/ call' = Idle,
         UNCHANGED position, fatal' \in BOOLEAN, eof' \in BOOLEAN,
         cursor' \in Nodes, source' \in Nat, usable' \in BOOLEAN,
         sized' = sized, lost' = lost, has' = has, cut' \in BOOLEAN
  PROVE  IInv'
<1>1. call \in [op : {"ahead"}, min : Mins] /\ call \in CallType
  BY DEF MustPull, Looking, IInv, TypeOK, CallType, Idle
<1>2. call' \in CallType /\ PastBuffers' BY <1>1, IdleType DEF PastBuffers
<1>4. TypeOK' BY <1>2 DEF IInv, TypeOK, CallType
<1>5. BufferBounds'
  <2>1. Len(copy) \in Nat /\ gap + Len(copy) <= bufsize /\ gap \in Nat /\ bufsize \in Nat
    BY DEF IInv, TypeOK, BufferBounds
  <2>2. Len(copy') = Len(copy) /\ bufsize' = bufsize OBVIOUS
  <2>3. gap' + Len(copy') <= bufsize' BY <2>1, <2>2
  <2>4. cnext' \in Nat /\ cnext' + cavail' <= ctotal' OBVIOUS
  <2>5. gap' \in Nat /\ Len(copy') \in Nat /\ bufsize' \in Nat BY <2>1, <2>2
  <2> QED BY <2>3, <2>4, <2>5 DEF BufferBounds
<1>6. GrowthBounded' BY DEF IInv, GrowthBounded
<1> QED BY <1>2, <1>4, <1>5, <1>6 DEF IInv

(* The passes of the look-ahead loop that copy nothing preserve the        *)
(* invariant.                                                              *)
LEMMA IInvPull ==
  ASSUME IInv, PeekCopy \/ PeekAtEnd \/ Fill \/ FillError \/ NextVolume \/ StreamEnd \/ GrowFails
  PROVE  IInv'
<1>0. TypeOK /\ BufferBounds /\ BlockShape BY DEF IInv
<1>1. CASE PeekCopy
  BY <1>1, IInvCall, IdleType DEF PeekCopy, Return, IInv, TypeOK, streamVars, clientVars
<1>2. CASE PeekAtEnd
  <2>1. BlockShape' BY <1>0, <1>2 DEF PeekAtEnd, BlockShape, blockVars
  <2> QED BY <2>1, <1>0, <1>2, SlidType, IInvSlide DEF PeekAtEnd, Return, TypeOK, BufferBounds, blockVars, streamVars, clientVars
<1>3. CASE Fill
  <2>1. PICK n \in Delivered : base' = source /\ cnext' = 0 /\ cavail' = n /\ ctotal' = n /\ source' = source + n
    BY <1>3 DEF Fill
  <2>2. n \in Nat BY <1>0, <2>1, DeliveredType
  <2>3. BlockShape' BY <2>1, <2>2 DEF BlockShape
  <2> QED BY <2>1, <2>2, <2>3, <1>0, <1>3, SlidType, IInvSlide DEF Fill, TypeOK, streamVars
<1>4. CASE FillError
  <2>1. BlockShape' BY <1>4 DEF FillError, BlockShape
  <2> QED BY <2>1, <1>0, <1>4, SlidType, IInvSlide DEF FillError, Return, TypeOK, clientVars
<1>5. CASE NextVolume
  <2>1. BlockShape' BY <1>0, <1>5 DEF NextVolume, BlockShape, blockVars
  <2> QED BY <2>1, <1>0, <1>5, SlidType, IInvSlide, EndType DEF NextVolume, TypeOK, BufferBounds, blockVars, streamVars
<1>6. CASE StreamEnd
  <2>1. BlockShape' BY <1>6 DEF StreamEnd, BlockShape
  <2> QED BY <2>1, <1>0, <1>6, SlidType, IInvSlide, EndType DEF StreamEnd, Return, TypeOK
<1>7. CASE GrowFails
  <2>1. BlockShape' BY <1>0, <1>7 DEF GrowFails, BlockShape, blockVars
  <2> QED BY <2>1, <1>0, <1>7, SlidType, IInvSlide DEF GrowFails, Return, TypeOK, BufferBounds, blockVars, clientVars
<1> QED BY <1>1, <1>2, <1>3, <1>4, <1>5, <1>6, <1>7

(* What a pass of the copying branch moves: no more than the room left in  *)
(* the copy buffer and no more than the client block has.                  *)
LEMMA GatherStep ==
  ASSUME IInv, Gather
  PROVE  \E s, at, n \in Nat :
           /\ at + Len(copy) + n <= s /\ n <= cavail
           /\ s = bufsize \/ s < 2 * call.min
           /\ bufsize' = s /\ gap' = at
           /\ copy' = copy \o BS!Bytes(base + cnext, n)
           /\ cnext' = cnext + n /\ cavail' = cavail - n
<1>0. TypeOK /\ BufferBounds /\ BlockShape /\ GrowthBounded BY DEF IInv
<1>1a. /\ call \in [op : {"ahead"}, min : Mins] /\ call' = call
  BY <1>0 DEF Gather, MustPull, Looking, TypeOK, CallType, Idle
<1>1b. call.min \in Nat /\ call.min \in Mins BY <1>1a, StartNat
<1>1c. Len(copy) \in Nat /\ cavail \in Nat /\ ctotal \in Nat BY <1>0 DEF TypeOK
<1>1d. (Len(copy) < call.min \/ Len(copy) = 0) /\ cavail > 0
  BY <1>1b, <1>1c DEF Gather, MustPull, CopyServes
<1>1. /\ call' = call /\ call \in [op : {"ahead"}, min : Mins] /\ call.min \in Nat /\ call.min \in Mins
      /\ Len(copy) \in Nat /\ (Len(copy) < call.min \/ Len(copy) = 0) /\ cavail > 0
  BY <1>1a, <1>1b, <1>1c, <1>1d
<1>2. PICK s \in Grown(call.min) :
        LET at   == IF s # bufsize THEN 0 ELSE Slid
            room == s - (at + Len(copy))
            want == IF room + Len(copy) > call.min THEN call.min - Len(copy) ELSE room
            n    == minimum(want, cavail)
        IN  /\ bufsize' = s /\ gap' = at
            /\ copy' = copy \o BS!Bytes(base + cnext, n)
            /\ cnext' = cnext + n /\ cavail' = cavail - n
  BY DEF Gather
<1> DEFINE at   == IF s # bufsize THEN 0 ELSE Slid
           room == s - (at + Len(copy))
           want == IF room + Len(copy) > call.min THEN call.min - Len(copy) ELSE room
           n    == minimum(want, cavail)
<1>3. s \in Nat /\ s >= call.min /\ s >= bufsize /\ (s = bufsize \/ s < 2 * call.min)
  BY <1>0, <1>1 DEF Grown, TypeOK
<1>4. at \in Nat /\ at + Len(copy) <= s
  BY <1>0, <1>1, <1>3 DEF Slid, TypeOK, BufferBounds
<1>5. room \in Nat BY <1>1, <1>3, <1>4
<1>6. n \in Nat /\ n <= cavail /\ n <= room
  <2>1. call.min < Len(copy) => Len(copy) = 0 BY <1>1
  <2>2. want \in Nat /\ want <= room BY <1>1, <1>5, <2>1
  <2>3. cavail \in Nat BY <1>0 DEF TypeOK
  <2> HIDE DEF want, room
  <2> QED BY <2>2, <2>3, <1>5, MinimumType
<1> HIDE DEF n, at, room
<1>7. /\ bufsize' = s /\ gap' = at /\ copy' = copy \o BS!Bytes(base + cnext, n)
      /\ cnext' = cnext + n /\ cavail' = cavail - n
  BY <1>2 DEF n, room, at
<1>8. at + Len(copy) + n <= s BY <1>1, <1>3, <1>4, <1>5, <1>6 DEF room
<1> QED BY <1>3, <1>4, <1>6, <1>7, <1>8

(* The copying pass preserves the invariant.                               *)
LEMMA IInvGather == ASSUME IInv, Gather PROVE IInv'
<1>0. TypeOK /\ BufferBounds /\ BlockShape /\ GrowthBounded BY DEF IInv
<1>1. /\ call \in [op : {"ahead"}, min : Mins] /\ call' = call
      /\ UNCHANGED <<base, ctotal, position, fatal, eof, cursor, source, usable, sized, has, cut, opening, lost>>
  BY <1>0 DEF Gather, MustPull, Looking, TypeOK, CallType, Idle, streamVars, clientVars
<1>2. call.min \in Nat /\ call.min \in Mins BY <1>1, StartNat
<1>3. /\ Len(copy) \in Nat /\ cavail \in Nat /\ cnext \in Nat /\ base \in Nat /\ ctotal \in Nat
      /\ copy \in Seq(Nat) /\ cnext + cavail <= ctotal /\ cavail > 0
  BY <1>0 DEF Gather, TypeOK, BufferBounds
<1>4. PICK s \in Nat, at \in Nat, n \in Nat :
           /\ at + Len(copy) + n <= s /\ n <= cavail
           /\ s = bufsize \/ s < 2 * call.min
           /\ bufsize' = s /\ gap' = at
           /\ copy' = copy \o BS!Bytes(base + cnext, n)
           /\ cnext' = cnext + n /\ cavail' = cavail - n
  BY GatherStep
<1>5. copy' \in Seq(Nat) /\ Len(copy') = Len(copy) + n
  <2>1. base + cnext \in Nat BY <1>3
  <2>2. BS!Bytes(base + cnext, n) \in Seq(Nat) /\ Len(BS!Bytes(base + cnext, n)) = n
    BY <2>1, BytesProperties
  <2> QED BY <2>2, <1>3, <1>4, ConcatLen
<1>6. gap' + Len(copy') <= bufsize' BY <1>3, <1>4, <1>5
<1>7. cnext' \in Nat /\ cavail' \in Nat /\ cnext' + cavail' = cnext + cavail BY <1>3, <1>4
<1>8. TypeOK' BY <1>0, <1>1, <1>4, <1>5, <1>7 DEF TypeOK, CallType
<1>9. BufferBounds' BY <1>1, <1>3, <1>6, <1>7, <1>8 DEF BufferBounds, TypeOK
<1>10. BlockShape'
  <2>1. ctotal' = ctotal /\ Len(copy) + cavail > 0 BY <1>1, <1>3
  <2>2. ctotal > 0 => cnext + cavail = ctotal BY <1>0, <2>1 DEF BlockShape
  <2> QED BY <2>1, <2>2, <1>3, <1>7 DEF BlockShape
<1>11. GrowthBounded' BY <1>0, <1>2, <1>4 DEF GrowthBounded
<1>12. PastBuffers' BY <1>1 DEF PastBuffers
<1> QED BY <1>8, <1>9, <1>10, <1>11, <1>12 DEF IInv

(* Consuming from the buffers preserves the invariant, and a consume that  *)
(* goes on has emptied both.                                               *)
LEMMA IInvConsume ==
  ASSUME IInv, NEW request \in Amounts, Consume(request) PROVE IInv'
<1>0. TypeOK /\ BufferBounds /\ BlockShape /\ GrowthBounded /\ request \in Nat BY StartNat DEF IInv
<1>1. CASE fatal /\ request > 0
  BY <1>0, <1>1, IInvCall, IdleType DEF Consume, Return, TypeOK, streamVars, clientVars
<1>2. CASE ~(fatal /\ request > 0)
  <2> DEFINE c    == minimum(request, Len(copy))
             b    == minimum(request - c, cavail)
             left == request - c - b
  <2>1. /\ copy' = SubSeq(copy, c + 1, Len(copy)) /\ gap' = gap + c
        /\ cnext' = cnext + b /\ cavail' = cavail - b /\ position' = position + c + b
        /\ IF left = 0 THEN Return(BS!Moved(request))
           ELSE Begin([op |-> "skip", left |-> left, done |-> c + b, got |-> 0, missed |-> 0])
        /\ UNCHANGED <<bufsize, base, ctotal, fatal, eof, clientVars, opening, lost>>
    BY <1>2 DEF Consume
  <2>2. Len(copy) \in Nat /\ cavail \in Nat BY <1>0 DEF TypeOK
  <2>2a. c \in Nat /\ c <= Len(copy) /\ c <= request /\ (c = request \/ c = Len(copy))
    BY <1>0, <2>2, MinimumType
  <2>2b. request - c \in Nat BY <1>0, <2>2a
  <2>3. b \in Nat /\ b <= cavail /\ b <= request - c /\ (b = request - c \/ b = cavail)
    BY <2>2, <2>2b, MinimumType
  <2>4. left \in Nat /\ (left # 0 => c = Len(copy) /\ b = cavail)
    BY <2>2, <2>2a, <2>2b, <2>3, <1>0
  <2> HIDE DEF c, b, left
  <2>5. copy' \in Seq(Nat) /\ Len(copy') = Len(copy) - c
    BY <1>0, <2>1, <2>2a, TailProperties DEF TypeOK
  <2>6a. gap \in Nat /\ bufsize \in Nat /\ gap + Len(copy) <= bufsize /\ bufsize' = bufsize
    BY <1>0, <2>1 DEF TypeOK, BufferBounds
  <2>6b. gap' \in Nat /\ gap' = gap + c BY <2>6a, <2>1, <2>2a
  <2>6. gap' \in Nat /\ gap' + Len(copy') <= bufsize'
    BY <2>6a, <2>6b, <2>2, <2>2a, <2>5
  <2>7. cnext' \in Nat /\ cavail' \in Nat /\ cnext' + cavail' = cnext + cavail /\ ctotal' = ctotal
    BY <1>0, <2>1, <2>3 DEF TypeOK
  <2>8. position' \in Nat BY <1>0, <2>1, <2>2a, <2>3 DEF TypeOK
  <2>9. call' \in CallType /\ PastBuffers'
    <3>1. CASE left = 0 BY <3>1, <2>1, IdleType DEF Return
    <3>2. CASE left # 0
      <4>1. call' = [op |-> "skip", left |-> left, done |-> c + b, got |-> 0, missed |-> 0] BY <3>2, <2>1 DEF Begin
      <4>2. call' \in CallType BY <4>1, <3>2, <2>2a, <2>3, <2>4 DEF CallType
      <4>3. copy' = <<>> BY <2>4, <3>2, <2>5, <2>2
      <4>4. cavail' = 0 BY <2>4, <3>2, <2>1, <1>0 DEF TypeOK
      <4>5. c + b \in Nat /\ 0 < left + 0 BY <3>2, <2>2a, <2>3, <2>4
      <4> QED BY <4>1, <4>2, <4>3, <4>4, <4>5 DEF PastBuffers
    <3> QED BY <3>1, <3>2
  <2>10. TypeOK' BY <1>0, <2>1, <2>5, <2>6, <2>7, <2>8, <2>9 DEF TypeOK, CallType, clientVars
  <2>11. BufferBounds' BY <1>0, <2>1, <2>6, <2>7, <2>10 DEF BufferBounds, TypeOK
  <2>12. BlockShape' BY <1>0, <2>2, <2>2a, <2>3, <2>5, <2>7, <2>1, <2>10 DEF BlockShape, TypeOK
  <2>13. GrowthBounded' BY <1>0, <2>1 DEF GrowthBounded
  <2> QED BY <2>9, <2>10, <2>11, <2>12, <2>13 DEF IInv
<1> QED BY <1>1, <1>2

(* Steps of a consume that has gone past the buffers. *)
LEMMA SkippingCall ==
  ASSUME IInv, call.op \in {"skip", "discard"}
  PROVE  /\ copy = <<>> /\ cavail = 0
         /\ call.left \in Nat \ {0} /\ call.done \in Nat
         /\ call.op = "skip" =>
              /\ call \in [op : {"skip"}, left : Nat \ {0}, done : Nat, got : Nat, missed : Nat]
              /\ call.got \in Nat /\ call.missed \in Nat
              /\ call.got < call.left + call.missed
              /\ "skip" \notin has => call.got = 0
<1>1. \/ call \in [op : {"skip"}, left : Nat \ {0}, done : Nat, got : Nat, missed : Nat]
      \/ call.op = "discard" /\ call \in [op : {"discard"}, left : Nat \ {0}, done : Nat]
  BY DEF IInv, TypeOK, CallType, Idle
<1>2. call.op = "skip" => /\ call.got < call.left + call.missed
                          /\ "skip" \notin has => call.got = 0
  BY DEF IInv, PastBuffers
<1> QED BY <1>1, <1>2 DEF IInv, PastBuffers

(* The client skipped no more than asked: what is left to discard is       *)
(* positive.                                                               *)
LEMMA SkippedType ==
  ASSUME IInv, call.op = "skip", NEW n \in Nat, n <= call.left, Skipped(n),
         copy' = copy, cavail' = cavail
  PROVE  call' \in CallType /\ PastBuffers' /\ position' \in Nat
<1>1. copy' = <<>> /\ cavail' = 0 /\ call.left \in Nat \ {0} /\ call.done \in Nat
  BY SkippingCall
<1>2. CASE n = call.left BY <1>2, IdleType DEF Skipped, Return, IInv, TypeOK
<1>3. CASE n # call.left
  <2>1. call' = [op |-> "discard", left |-> call.left - n, done |-> call.done + n]
    BY <1>3 DEF Skipped
  <2>2. call.left - n \in Nat \ {0} /\ call.done + n \in Nat BY <1>1, <1>3
  <2>3. call' \in CallType BY <2>1, <2>2 DEF CallType
  <2>4. position' \in Nat BY DEF Skipped, IInv, TypeOK
  <2> QED BY <1>1, <2>1, <2>3, <2>4 DEF PastBuffers
<1> QED BY <1>2, <1>3

(* An answer of the skip callback takes the client on by no more than what *)
(* was asked and what is left of the volume.                               *)
LEMMA AnswerType ==
  ASSUME IInv, Skipping, NEW get \in 1..minimum(Asked, Within)
  PROVE  /\ get \in Nat /\ get >= 1 /\ get <= Asked /\ get <= Within
         /\ Asked \in Nat /\ Within \in Nat /\ Within <= Remaining
         /\ Asked = call.left + call.missed - call.got
<1>1. call.op = "skip" BY DEF Skipping
<1>2. call.left \in Nat /\ call.got \in Nat /\ call.missed \in Nat /\ call.got < call.left + call.missed
  BY <1>1, SkippingCall
<1>3. Asked \in Nat /\ Asked = call.left + call.missed - call.got BY <1>2 DEF Asked
<1>4. VolumeEnd \in Nat /\ source \in Nat BY StartNat DEF VolumeEnd, IInv, TypeOK
<1>5. Remaining \in Nat BY <1>4 DEF Remaining, maximum
<1>6. Within \in Nat /\ Within <= Remaining BY <1>5 DEF Within
<1>7. minimum(Asked, Within) \in Nat /\ minimum(Asked, Within) <= Asked /\ minimum(Asked, Within) <= Within
  BY <1>3, <1>6, MinimumType
<1> QED BY <1>3, <1>6, <1>7

(* The calls of the skip callback within one consume.                      *)
LEMMA IInvCallback == ASSUME IInv, SkipByCallback PROVE IInv'
<1>0. TypeOK /\ call.op = "skip" /\ "skip" \in has
  BY DEF IInv, SkipByCallback, SkipServes, SkipFails, SkipStops, SkipOverruns, Skipping
<1>1. /\ call \in [op : {"skip"}, left : Nat \ {0}, done : Nat, got : Nat, missed : Nat]
      /\ call.left \in Nat \ {0} /\ call.got \in Nat /\ call.missed \in Nat /\ call.done \in Nat
      /\ call.got < call.left + call.missed /\ copy = <<>> /\ cavail = 0
  BY <1>0, SkippingCall
<1>2. source \in Nat BY <1>0 DEF TypeOK
<1>3. CASE SkipServes
  <2>1. Skipping BY <1>3 DEF SkipServes
  <2>2. PICK get \in 1..minimum(Asked, Within) :
          /\ source' = source + get
          /\ IF get = Asked THEN Skipped(call.left)
             ELSE call' = [call EXCEPT !.got = call.got + get] /\ UNCHANGED <<position, reply>>
    BY <1>3 DEF SkipServes
  <2>3. UNCHANGED <<copyVars, blockVars, fatal, eof, cursor, usable, sized, has, cut, opening>>
        /\ lost' \in BOOLEAN
    BY <1>0, <1>3 DEF SkipServes, TypeOK
  <2>4. get \in Nat /\ get <= Asked /\ Asked = call.left + call.missed - call.got
    BY <2>1, AnswerType
  <2>5. copy' = copy /\ cavail' = cavail BY <2>3 DEF copyVars, blockVars
  <2>6. call' \in CallType /\ PastBuffers' /\ position' \in Nat
    <3>1. CASE get = Asked
      <4>1. call.left \in Nat /\ call.left <= call.left /\ Skipped(call.left) BY <1>1, <2>2, <3>1
      <4> QED BY <1>0, <2>5, <4>1, SkippedType
    <3>2. CASE get # Asked
      <4>1. call' = [call EXCEPT !.got = call.got + get] /\ position' = position BY <2>2, <3>2
      <4>2. call' = [op |-> "skip", left |-> call.left, done |-> call.done,
                     got |-> call.got + get, missed |-> call.missed]
        BY <1>1, <4>1
      <4>3. call' \in CallType BY <1>1, <2>4, <4>2 DEF CallType
      <4>4. call.got + get < call.left + call.missed BY <1>1, <2>4, <3>2
      <4>6. call'.op = "skip" /\ call'.got < call'.left + call'.missed BY <4>2, <4>4
      <4>7. "skip" \in has' BY <1>0, <2>3
      <4>5. PastBuffers' BY <1>1, <2>5, <4>6, <4>7 DEF PastBuffers
      <4> QED BY <1>0, <4>1, <4>3, <4>5 DEF TypeOK
    <3> QED BY <3>1, <3>2
  <2>7. source' \in Nat BY <1>2, <2>2, <2>4
  <2> QED BY <1>0, <2>3, <2>6, <2>7, IInvCall DEF TypeOK
<1>4. CASE SkipFails
  <2>1. PICK by \in 1..(SkipErrorMax - call.missed) : call' = [call EXCEPT !.missed = call.missed + by]
    BY <1>4 DEF SkipFails
  <2>2. by \in Nat BY <1>1, StreamAssumption
  <2>3. call' = [op |-> "skip", left |-> call.left, done |-> call.done,
                 got |-> call.got, missed |-> call.missed + by]
    BY <1>1, <2>1
  <2>4. call' \in CallType BY <1>1, <2>2, <2>3 DEF CallType
  <2>5. call.got < call.left + (call.missed + by) BY <1>1, <2>2
  <2>7. UNCHANGED <<copyVars, blockVars, streamVars, clientVars, opening, reply, lost>> BY <1>4 DEF SkipFails
  <2>9. call'.op = "skip" /\ call'.got < call'.left + call'.missed BY <2>3, <2>5
  <2>10. "skip" \in has' /\ copy' = copy /\ cavail' = cavail
    BY <1>0, <2>7 DEF clientVars, copyVars, blockVars
  <2>8. PastBuffers' BY <1>1, <2>9, <2>10 DEF PastBuffers
  <2> QED BY <1>0, <2>4, <2>7, <2>8, IInvCall DEF TypeOK, streamVars, clientVars
<1>5. CASE SkipStops
  <2>1. UNCHANGED <<copyVars, blockVars, eof, clientVars, opening>> BY <1>5 DEF SkipStops
  <2>2. copy' = copy /\ cavail' = cavail BY <2>1 DEF copyVars, blockVars
  <2>3. CASE call.got < call.missed
    <3>1. fatal' = TRUE /\ Return(BS!IOError) /\ UNCHANGED <<position, lost>> BY <1>5, <2>3 DEF SkipStops
    <3> QED BY <1>0, <2>1, <3>1, IInvCall, IdleType DEF Return, TypeOK, clientVars
  <2>4. CASE ~(call.got < call.missed)
    <3>1. Skipped(call.got - call.missed) /\ fatal' = fatal /\ lost' \in BOOLEAN
      BY <1>0, <1>5, <2>4 DEF SkipStops, TypeOK
    <3>2. call.got - call.missed \in Nat /\ call.got - call.missed <= call.left BY <1>1, <2>4
    <3>3. call' \in CallType /\ PastBuffers' /\ position' \in Nat
      BY <1>0, <2>2, <3>1, <3>2, SkippedType
    <3> QED BY <1>0, <2>1, <3>1, <3>3, IInvCall DEF TypeOK, clientVars
  <2> QED BY <2>3, <2>4
<1>6. CASE SkipOverruns
  <2>1. PICK get \in (Asked + 1)..Within : source' = source + get BY <1>6 DEF SkipOverruns
  <2>2. Asked \in Nat BY <1>1 DEF Asked
  <2>3. get \in Nat BY <2>1, <2>2
  <2>4. source' \in Nat BY <1>2, <2>1, <2>3
  <2> QED BY <1>0, <1>6, <2>4, IInvCall, IdleType DEF SkipOverruns, Return, TypeOK
<1> QED BY <1>3, <1>4, <1>5, <1>6 DEF SkipByCallback

(* Every way of skipping in the client preserves the invariant.            *)
LEMMA IInvSkip ==
  ASSUME IInv, SkipByCallback \/ SeekerFails \/ SkipBySeeker \/ NoSkipper
  PROVE  IInv'
<1>0. TypeOK BY DEF IInv
<1>1. CASE SkipByCallback BY <1>1, IInvCallback
<1>2. CASE SeekerFails
  BY <1>0, <1>2, IInvCall, IdleType DEF SeekerFails, Return, TypeOK, clientVars
<1>3. CASE SkipBySeeker
  <2>1. VolumeEnd \in Nat /\ source \in Nat BY <1>0, StartNat DEF VolumeEnd, TypeOK
  <2>2. call.op = "skip" /\ copy' = copy /\ cavail' = cavail /\ call.left \in Nat
    BY <1>3, SkippingCall DEF SkipBySeeker, copyVars, blockVars
  <2>3. source' \in Nat BY <1>3, <2>1, <2>2 DEF SkipBySeeker
  <2>4. \/ fatal' = TRUE /\ Return(BS!IOError) /\ UNCHANGED position
        \/ Skipped(call.left) /\ UNCHANGED fatal
    BY <1>3 DEF SkipBySeeker
  <2>5. call' \in CallType /\ PastBuffers' /\ position' \in Nat /\ fatal' \in BOOLEAN
    <3>1. CASE fatal' = TRUE /\ Return(BS!IOError) /\ UNCHANGED position
      BY <1>0, <3>1, IdleType DEF Return, TypeOK
    <3>2. CASE Skipped(call.left) /\ UNCHANGED fatal
      BY <1>0, <2>2, <3>2, SkippedType DEF TypeOK
    <3> QED BY <2>4, <3>1, <3>2
  <2> QED BY <1>0, <1>3, <2>3, <2>5, IInvCall DEF SkipBySeeker, TypeOK
<1>4. CASE NoSkipper
  <2>1. call.op = "skip" /\ Skipped(0) /\ copy' = copy /\ cavail' = cavail
    BY <1>4 DEF NoSkipper, copyVars, blockVars
  <2>2. call.left \in Nat BY <2>1, SkippingCall
  <2>3. call' \in CallType /\ PastBuffers' /\ position' \in Nat
    BY <2>1, <2>2, SkippedType
  <2> QED BY <1>0, <1>4, <2>3, IInvCall DEF NoSkipper, TypeOK, clientVars
<1> QED BY <1>1, <1>2, <1>3, <1>4

(* Reading and discarding preserves the invariant.                         *)
LEMMA IInvDiscard ==
  ASSUME IInv, Discard \/ DiscardError \/ DiscardNext \/ DiscardEnd
  PROVE  IInv'
<1>0. TypeOK BY DEF IInv
<1>1. CASE Discard
  <2>1. PICK n \in Delivered :
          /\ base' = source /\ source' = source + n
          /\ position' = position + minimum(n, call.left)
          /\ IF n >= call.left
             THEN /\ cnext' = minimum(n, call.left) /\ cavail' = n - minimum(n, call.left) /\ ctotal' = n
                  /\ Return(BS!Moved(call.done + minimum(n, call.left)))
             ELSE /\ call' = [op |-> "discard", left |-> call.left - n, done |-> call.done + n]
                  /\ UNCHANGED <<cnext, cavail, ctotal, reply>>
    BY <1>1 DEF Discard
  <2>2. /\ copy = <<>> /\ cavail = 0 /\ call.left \in Nat \ {0} /\ call.done \in Nat
    BY <1>1, SkippingCall DEF Discard
  <2>3. n \in Nat BY <1>0, <2>1, DeliveredType
  <2>4. /\ copy' = <<>> /\ gap' = gap /\ bufsize' = bufsize
        /\ UNCHANGED <<fatal, eof, cursor, usable, sized, has, cut, opening, lost>>
    BY <1>1, <2>2 DEF Discard, copyVars
  <2> DEFINE used == minimum(n, call.left)
  <2>5. used \in Nat /\ used <= n BY <2>2, <2>3, MinimumType
  <2>6. base' \in Nat /\ source' \in Nat /\ position' \in Nat
    BY <1>0, <2>1, <2>3, <2>5 DEF TypeOK
  <2>7. /\ cnext' \in Nat /\ cavail' \in Nat /\ ctotal' \in Nat
        /\ cnext' + cavail' <= ctotal'
        /\ cavail' > 0 => cnext' + cavail' = ctotal'
    <3>1. CASE n >= call.left BY <3>1, <2>1, <2>3, <2>5
    <3>2. CASE ~(n >= call.left)
      <4>1. cnext' = cnext /\ cavail' = cavail /\ ctotal' = ctotal BY <3>2, <2>1
      <4>2. cnext \in Nat /\ cavail \in Nat /\ ctotal \in Nat /\ cnext + cavail <= ctotal
        BY DEF IInv, TypeOK, BufferBounds
      <4> QED BY <4>1, <4>2, <2>2
    <3> QED BY <3>1, <3>2
  <2>8. call' \in CallType /\ PastBuffers'
    <3>1. CASE n >= call.left BY <3>1, <2>1, IdleType DEF Return
    <3>2. CASE ~(n >= call.left)
      <4>1. call' = [op |-> "discard", left |-> call.left - n, done |-> call.done + n] /\ cavail' = 0
        BY <3>2, <2>1, <2>2
      <4>2. call.left - n \in Nat \ {0} /\ call.done + n \in Nat BY <3>2, <2>2, <2>3
      <4>3. call' \in CallType BY <4>1, <4>2 DEF CallType
      <4> QED BY <4>1, <4>3, <2>4 DEF PastBuffers
    <3> QED BY <3>1, <3>2
  <2>9. copy' \in Seq(Nat) /\ Len(copy') = 0 BY <2>4
  <2>10. TypeOK' BY <1>0, <2>4, <2>6, <2>7, <2>8, <2>9 DEF TypeOK, CallType
  <2>11. Len(copy) = 0 /\ gap \in Nat /\ bufsize \in Nat /\ gap + Len(copy) <= bufsize
    BY <2>2 DEF IInv, TypeOK, BufferBounds
  <2>12. gap' + Len(copy') <= bufsize' BY <2>4, <2>9, <2>11
  <2>13. BufferBounds' BY <2>7, <2>12, <2>9, <2>10 DEF BufferBounds, TypeOK
  <2>14. BlockShape'
    <3>1. SUFFICES ASSUME Len(copy') + cavail' > 0 PROVE cnext' + cavail' = ctotal'
      BY DEF BlockShape
    <3>2. cavail' # 0 BY <3>1, <2>9
    <3>3. cavail' > 0 BY <3>2, <2>7
    <3> QED BY <3>3, <2>7
  <2>15. GrowthBounded' BY <2>4 DEF IInv, GrowthBounded
  <2> QED BY <2>8, <2>10, <2>13, <2>14, <2>15 DEF IInv
<1>2. CASE DiscardError
  BY <1>0, <1>2, IInvCall, IdleType DEF DiscardError, Return, TypeOK, clientVars
<1>3. CASE DiscardNext
  <2>1. PastBuffers' BY <1>3, SkippingCall DEF DiscardNext, PastBuffers, copyVars, blockVars
  <2> QED BY <1>0, <1>3, <2>1, IInvCall, EndType DEF DiscardNext, TypeOK, streamVars
<1>4. CASE DiscardEnd
  BY <1>0, <1>4, IInvCall, IdleType, EndType DEF DiscardEnd, Return, TypeOK
<1> QED BY <1>1, <1>2, <1>3, <1>4

(* The ends of a volume are natural numbers.                               *)
LEMMA HoldsType ==
  ASSUME NEW v \in Nodes, NEW offset \in Int
  PROVE  /\ Start[v] \in Nat /\ Start[v + 1] \in Nat /\ Start[1] \in Nat
         /\ v \in 0..Volumes /\ v + 1 \in 0..Volumes /\ Volumes \in 0..Volumes
         /\ FromEnd(offset) \in Int
BY StartNat, StreamAssumption DEF FromEnd, Nodes, Size

(* The number of volumes of known size never exceeds Volumes.              *)
LEMMA SizedType ==
  ASSUME TypeOK, NEW known \in 0..Volumes
  PROVE  maximum(sized, known) \in 0..Volumes
BY DEF maximum, TypeOK

(* A seek that succeeds drops the buffers and preserves the invariant.     *)
LEMMA IInvSeekDone ==
  ASSUME IInv, call = Idle, NEW v \in Nodes, NEW to \in Nat, NEW known \in 0..Volumes,
         SeekDone(v, to, known)
  PROVE  IInv'
<1>0. TypeOK BY DEF IInv
<1>1. copy' = <<>> /\ gap' = 0 /\ cavail' = 0 /\ call' = Idle /\ UNCHANGED <<bufsize, base, cnext, ctotal>>
  BY DEF SeekDone, Return
<1>2. call' \in CallType /\ PastBuffers' BY <1>1, IdleType
<1>3. copy' \in Seq(Nat) /\ Len(copy') = 0 BY <1>1
<1>4. sized' \in 0..Volumes BY <1>0, SizedType DEF SeekDone
<1>5a. /\ cursor' = v /\ source' = to /\ usable' = TRUE /\ position' = to /\ eof' = FALSE
       /\ lost' = FALSE /\ cut' = FALSE /\ UNCHANGED <<fatal, has, opening>>
  BY DEF SeekDone
<1>5. TypeOK' BY <1>0, <1>1, <1>2, <1>3, <1>4, <1>5a DEF TypeOK, CallType
<1>6. cnext \in Nat /\ cavail \in Nat /\ ctotal \in Nat /\ cnext + cavail <= ctotal /\ bufsize \in Nat
  BY DEF IInv, TypeOK, BufferBounds
<1>7. cnext' \in Nat /\ cnext' + cavail' <= ctotal' BY <1>1, <1>6
<1>8. gap' + Len(copy') <= bufsize' BY <1>1, <1>3, <1>6
<1>9. BufferBounds' BY <1>7, <1>8, <1>1, <1>3, <1>6 DEF BufferBounds
<1>10. BlockShape' BY <1>1, <1>3 DEF BlockShape
<1>11. GrowthBounded' BY <1>1 DEF IInv, GrowthBounded
<1> QED BY <1>2, <1>5, <1>9, <1>10, <1>11 DEF IInv

(* A seek that stops half way touches no buffer.                           *)
LEMMA IInvSeekStops ==
  ASSUME IInv, call = Idle, NEW v \in Nodes, NEW at \in Nat, NEW open \in BOOLEAN,
         NEW known \in 0..Volumes, SeekStops(v, at, open, known)
  PROVE  IInv'
<1>0. TypeOK BY DEF IInv
<1>1. sized' \in 0..Volumes BY <1>0, SizedType DEF SeekStops
<1> QED BY <1>0, <1>1, IInvCall, IdleType DEF SeekStops, Return, TypeOK, streamVars

(* A seek whose callbacks fail touches no buffer.                          *)
LEMMA IInvSeekBreaks ==
  ASSUME IInv, call = Idle, NEW first \in Nat, NEW stop \in Nodes, SeekBreaks(first, stop)
  PROVE  IInv'
<1>0. TypeOK BY DEF IInv
<1>1. PICK v \in first..stop :
        \/ \E open \in BOOLEAN : SeekStops(v, Start[v], open, v)
        \/ \E at \in {Start[v], Start[v + 1]} : SeekStops(v, at, TRUE, v)
        \/ SeekStops(v, source, FALSE, v)
  BY DEF SeekBreaks
<1>2. v \in Nodes BY StreamAssumption DEF Nodes
<1>3. Start[v] \in Nat /\ Start[v + 1] \in Nat /\ v \in 0..Volumes BY <1>2, HoldsType
<1>4. source \in Nat BY <1>0 DEF TypeOK
<1>5. PICK at \in {Start[v], Start[v + 1], source}, open \in BOOLEAN : SeekStops(v, at, open, v)
  BY <1>1
<1>6. at \in Nat BY <1>3, <1>4, <1>5
<1> QED BY <1>2, <1>3, <1>5, <1>6, IInvSeekStops

(* The first volume a seek visits is a natural number.                     *)
LEMMA FirstType ==
  ASSUME TypeOK, NEW v \in Nodes PROVE minimum(sized, v) \in Nat
BY StreamAssumption DEF TypeOK, Nodes, minimum

(* A seek from the start preserves the invariant.                          *)
LEMMA IInvSeekSet ==
  ASSUME IInv, NEW offset \in Int, SeekSet(offset) PROVE IInv'
<1>0. TypeOK /\ call = Idle BY DEF IInv, SeekSet
<1>1. PICK v \in Nodes :
        \/ SeekBreaks(minimum(sized, v), v)
        \/ offset \in Start[v]..Start[v + 1] /\ SeekDone(v, offset, v + 1)
        \/ SeekStops(v, Start[v + 1], TRUE, v + 1)
  BY DEF SeekSet
<1>2. Start[v] \in Nat /\ Start[v + 1] \in Nat /\ v + 1 \in 0..Volumes BY HoldsType
<1>3. CASE SeekBreaks(minimum(sized, v), v) BY <1>0, <1>3, FirstType, IInvSeekBreaks
<1>4. CASE offset \in Start[v]..Start[v + 1] /\ SeekDone(v, offset, v + 1)
  <2>1. offset \in Nat BY <1>2, <1>4
  <2> QED BY <2>1, <1>0, <1>2, <1>4, IInvSeekDone
<1>5. CASE SeekStops(v, Start[v + 1], TRUE, v + 1) BY <1>0, <1>2, <1>5, IInvSeekStops
<1> QED BY <1>1, <1>3, <1>4, <1>5

(* A seek from the end preserves the invariant.                            *)
LEMMA IInvSeekEnd ==
  ASSUME IInv, NEW offset \in Int, SeekEnd(offset) PROVE IInv'
<1>0. TypeOK /\ call = Idle BY DEF IInv, SeekEnd
<1>1. PICK v \in Nodes :
        \/ SeekBreaks(minimum(sized, Last), Last)
        \/ FromEnd(offset) >= 0 /\ SeekDone(v, FromEnd(offset), Volumes)
        \/ \E at \in {Start[v], Start[v + 1]} : SeekStops(v, at, TRUE, Volumes)
        \/ \E open \in BOOLEAN : SeekStops(v, Start[v], open, Volumes)
  BY DEF SeekEnd
<1>2. /\ Start[v] \in Nat /\ Start[v + 1] \in Nat /\ Volumes \in 0..Volumes
      /\ FromEnd(offset) \in Int
  BY HoldsType
<1>3. CASE SeekBreaks(minimum(sized, Last), Last)
  BY <1>0, <1>3, StartNat, FirstType, IInvSeekBreaks
<1>4. CASE FromEnd(offset) >= 0 /\ SeekDone(v, FromEnd(offset), Volumes)
  <2>1. FromEnd(offset) \in Nat BY <1>2, <1>4
  <2> QED BY <2>1, <1>0, <1>2, <1>4, IInvSeekDone
<1>5. CASE \E at \in {Start[v], Start[v + 1]} : SeekStops(v, at, TRUE, Volumes)
  BY <1>0, <1>2, <1>5, IInvSeekStops
<1>6. CASE \E open \in BOOLEAN : SeekStops(v, Start[v], open, Volumes) BY <1>0, <1>2, <1>6, IInvSeekStops
<1> QED BY <1>1, <1>3, <1>4, <1>5, <1>6

(* Every seek preserves the invariant.                                     *)
LEMMA IInvSeek == ASSUME IInv, Seek PROVE IInv'
<1>0. TypeOK /\ position \in Nat BY DEF IInv, TypeOK
<1>1. CASE SeekRefused
  BY <1>0, <1>1, IInvCall, IdleType DEF SeekRefused, Return, TypeOK, streamVars, clientVars
<1>2. CASE SeekUnsupported
  <2>1. 0 \in Nodes BY StreamAssumption DEF Nodes
  <2>2. cursor' \in Nodes /\ source' \in Nat /\ usable' \in BOOLEAN
    BY <1>0, <1>2, <2>1, SwitchType DEF SeekUnsupported
  <2>3. lost' \in BOOLEAN BY <1>0, <1>2 DEF SeekUnsupported, TypeOK
  <2>4. /\ UNCHANGED <<copyVars, blockVars, streamVars, sized, has, cut, opening>> /\ call' = Idle
    BY <1>2 DEF SeekUnsupported, Return
  <2> QED BY <1>0, <2>2, <2>3, <2>4, IInvCall, IdleType DEF TypeOK, streamVars
<1>3. CASE \E offset \in Offsets :
            SeekSet(offset) \/ SeekSet(position + offset) \/ SeekEnd(offset)
  <2>1. PICK offset \in Offsets :
            SeekSet(offset) \/ SeekSet(position + offset) \/ SeekEnd(offset)
    BY <1>3
  <2>2. offset \in Int BY StartNat
  <2>3. position + offset \in Int BY <1>0, <2>2
  <2> QED BY <2>1, <2>2, <2>3, IInvSeekSet, IInvSeekEnd
<1> QED BY <1>1, <1>2, <1>3 DEF Seek

(* The end of archive_read_open1 touches no buffer.                        *)
LEMMA IInvOpenDone == ASSUME IInv, OpenDone PROVE IInv'
<1>0. TypeOK BY DEF IInv
<1>1. 0 \in Nodes BY StreamAssumption DEF Nodes
<1>2. cursor' \in Nodes /\ source' \in Nat /\ usable' \in BOOLEAN
  BY <1>0, <1>1, SwitchType DEF OpenDone
<1>3. UNCHANGED <<copy, gap, bufsize, base, cnext, cavail, ctotal, position, fatal, eof, sized, has, cut, call, lost>>
      /\ opening' = FALSE
  BY DEF OpenDone, copyVars, blockVars, streamVars
<1>4. PastBuffers' BY <1>3 DEF IInv, PastBuffers
<1>5. BufferBounds' /\ GrowthBounded' /\ BlockShape'
  BY <1>3 DEF IInv, BufferBounds, GrowthBounded, BlockShape
<1>6. call' \in CallType BY <1>0, <1>3 DEF TypeOK, CallType
<1>7. TypeOK' BY <1>0, <1>2, <1>3, <1>6 DEF TypeOK
<1> QED BY <1>4, <1>5, <1>7 DEF IInv

(* The invariant is inductive.                                             *)
LEMMA IInvNext == ASSUME IInv, [Next]_vars PROVE IInv'
<1>1. ASSUME Calls PROVE IInv'
  BY <1>1, IInvAhead, IInvConsume, IInvSeek, IInvOpenDone DEF Calls
<1>2. ASSUME Pull PROVE IInv'
  BY <1>2, IInvPull, IInvPeekClient, IInvGather DEF Pull
<1>3. ASSUME Skip PROVE IInv'
  BY <1>3, IInvSkip, IInvDiscard DEF Skip
<1>4. ASSUME UNCHANGED vars PROVE IInv' BY <1>4, IInvUnchanged
<1> QED BY <1>1, <1>2, <1>3, <1>4 DEF Next

(* Whatever calls, blocks, volume ends and faults there are, the variables *)
(* keep their types, no copy overflows the copy buffer, the pointer into   *)
(* the client block never leaves it (neither by consuming nor by rolling   *)
(* copied data back), and the doubling of the copy buffer stays under      *)
(* twice the largest look-ahead.                                           *)
THEOREM BuffersSafe == Spec => [](TypeOK /\ BufferBounds /\ GrowthBounded)
<1>1. IInv => TypeOK /\ BufferBounds /\ GrowthBounded BY DEF IInv
<1>2. Spec => []IInv BY IInvInit, IInvNext, PTL DEF Spec
<1> QED BY <1>1, <1>2, PTL

(* Every variable keeps its type.  In particular no count of bytes ever    *)
(* goes below zero: the code subtracts from f->client_avail, f->avail and  *)
(* the bytes left to skip, and rolls f->client_next back.                  *)
THEOREM CountsStayNatural == Spec => []TypeOK
BY BuffersSafe, PTL

(* The doubling of the copy buffer stays under twice the largest           *)
(* look-ahead, for every sequence of look-aheads.                          *)
THEOREM CopyBufferStaysSmall == Spec => []GrowthBounded
BY BuffersSafe, PTL

-----------------------------------------------------------------------------
(* Agreement of the position, the buffers and the client.                  *)

(* The clients for which the agreement can be promised: the switch back to *)
(* the first volume at the end of archive_read_open1 has nothing to switch,*)
(* or nothing has bid before it; and a skip that goes through the seeker   *)
(* is refused when it would leave the volume.                              *)
Orderly == /\ Volumes = 1 \/ ~Bidding
           /\ SeeksPastEnd => \A c \in Clients : "skip" \in c \/ "seek" \notin c

(* The client never is past the end of its volume.                         *)
InVolume == ~lost /\ ~fatal => source <= VolumeEnd

(* InStep strengthened: a drained volume is left for one that begins where *)
(* it ends, which needs InVolume.                                          *)
StepInv == InStep /\ InVolume /\ (opening => Bidding)

(* The stream starts in step.                                              *)
LEMMA StepInvInit == Init => StepInv
<1> SUFFICES ASSUME Init PROVE StepInv OBVIOUS
<1>1. copy = <<>> /\ cavail = 0 /\ ctotal = 0 /\ position = 0 /\ source = 0 /\ cursor = 0 /\ opening = Bidding
  BY DEF Init
<1>5. Underway = 0 BY DEF Init, Idle, Underway
<1>2. InStep BY <1>1, <1>5 DEF InStep, CopyInStep, BlockInStep, SourceInStep
<1>3. Start[1] \in Nat BY StreamAssumption
<1>4. InVolume BY <1>1, <1>3 DEF InVolume, VolumeEnd
<1> QED BY <1>1, <1>2, <1>4 DEF StepInv

(* Outside the skip callback nothing is under way in the client.           *)
LEMMA Calm ==
  ASSUME TypeOK, call.op # "skip"
  PROVE  Underway = 0 /\ (SourceInStep => source = position + Len(copy) + cavail)
<1>1. Underway = 0 BY DEF Underway
<1>2. position \in Nat /\ Len(copy) \in Nat /\ cavail \in Nat BY DEF TypeOK
<1> QED BY <1>1, <1>2 DEF SourceInStep

(* Nor is it when a consume has just come to the client.                   *)
LEMMA CalmNext ==
  ASSUME position' \in Nat, Len(copy') \in Nat, cavail' \in Nat,
         call'.op # "skip" \/ call'.got = 0, source' = position' + Len(copy') + cavail'
  PROVE  SourceInStep'
<1>1. Underway' = 0 BY DEF Underway
<1> QED BY <1>1 DEF SourceInStep

(* A step that moves neither the buffers nor the client keeps them in      *)
(* step.                                                                   *)
LEMMA StepSame ==
  ASSUME StepInv, UNCHANGED <<copy, base, cnext, cavail, ctotal, position, source, cursor>>,
         opening' => opening, lost' = lost, fatal' \in {fatal, TRUE}, Underway' = Underway
  PROVE  StepInv'
BY DEF StepInv, InStep, CopyInStep, BlockInStep, SourceInStep, InVolume, VolumeEnd

(* A filter that is fatal, or lost, promises nothing.                      *)
LEMMA StepOff ==
  ASSUME StepInv, opening' => opening, lost' = TRUE \/ fatal' = TRUE
  PROVE  StepInv'
BY DEF StepInv, InStep, InVolume

(* The volumes after a drained one begin where it ends. *)
LEMMA StepEnd ==
  ASSUME IInv, StepInv, ~lost, ~fatal, OnToNext \/ NoMore
  PROVE  source' = source /\ source' <= VolumeEnd'
<1>1. TypeOK /\ source <= VolumeEnd /\ Remaining = 0 /\ cursor \in Nodes
  BY DEF IInv, TypeOK, StepInv, InVolume, OnToNext, NoMore, VolumeDone
<1>2. source \in Nat /\ VolumeEnd \in Nat BY <1>1, StartNat DEF TypeOK, VolumeEnd
<1>3. source = VolumeEnd BY <1>1, <1>2 DEF Remaining, maximum
<1>4. CASE cursor' = cursor /\ source' = source BY <1>1, <1>4 DEF VolumeEnd
<1>5. CASE cursor # Last /\ cursor' = cursor + 1 /\ source' = Start[cursor + 1]
  <2>1. cursor + 1 \in Nodes BY <1>1, <1>5, NextNode
  <2>2. cursor + 1 \in 0..Volumes /\ cursor + 2 \in 0..Volumes /\ cursor + 1 <= cursor + 2 /\ cursor \in Nat
    BY <2>1, <1>1, StreamAssumption DEF Nodes
  <2>3. Start[cursor + 1] <= Start[cursor + 2] BY <2>2, StreamAssumption
  <2>4. cursor' + 1 = cursor + 2 BY <1>5, <2>2
  <2> QED BY <1>3, <1>5, <2>3, <2>4 DEF VolumeEnd
<1>6. cursor # cursor + 1 BY <1>1, StartNat
<1> QED BY <1>4, <1>5, <1>6 DEF OnToNext, NoMore, SwitchTo, SwitchFails

(* The passes of the look-ahead loop that move no byte keep the stream in  *)
(* step.                                                                   *)
LEMMA StepPull ==
  ASSUME IInv, StepInv, PeekCopy \/ PeekAtEnd \/ FillError \/ NextVolume \/ StreamEnd \/ GrowFails
  PROVE  StepInv'
<1>0. Underway = 0 /\ Underway' = 0
  <2>1. call.op = "ahead"
    BY DEF PeekCopy, PeekAtEnd, FillError, NextVolume, StreamEnd, GrowFails, MustPull, Looking
  <2>2. call' = call \/ call' = Idle
    BY DEF PeekCopy, PeekAtEnd, FillError, NextVolume, StreamEnd, GrowFails, Return
  <2> QED BY <2>1, <2>2 DEF Underway, Idle
<1>1. CASE PeekCopy
  BY <1>0, <1>1, StepSame DEF PeekCopy, copyVars, blockVars, streamVars, clientVars
<1>2. CASE PeekAtEnd
  BY <1>0, <1>2, StepSame DEF PeekAtEnd, blockVars, streamVars, clientVars
<1>3. CASE FillError BY <1>3, StepOff DEF FillError
<1>4. CASE GrowFails BY <1>4, StepOff DEF GrowFails
<1>5. CASE NextVolume
  <2>1. CASE lost \/ fatal
    BY <1>5, <2>1, StepOff DEF NextVolume, streamVars, IInv, TypeOK
  <2>2. CASE ~lost /\ ~fatal
    <3>1. source' = source /\ source' <= VolumeEnd' BY <1>5, <2>2, StepEnd DEF NextVolume
    <3> QED BY <1>0, <1>5, <3>1
            DEF NextVolume, blockVars, streamVars, StepInv, InStep, InVolume, CopyInStep, BlockInStep, SourceInStep
  <2> QED BY <2>1, <2>2
<1>6. CASE StreamEnd
  <2>1. CASE lost \/ fatal
    BY <1>6, <2>1, StepOff DEF StreamEnd, IInv, TypeOK
  <2>2. CASE ~lost /\ ~fatal
    <3>1. source' = source /\ source' <= VolumeEnd' BY <1>6, <2>2, StepEnd DEF StreamEnd
    <3> QED BY <1>0, <1>6, <3>1
            DEF StreamEnd, StepInv, InStep, InVolume, CopyInStep, BlockInStep, SourceInStep
  <2> QED BY <2>1, <2>2
<1> QED BY <1>1, <1>2, <1>3, <1>4, <1>5, <1>6

(* A fresh block goes on where the copy buffer ends.                       *)
LEMMA StepFill == ASSUME IInv, StepInv, Fill PROVE StepInv'
<1>0. TypeOK BY DEF IInv
<1>1. PICK n \in Delivered : base' = source /\ cnext' = 0 /\ cavail' = n /\ ctotal' = n /\ source' = source + n
  BY DEF Fill
<1>2. /\ n \in Nat /\ n >= 1 /\ n <= VolumeEnd - source BY <1>0, DeliveredType
<1>3. /\ cavail = 0 /\ copy' = copy /\ position' = position /\ cursor' = cursor
      /\ fatal' = fatal /\ lost' = lost /\ opening' = opening
      /\ call' = call /\ call.op # "skip"
  BY DEF Fill, MustPull, Looking, streamVars
<1>4. CASE lost \/ fatal BY <1>0, <1>3, <1>4, StepOff DEF TypeOK
<1>5. CASE ~lost /\ ~fatal
  <2>1. CopyInStep /\ source = position + Len(copy) + cavail
    BY <1>0, <1>3, <1>5, Calm DEF StepInv, InStep
  <2>2. position \in Nat /\ Len(copy) \in Nat /\ source \in Nat /\ VolumeEnd \in Nat
    BY <1>0, StartNat DEF TypeOK, VolumeEnd
  <2>3. CopyInStep' BY <1>3, <2>1 DEF CopyInStep
  <2>4. base' + cnext' = position' + Len(copy') BY <1>1, <1>3, <2>1, <2>2
  <2>5. source' = position' + Len(copy') + cavail' BY <1>1, <1>2, <1>3, <2>1, <2>2
  <2>6. source' <= VolumeEnd' BY <1>1, <1>2, <1>3, <2>2 DEF VolumeEnd
  <2>7. SourceInStep' BY <1>1, <1>2, <1>3, <2>2, <2>5, CalmNext
  <2> QED BY <1>3, <2>3, <2>4, <2>6, <2>7 DEF StepInv, InStep, InVolume, BlockInStep
<1> QED BY <1>4, <1>5

(* Rolled back, the block begins at the position.                          *)
LEMMA StepPeekClient == ASSUME IInv, StepInv, PeekClient PROVE StepInv'
<1>0. TypeOK /\ BufferBounds BY DEF IInv
<1>1. /\ copy' = <<>> /\ Len(copy') = 0 /\ cavail' = cavail + Len(copy) /\ cnext' = cnext - Len(copy)
      /\ UNCHANGED <<base, ctotal, position, source, cursor, fatal, lost, opening>>
      /\ ctotal >= cavail + Len(copy)
      /\ call.op # "skip" /\ call'.op # "skip"
  BY DEF PeekClient, streamVars, clientVars, ClientServes, Looking, Return, Idle
<1>2. CASE lost \/ fatal BY <1>0, <1>1, <1>2, StepOff DEF TypeOK
<1>3. CASE ~lost /\ ~fatal
  <2>1. BlockInStep /\ source = position + Len(copy) + cavail
    BY <1>0, <1>1, <1>3, Calm DEF StepInv, InStep
  <2>2. /\ position \in Nat /\ Len(copy) \in Nat /\ source \in Nat /\ cavail \in Nat
        /\ base \in Nat /\ cnext \in Nat /\ ctotal \in Nat
    BY <1>0 DEF TypeOK
  <2>3. BlockInStep'
    <3>1. SUFFICES ASSUME Len(copy') + cavail' > 0 PROVE base' + cnext' = position' + Len(copy')
      BY DEF BlockInStep
    <3>2. Len(copy) + cavail > 0 BY <3>1, <1>1, <2>2
    <3>3. ctotal > 0 BY <3>2, <1>1, <2>2
    <3>4. base + cnext = position + Len(copy) BY <3>2, <3>3, <2>1 DEF BlockInStep
    <3> QED BY <3>4, <1>1, <2>2
  <2>4. source' = position' + Len(copy') + cavail' BY <1>1, <2>1, <2>2
  <2>5. CopyInStep' BY <1>1 DEF CopyInStep
  <2>6. InVolume' /\ (opening' => Bidding) BY <1>1 DEF StepInv, InVolume, VolumeEnd
  <2>7. SourceInStep' BY <1>1, <2>2, <2>4, CalmNext
  <2> QED BY <2>3, <2>5, <2>6, <2>7 DEF StepInv, InStep
<1> QED BY <1>2, <1>3

(* What is copied goes on where the copy buffer ended.                     *)
LEMMA StepGather == ASSUME IInv, StepInv, Gather PROVE StepInv'
<1>0. TypeOK /\ BufferBounds /\ TypeOK' BY IInvGather DEF IInv
<1>1. PICK n \in Nat :
         /\ copy' = copy \o BS!Bytes(base + cnext, n)
         /\ cnext' = cnext + n /\ cavail' = cavail - n
  BY GatherStep
<1>2. /\ cavail > 0
      /\ UNCHANGED <<base, ctotal, position, source, cursor, fatal, lost, opening>>
      /\ call' = call /\ call.op # "skip"
  BY DEF Gather, MustPull, Looking, streamVars, clientVars
<1>3. /\ position \in Nat /\ Len(copy) \in Nat /\ cavail \in Nat /\ cavail' \in Nat
      /\ base \in Nat /\ cnext \in Nat /\ cnext' \in Nat /\ ctotal \in Nat
      /\ copy \in Seq(Nat) /\ source \in Nat /\ cnext + cavail <= ctotal
  BY <1>0 DEF TypeOK, BufferBounds
<1>4. CASE lost \/ fatal BY <1>0, <1>2, <1>4, StepOff DEF TypeOK
<1>5. CASE ~lost /\ ~fatal
  <2>1. CopyInStep /\ BlockInStep /\ source = position + Len(copy) + cavail
    BY <1>0, <1>2, <1>5, Calm DEF StepInv, InStep
  <2>2. ctotal > 0 /\ Len(copy) + cavail > 0 BY <1>2, <1>3
  <2>3. base + cnext = position + Len(copy) BY <2>1, <2>2 DEF BlockInStep
  <2>4. base + cnext \in Nat BY <1>3
  <2> DEFINE new == BS!Bytes(base + cnext, n)
  <2>5. new \in Seq(Nat) /\ Len(new) = n /\ \A i \in 1..n : new[i] = base + cnext + i - 1
    BY <2>4, BytesProperties
  <2> HIDE DEF new
  <2>6. copy' = copy \o new BY <1>1 DEF new
  <2>7. Len(copy') = Len(copy) + n /\ copy' \in Seq(Nat) BY <2>5, <2>6, <1>3, ConcatLen
  <2>8. CopyInStep'
    <3>1. SUFFICES ASSUME NEW i \in 1..Len(copy') PROVE copy'[i] = position' + i - 1
      BY DEF CopyInStep
    <3>2. CASE i <= Len(copy)
      <4>1. copy'[i] = copy[i] BY <3>2, <2>5, <2>6, <1>3
      <4> QED BY <4>1, <3>2, <2>1, <1>2, <1>3 DEF CopyInStep
    <3>3. CASE i > Len(copy)
      <4>1. i - Len(copy) \in 1..n BY <3>3, <2>7, <1>3
      <4>2. copy'[i] = new[i - Len(copy)] BY <3>3, <4>1, <2>5, <2>6, <1>3
      <4>3. copy'[i] = base + cnext + (i - Len(copy)) - 1 BY <4>1, <4>2, <2>5
      <4>4. position' = position BY <1>2
      <4>5. /\ Len(copy) \in Nat /\ i \in Nat /\ position \in Nat
            /\ base \in Nat /\ cnext \in Nat
        BY <1>3, <2>7
      <4> QED BY <2>3, <4>3, <4>4, <4>5
    <3> QED BY <3>2, <3>3, <1>3
  <2>9. base' + cnext' = position' + Len(copy')
    <3>1. base' = base /\ position' = position BY <1>2
    <3>2. Len(copy') = Len(copy) + n BY <2>7
    <3>3. cnext' = cnext + n BY <1>1
    <3>4. n \in Nat OBVIOUS
    <3> QED BY <3>1, <3>2, <3>3, <3>4, <1>3, <2>3
  <2>10. source' = position' + Len(copy') + cavail'
    <3>1. source' = source /\ position' = position BY <1>2
    <3>2. Len(copy') = Len(copy) + n BY <2>7
    <3>3. source = position + Len(copy) + cavail BY <2>1
    <3>4. cavail' = cavail - n BY <1>1
    <3>5. n \in Nat OBVIOUS
    <3>6. (Len(copy) + n) + (cavail - n) = Len(copy) + cavail BY <3>5, <1>3
    <3>7. position' + Len(copy') + cavail' = position + (Len(copy) + n) + (cavail - n) BY <3>1, <3>2, <3>4
    <3>8. position + (Len(copy) + n) + (cavail - n) = position + Len(copy) + cavail BY <3>5, <1>3
    <3> QED BY <3>1, <3>3, <3>7, <3>8
  <2>11. InVolume' /\ (opening' => Bidding) BY <1>2 DEF StepInv, InVolume, VolumeEnd
  <2>12. position' \in Nat /\ Len(copy') \in Nat BY <1>2, <1>3, <2>7
  <2>13. SourceInStep' BY <1>2, <1>3, <2>10, <2>12, CalmNext
  <2> QED BY <2>8, <2>9, <2>11, <2>13 DEF StepInv, InStep, BlockInStep
<1> QED BY <1>4, <1>5

(* Consuming takes the copied bytes first, then those of the block.        *)
LEMMA StepConsume ==
  ASSUME IInv, StepInv, NEW request \in Amounts, Consume(request) PROVE StepInv'
<1>0. TypeOK /\ request \in Nat BY StartNat DEF IInv
<1>1. CASE fatal /\ request > 0
  <2>1. call = Idle /\ call' = Idle BY <1>1 DEF Consume, Return
  <2>2. Underway' = Underway BY <2>1 DEF Underway
  <2> QED BY <1>1, <2>2, StepSame DEF Consume, copyVars, blockVars, streamVars, clientVars
<1>2. CASE ~(fatal /\ request > 0)
  <2>0. call.op # "skip" /\ (call'.op # "skip" \/ call'.got = 0)
    BY <1>2 DEF Consume, Return, Begin, Idle
  <2> DEFINE c == minimum(request, Len(copy))
             b == minimum(request - c, cavail)
  <2>1. /\ copy' = SubSeq(copy, c + 1, Len(copy))
        /\ cnext' = cnext + b /\ cavail' = cavail - b /\ position' = position + c + b
        /\ UNCHANGED <<base, ctotal, fatal, cursor, source, opening, lost>>
    BY <1>2 DEF Consume, clientVars
  <2>2. /\ Len(copy) \in Nat /\ cavail \in Nat /\ copy \in Seq(Nat) /\ position \in Nat
        /\ base \in Nat /\ cnext \in Nat /\ ctotal \in Nat /\ source \in Nat
    BY <1>0 DEF TypeOK
  <2>3. c \in Nat /\ c <= Len(copy) /\ c <= request /\ (c = request \/ c = Len(copy))
    BY <1>0, <2>2, MinimumType
  <2>4. request - c \in Nat BY <1>0, <2>3
  <2>5. b \in Nat /\ b <= cavail /\ b <= request - c BY <2>2, <2>4, MinimumType
  <2> HIDE DEF c, b
  <2>6. /\ copy' \in Seq(Nat) /\ Len(copy') = Len(copy) - c
        /\ \A i \in 1..(Len(copy) - c) : copy'[i] = copy[c + i]
    BY <2>1, <2>2, <2>3, TailProperties
  <2>7. c < Len(copy) => b = 0 BY <1>0, <2>2, <2>3, <2>5
  <2>8. CASE lost \/ fatal BY <1>0, <2>1, <2>8, StepOff DEF TypeOK
  <2>9. CASE ~lost /\ ~fatal
    <3>1. CopyInStep /\ BlockInStep /\ source = position + Len(copy) + cavail
      BY <1>0, <2>0, <2>9, Calm DEF StepInv, InStep
    <3>2. CopyInStep'
      <4>1. SUFFICES ASSUME NEW i \in 1..Len(copy') PROVE copy'[i] = position' + i - 1
        BY DEF CopyInStep
      <4>2. c < Len(copy) /\ c + i \in 1..Len(copy) /\ i \in 1..(Len(copy) - c)
        BY <2>2, <2>3, <2>6
      <4>3. copy'[i] = position + (c + i) - 1 BY <4>2, <3>1, <2>6 DEF CopyInStep
      <4> QED BY <4>2, <4>3, <2>1, <2>2, <2>3, <2>7
    <3>3. BlockInStep'
      <4>1. SUFFICES ASSUME Len(copy') + cavail' > 0, ctotal' > 0
                     PROVE  base' + cnext' = position' + Len(copy')
        BY DEF BlockInStep
      <4>2. Len(copy) + cavail > 0 /\ ctotal > 0 BY <4>1, <2>1, <2>2, <2>3, <2>5, <2>6
      <4>3. base + cnext = position + Len(copy) BY <4>2, <3>1 DEF BlockInStep
      <4>4. base' = base /\ cnext' = cnext + b /\ position' = position + c + b BY <2>1
      <4>5. Len(copy') = Len(copy) - c BY <2>6
      <4>6. c \in Nat /\ b \in Nat BY <2>3, <2>5
      <4> QED BY <4>3, <4>4, <4>5, <4>6, <2>2
    <3>4. source' = position' + Len(copy') + cavail'
      <4>1. source' = source /\ cavail' = cavail - b /\ position' = position + c + b BY <2>1
      <4>2. Len(copy') = Len(copy) - c BY <2>6
      <4>3. c \in Nat /\ b \in Nat BY <2>3, <2>5
      <4>4. source = position + Len(copy) + cavail BY <3>1
      <4> QED BY <4>1, <4>2, <4>3, <4>4, <2>2
    <3>5. InVolume' /\ (opening' => Bidding) BY <2>1 DEF StepInv, InVolume, VolumeEnd
    <3>6. position' \in Nat /\ cavail' \in Nat /\ Len(copy') \in Nat
      BY <2>1, <2>2, <2>3, <2>5, <2>6
    <3>7. SourceInStep' BY <2>0, <3>4, <3>6, CalmNext
    <3> QED BY <3>2, <3>3, <3>5, <3>7 DEF StepInv, InStep
  <2> QED BY <2>8, <2>9
<1> QED BY <1>1, <1>2

(* A skip that ends, or goes on by reading, moves the position by as much  *)
(* as the client has moved since the consume came to it.                   *)
LEMMA StepSkipped ==
  ASSUME IInv, StepInv, call.op = "skip", NEW n \in Nat, Skipped(n),
         ~lost, ~fatal, source' = source + n - call.got, source' <= VolumeEnd,
         UNCHANGED <<copy, base, cnext, cavail, ctotal, cursor, opening>>
  PROVE  StepInv'
<1>1. copy = <<>> /\ cavail = 0 /\ call.got \in Nat BY SkippingCall
<1>2. source = position + Len(copy) + cavail + call.got
  BY DEF StepInv, InStep, SourceInStep, Underway
<1>3. position \in Nat /\ source \in Nat /\ Len(copy) = 0 BY <1>1 DEF IInv, TypeOK
<1>4. copy' = <<>> /\ cavail' = 0 /\ Len(copy') = 0 BY <1>1
<1>5. source = position + call.got BY <1>1, <1>2, <1>3
<1>6. position' = position + n BY DEF Skipped
<1>7. call'.op # "skip" BY DEF Skipped, Return, Idle
<1>8. Underway' = 0 BY <1>7 DEF Underway
<1>9. source' = position' + Len(copy') + cavail' + Underway'
  BY <1>1, <1>3, <1>4, <1>5, <1>6, <1>8
<1>10. CopyInStep' BY <1>4 DEF CopyInStep
<1>11. BlockInStep' BY <1>4 DEF BlockInStep
<1>12. InVolume' BY DEF InVolume, VolumeEnd
<1> QED BY <1>9, <1>10, <1>11, <1>12 DEF StepInv, InStep, SourceInStep

(* Skipping finds nothing again that was lost.                             *)
LEMMA KeepsLost == ASSUME SkipByCallback PROVE lost => lost'
<1>1. CASE SkipServes BY Zenon, <1>1 DEF SkipServes
<1>2. CASE SkipFails BY Zenon, <1>2 DEF SkipFails
<1>3. CASE SkipStops
  <2>1. lost' = lost \/ lost' = (lost \/ call.missed > 0) BY <1>3 DEF SkipStops
  <2> QED BY Zenon, <2>1
<1>4. CASE SkipOverruns BY Zenon, <1>4 DEF SkipOverruns
<1> QED BY <1>1, <1>2, <1>3, <1>4 DEF SkipByCallback

(* The calls of the skip callback keep in step until one that failed is    *)
(* taken for a shorter skip.                                               *)
LEMMA StepCallback == ASSUME IInv, StepInv, SkipByCallback PROVE StepInv'
<1>0. TypeOK /\ call.op = "skip" BY DEF IInv, SkipByCallback, SkipServes, SkipFails, SkipStops, SkipOverruns, Skipping
<1>1. /\ call \in [op : {"skip"}, left : Nat \ {0}, done : Nat, got : Nat, missed : Nat]
      /\ call.left \in Nat \ {0} /\ call.got \in Nat /\ call.missed \in Nat
      /\ copy = <<>> /\ cavail = 0
  BY <1>0, SkippingCall
<1>2. UNCHANGED <<copy, base, cnext, cavail, ctotal, cursor, opening>>
  BY DEF SkipByCallback, SkipServes, SkipFails, SkipStops, SkipOverruns, copyVars, blockVars, clientVars
<1>3. (lost => lost') /\ (fatal => fatal')
  <2>1. fatal' = fatal \/ fatal' = TRUE
    BY DEF SkipByCallback, SkipServes, SkipFails, SkipStops, SkipOverruns, streamVars
  <2>2. lost => lost' BY KeepsLost
  <2>3. fatal \in BOOLEAN BY <1>0 DEF TypeOK
  <2> QED BY <2>1, <2>2, <2>3
<1>4. CASE lost \/ fatal
  <2>1. lost' = TRUE \/ fatal' = TRUE
    BY <1>0, <1>3, <1>4 DEF SkipByCallback, SkipServes, SkipFails, SkipStops, SkipOverruns, TypeOK, streamVars
  <2> QED BY <1>2, <2>1, StepOff
<1>5. CASE ~lost /\ ~fatal
  <2>1. VolumeEnd \in Nat /\ source \in Nat /\ source <= VolumeEnd
    BY <1>0, <1>5, StartNat DEF VolumeEnd, TypeOK, StepInv, InVolume
  <2>2. Remaining = VolumeEnd - source /\ Remaining \in Nat BY <2>1 DEF Remaining, maximum
  <2>3. CASE SkipServes
    <3>1. Skipping BY <2>3 DEF SkipServes
    <3>2. PICK get \in 1..minimum(Asked, Within) :
            /\ source' = source + get
            /\ IF get = Asked THEN Skipped(call.left)
               ELSE call' = [call EXCEPT !.got = call.got + get] /\ UNCHANGED <<position, reply>>
      BY <2>3 DEF SkipServes
    <3>3. get \in Nat /\ get <= Remaining /\ Asked = call.left + call.missed - call.got
          /\ Within \in Nat /\ get <= Within /\ Within <= Remaining
      <4>1. get \in Nat /\ get <= Within /\ Within <= Remaining /\ Within \in Nat
            /\ Asked = call.left + call.missed - call.got
        BY <3>1, <3>2, AnswerType
      <4> QED BY <2>2, <4>1
    <3>4. source' <= VolumeEnd BY <2>1, <2>2, <3>2, <3>3
    <3>5. CASE get = Asked
      <4>1. Skipped(call.left) BY <3>2, <3>5
      <4>2. call'.op # "skip" BY <4>1 DEF Skipped, Return, Idle
      <4>3. CASE call.missed > 0
        <5>1. lost' = TRUE BY <1>0, <2>3, <4>2, <4>3 DEF SkipServes
        <5> QED BY <1>2, <5>1, StepOff
      <4>4. CASE ~(call.missed > 0)
        <5>1. call.missed = 0 BY <1>1, <4>4
        <5>2. source' = source + call.left - call.got BY <1>1, <2>1, <3>2, <3>3, <3>5, <5>1
        <5>3. call.left \in Nat BY <1>1
        <5> QED BY <1>0, <1>2, <1>5, <3>4, <4>1, <5>2, <5>3, StepSkipped
      <4> QED BY <4>3, <4>4
    <3>6. CASE get # Asked
      <4>1. /\ call' = [call EXCEPT !.got = call.got + get] /\ position' = position
        BY <3>2, <3>6
      <4>2. call'.op = "skip" /\ call'.got = call.got + get BY <1>0, <1>1, <4>1
      <4>3. source = position + Len(copy) + cavail + call.got
        BY <1>0, <1>5 DEF StepInv, InStep, SourceInStep, Underway
      <4>4. position \in Nat /\ Len(copy) = 0 BY <1>0, <1>1 DEF TypeOK
      <4>5. copy' = copy /\ cavail' = cavail BY <1>2
      <4>6. source' = position' + Len(copy') + cavail' + (call.got + get)
        BY <1>1, <2>1, <3>2, <3>3, <4>1, <4>3, <4>4, <4>5
      <4>7. SourceInStep' BY <4>2, <4>6 DEF SourceInStep, Underway
      <4>8. CopyInStep' /\ BlockInStep' BY <1>1, <1>2 DEF CopyInStep, BlockInStep
      <4>9. InVolume' BY <1>2, <3>4 DEF InVolume, VolumeEnd
      <4> QED BY <1>2, <4>7, <4>8, <4>9 DEF StepInv, InStep
    <3> QED BY <3>5, <3>6
  <2>4. CASE SkipFails
    <3>1. PICK by \in 1..(SkipErrorMax - call.missed) : call' = [call EXCEPT !.missed = call.missed + by]
      BY <2>4 DEF SkipFails
    <3>2. Underway' = Underway BY <1>0, <1>1, <3>1 DEF Underway
    <3>3. UNCHANGED <<copy, base, cnext, cavail, ctotal, position, source, cursor, fatal, lost, opening>>
      BY <2>4 DEF SkipFails, copyVars, blockVars, streamVars, clientVars
    <3> QED BY <3>2, <3>3, StepSame
  <2>5. CASE SkipStops
    <3>1. CASE fatal' = TRUE BY <1>2, <3>1, StepOff
    <3>2. CASE fatal' # TRUE
      <4>1. /\ ~(call.got < call.missed) /\ Skipped(call.got - call.missed)
            /\ lost' = (lost \/ call.missed > 0) /\ source' = source
        BY <2>5, <3>2 DEF SkipStops, clientVars
      <4>2. CASE call.missed > 0
        <5>1. lost' = TRUE BY <1>0, <4>1, <4>2
        <5> QED BY <1>2, <5>1, StepOff
      <4>3. CASE ~(call.missed > 0)
        <5>1. call.missed = 0 BY <1>1, <4>3
        <5>2. call.got - call.missed = call.got /\ call.got \in Nat BY <1>1, <5>1
        <5>3. Skipped(call.got) BY <4>1, <5>2
        <5>4. source' = source + call.got - call.got /\ source' <= VolumeEnd BY <1>1, <2>1, <4>1
        <5> QED BY <1>0, <1>2, <1>5, <5>2, <5>3, <5>4, StepSkipped
      <4> QED BY <4>2, <4>3
    <3> QED BY <3>1, <3>2
  <2>6. CASE SkipOverruns BY <1>2, <2>6, StepOff DEF SkipOverruns
  <2> QED BY <2>3, <2>4, <2>5, <2>6 DEF SkipByCallback
<1> QED BY <1>4, <1>5

(* Under Orderly every skip by the client keeps the stream in step.        *)
LEMMA StepSkip ==
  ASSUME IInv, StepInv, Orderly, SkipByCallback \/ SeekerFails \/ SkipBySeeker \/ NoSkipper
  PROVE  StepInv'
<1>0. TypeOK BY DEF IInv
<1>1. CASE SkipByCallback BY <1>1, StepCallback
<1>2. CASE SeekerFails BY <1>2, StepOff DEF SeekerFails
<1>3. CASE SkipBySeeker
  <2>1. /\ call.op = "skip"
        /\ UNCHANGED <<copy, base, cnext, cavail, ctotal, cursor, opening, lost>>
    BY <1>3 DEF SkipBySeeker, copyVars, blockVars
  <2>2. ~SeeksPastEnd /\ call.got = 0 /\ call.left \in Nat
    <3>1. has \in Clients BY <1>0 DEF TypeOK
    <3>2. "skip" \notin has /\ "seek" \in has BY <1>3 DEF SkipBySeeker
    <3>3. ~SeeksPastEnd BY <3>1, <3>2 DEF Orderly
    <3>4. call.got = 0 BY <2>1, <3>2, SkippingCall
    <3> QED BY <2>1, <3>3, <3>4, SkippingCall
  <2>3. CASE fatal' = TRUE BY <2>1, <2>3, StepOff
  <2>4. CASE fatal' # TRUE
    <3>1. /\ source' = source + call.left /\ ~(source + call.left > VolumeEnd)
          /\ Skipped(call.left) /\ UNCHANGED fatal
      BY <1>3, <2>2, <2>4 DEF SkipBySeeker
    <3>2. CASE lost BY <1>0, <2>1, <3>2, StepOff DEF TypeOK
    <3>3. CASE ~lost
      <4>1. VolumeEnd \in Nat /\ source \in Nat BY <1>0, StartNat DEF VolumeEnd, TypeOK
      <4>2. source' <= VolumeEnd /\ source' = source + call.left - call.got BY <2>2, <3>1, <4>1
      <4>3. ~fatal BY <1>0, <2>4, <3>1 DEF TypeOK
      <4> QED BY <2>1, <2>2, <3>1, <3>3, <4>2, <4>3, StepSkipped
    <3> QED BY <3>2, <3>3
  <2> QED BY <2>3, <2>4
<1>4. CASE NoSkipper
  <2>1. /\ call.op = "skip" /\ Skipped(0) /\ "skip" \notin has
        /\ UNCHANGED <<copy, base, cnext, cavail, ctotal, source, cursor, opening, lost, fatal>>
    BY <1>4 DEF NoSkipper, copyVars, blockVars, clientVars
  <2>2. CASE lost \/ fatal BY <1>0, <2>1, <2>2, StepOff DEF TypeOK
  <2>3. CASE ~lost /\ ~fatal
    <3>1. VolumeEnd \in Nat /\ source \in Nat /\ source <= VolumeEnd
      BY <1>0, <2>3, StartNat DEF VolumeEnd, TypeOK, StepInv, InVolume
    <3>2. call.got = 0 BY <2>1, SkippingCall
    <3>3. source' <= VolumeEnd /\ source' = source + 0 - call.got BY <3>1, <3>2, <2>1
    <3> QED BY <2>1, <2>3, <3>3, StepSkipped
  <2> QED BY <2>2, <2>3
<1> QED BY <1>1, <1>2, <1>3, <1>4

(* A discard keeps in step: the rest of the last block is kept.            *)
LEMMA StepDiscard ==
  ASSUME IInv, StepInv, Discard \/ DiscardError \/ DiscardNext \/ DiscardEnd
  PROVE  StepInv'
<1>0. TypeOK BY DEF IInv
<1>1. CASE Discard
  <2>1. PICK n \in Delivered :
          /\ base' = source /\ source' = source + n
          /\ position' = position + minimum(n, call.left)
          /\ IF n >= call.left
             THEN cnext' = minimum(n, call.left) /\ cavail' = n - minimum(n, call.left)
             ELSE UNCHANGED <<cnext, cavail, ctotal>>
          /\ call.op # "skip" /\ call'.op # "skip"
    BY <1>1 DEF Discard, Return, Idle
  <2> DEFINE used == minimum(n, call.left)
  <2>2. copy = <<>> /\ cavail = 0 /\ call.left \in Nat BY <1>1, SkippingCall DEF Discard
  <2>3. n \in Nat /\ n <= VolumeEnd - source BY <1>0, <2>1, DeliveredType
  <2>4. copy' = <<>> /\ UNCHANGED <<fatal, cursor, opening, lost>>
    BY <1>1, <2>2 DEF Discard, copyVars
  <2>5. used \in Nat /\ used <= n /\ (used = n \/ used = call.left) /\ used <= call.left
    BY <2>2, <2>3, MinimumType
  <2> HIDE DEF used
  <2>6. CASE lost \/ fatal BY <1>0, <2>4, <2>6, StepOff DEF TypeOK
  <2>7. CASE ~lost /\ ~fatal
    <3>1. source = position + Len(copy) + cavail /\ position \in Nat /\ source \in Nat
      BY <1>0, <2>1, <2>7, Calm DEF StepInv, InStep, TypeOK
    <3>2. source = position /\ Len(copy') = 0 BY <3>1, <2>2, <2>4
    <3>3. position' = position + used BY <2>1 DEF used
    <3>4. cavail' = n - used /\ (cavail' > 0 => base' + cnext' = position')
      <4>1. CASE n >= call.left
        <5>1. cnext' = used /\ cavail' = n - used /\ base' = source BY <4>1, <2>1 DEF used
        <5> QED BY <5>1, <3>1, <3>2, <3>3, <2>3, <2>5
      <4>2. CASE ~(n >= call.left)
        <5>1. cavail' = 0 BY <4>2, <2>1, <2>2
        <5>2. used = n BY <4>2, <2>2, <2>3, <2>5
        <5> QED BY <5>1, <5>2, <2>3
      <4> QED BY <4>1, <4>2
    <3>5. SourceInStep'
      <4>1. source' = source + n BY <2>1
      <4>2. cavail' = n - used BY <3>4
      <4>3. source' = position' + Len(copy') + cavail'
        BY <4>1, <4>2, <3>1, <3>2, <3>3, <2>3, <2>5
      <4>4. position' \in Nat /\ cavail' \in Nat /\ Len(copy') \in Nat
        BY <4>2, <3>1, <3>2, <3>3, <2>3, <2>5
      <4> QED BY <2>1, <4>3, <4>4, CalmNext
    <3>6. BlockInStep'
      <4>1. SUFFICES ASSUME Len(copy') + cavail' > 0 PROVE base' + cnext' = position' + Len(copy')
        BY DEF BlockInStep
      <4>2. cavail' = n - used BY <3>4
      <4>3. cavail' > 0 BY <4>1, <4>2, <3>2, <2>3, <2>5
      <4>4. base' + cnext' = position' BY <4>3, <3>4
      <4>5. position' \in Nat BY <3>1, <3>3, <2>5
      <4> QED BY <4>4, <4>5, <3>2
    <3>7. CopyInStep' BY <2>4 DEF CopyInStep
    <3>8. InVolume'
      <4>1. VolumeEnd \in Nat /\ VolumeEnd' = VolumeEnd BY <1>0, <2>4, StartNat DEF VolumeEnd, TypeOK
      <4>2. source' <= VolumeEnd' BY <4>1, <2>1, <2>3, <3>1
      <4> QED BY <4>2 DEF InVolume
    <3> QED BY <2>4, <3>5, <3>6, <3>7, <3>8 DEF StepInv, InStep
  <2> QED BY <2>6, <2>7
<1>2. CASE DiscardError BY <1>2, StepOff DEF DiscardError
<1>3. CASE DiscardNext \/ DiscardEnd
  <2>1. UNCHANGED <<copy, base, cnext, cavail, ctotal, position, fatal, opening, lost>>
    BY <1>3 DEF DiscardNext, DiscardEnd, copyVars, blockVars, streamVars
  <2>0. Underway = 0 /\ Underway' = 0
    BY <1>3 DEF DiscardNext, DiscardEnd, Return, Idle, Underway
  <2>2. CASE lost \/ fatal BY <1>0, <2>1, <2>2, StepOff DEF TypeOK
  <2>3. CASE ~lost /\ ~fatal
    <3>1. source' = source /\ source' <= VolumeEnd'
      BY <1>3, <2>3, StepEnd DEF DiscardNext, DiscardEnd
    <3> QED BY <2>0, <2>1, <3>1 DEF StepInv, InStep, InVolume, CopyInStep, BlockInStep, SourceInStep
  <2> QED BY <2>2, <2>3
<1> QED BY <1>1, <1>2, <1>3

(* A seek that succeeds puts position and client at the same byte.         *)
LEMMA StepSeekDone ==
  ASSUME StepInv, NEW v \in Nodes, NEW to \in Nat, NEW known \in 0..Volumes,
         to <= Start[v + 1], SeekDone(v, to, known)
  PROVE  StepInv'
<1>1. /\ copy' = <<>> /\ cavail' = 0 /\ position' = to /\ source' = to /\ cursor' = v
      /\ opening' = opening /\ call' = Idle
  BY DEF SeekDone, Return
<1>2. Len(copy') = 0 BY <1>1
<1>3. source' = position' + Len(copy') + cavail' BY <1>1, <1>2
<1>7. SourceInStep' BY <1>1, <1>2, <1>3, CalmNext DEF Idle
<1>4. CopyInStep' BY <1>1 DEF CopyInStep
<1>5. BlockInStep' BY <1>1, <1>2 DEF BlockInStep
<1>6. InVolume' BY <1>1 DEF InVolume, VolumeEnd
<1> QED BY <1>1, <1>4, <1>5, <1>6, <1>7 DEF StepInv, InStep

(* A seek from the end lands inside the volume the way back has stopped at. *)
LEMMA FromEndInVolume ==
  ASSUME NEW v \in Nodes, NEW offset \in Int, offset <= 0,
         HoldsFromEnd(v, offset), FromEnd(offset) >= 0
  PROVE  FromEnd(offset) \in Nat /\ FromEnd(offset) <= Start[v + 1]
<1>1. /\ Size \in Nat /\ Start[v] \in Nat /\ Start[v + 1] \in Nat /\ Start[1] \in Nat
      /\ v \in Nat /\ Last = Volumes - 1 /\ Volumes \in Nat \ {0} /\ v <= Last
  BY StartNat, HoldsType, StreamAssumption DEF Nodes, Last
<1>2. CASE Size + offset < 0
  <2>1. v = 0 BY <1>1, <1>2 DEF HoldsFromEnd
  <2>2. FromEnd(offset) = Size + offset + Start[1] BY <1>1, <1>2 DEF FromEnd
  <2>3. Start[v + 1] = Start[1] BY <2>1
  <2> QED BY <1>1, <1>2, <2>2, <2>3
<1>3. CASE Size + offset >= 0
  <2>1. FromEnd(offset) = Size + offset BY <1>1, <1>3 DEF FromEnd
  <2>2. CASE v = Last
    <3>1. v + 1 = Volumes BY <1>1, <2>2
    <3>2. Start[v + 1] = Size BY <3>1 DEF Size
    <3> QED BY <1>1, <1>3, <2>1, <3>2
  <2>3. CASE v # Last
    <3>1. v + 1 \in (v + 1)..Last BY <1>1, <2>3
    <3>2. Size + offset < Start[v + 1] BY <3>1 DEF HoldsFromEnd
    <3> QED BY <1>1, <1>3, <2>1, <3>2
  <2> QED BY <2>2, <2>3
<1> QED BY <1>1, <1>2, <1>3

(* Every seek keeps the stream in step or loses it.                        *)
LEMMA StepSeek == ASSUME IInv, StepInv, Seek PROVE StepInv'
<1>0. TypeOK BY DEF IInv
<1>1. CASE SeekRefused
  <2>1. Underway' = Underway BY <1>1 DEF SeekRefused, Return, Underway
  <2> QED BY <1>1, <2>1, StepSame DEF SeekRefused, copyVars, blockVars, streamVars, clientVars
<1>2. CASE SeekUnsupported
  <2>1. UNCHANGED <<copy, base, cnext, cavail, ctotal, position, fatal, opening>>
        /\ Underway' = Underway
    BY <1>2 DEF SeekUnsupported, Return, Underway, copyVars, blockVars, streamVars
  <2>2. CASE cursor = 0
    <3>1. lost' = lost /\ UNCHANGED <<cursor, source>>
      BY <1>0, <1>2, <2>2 DEF SeekUnsupported, SwitchTo, SwitchFails, TypeOK
    <3> QED BY <1>0, <2>1, <3>1, StepSame DEF TypeOK
  <2>3. CASE cursor # 0
    <3>1. lost' = (lost \/ cursor # 0) BY <1>2 DEF SeekUnsupported
    <3>2. lost' = TRUE BY <3>1, <2>3
    <3> QED BY <3>2, <2>1, StepOff
  <2> QED BY <2>2, <2>3
<1>3. ASSUME NEW first \in Nat, NEW stop \in Nodes, SeekBreaks(first, stop) PROVE StepInv'
  <2>1. \E v, at, open, known : SeekStops(v, at, open, known) BY <1>3 DEF SeekBreaks
  <2>2. lost' = TRUE /\ opening' = opening BY <2>1 DEF SeekStops
  <2> QED BY <2>2, StepOff
<1>4. ASSUME NEW v \in Nodes, NEW at \in Nat, NEW open \in BOOLEAN, NEW known \in 0..Volumes,
             SeekStops(v, at, open, known) PROVE StepInv'
  BY <1>4, StepOff DEF SeekStops
<1>5. ASSUME NEW offset \in Int, SeekSet(offset) PROVE StepInv'
  <2>1. PICK v \in Nodes :
          \/ SeekBreaks(minimum(sized, v), v)
          \/ offset \in Start[v]..Start[v + 1] /\ SeekDone(v, offset, v + 1)
          \/ SeekStops(v, Start[v + 1], TRUE, v + 1)
    BY <1>5 DEF SeekSet
  <2>2. Start[v] \in Nat /\ Start[v + 1] \in Nat /\ v + 1 \in 0..Volumes BY HoldsType
  <2>3. CASE SeekBreaks(minimum(sized, v), v) BY <1>0, <1>3, <2>3, FirstType
  <2>4. CASE offset \in Start[v]..Start[v + 1] /\ SeekDone(v, offset, v + 1)
    <3>1. offset \in Nat /\ offset <= Start[v + 1] BY <2>2, <2>4
    <3> QED BY <3>1, <2>2, <2>4, StepSeekDone
  <2>5. CASE SeekStops(v, Start[v + 1], TRUE, v + 1) BY <1>4, <2>2, <2>5
  <2> QED BY <2>1, <2>3, <2>4, <2>5
<1>6. ASSUME NEW offset \in Int, SeekEnd(offset) PROVE StepInv'
  <2>1. PICK v \in Nodes :
          /\ HoldsFromEnd(v, offset)
          /\ \/ SeekBreaks(minimum(sized, Last), Last)
             \/ FromEnd(offset) >= 0 /\ SeekDone(v, FromEnd(offset), Volumes)
             \/ \E at \in {Start[v], Start[v + 1]} : SeekStops(v, at, TRUE, Volumes)
             \/ \E open \in BOOLEAN : SeekStops(v, Start[v], open, Volumes)
    BY <1>6 DEF SeekEnd
  <2>2. /\ Start[v] \in Nat /\ Start[v + 1] \in Nat /\ Volumes \in 0..Volumes /\ offset <= 0
    BY <1>6, HoldsType DEF SeekEnd
  <2>3. CASE SeekBreaks(minimum(sized, Last), Last) BY <1>0, <1>3, <2>3, StartNat, FirstType
  <2>4. CASE FromEnd(offset) >= 0 /\ SeekDone(v, FromEnd(offset), Volumes)
    <3>1. FromEnd(offset) \in Nat /\ FromEnd(offset) <= Start[v + 1]
      BY <2>1, <2>2, <2>4, FromEndInVolume
    <3> QED BY <3>1, <2>2, <2>4, StepSeekDone
  <2>5. CASE \E at \in {Start[v], Start[v + 1]} : SeekStops(v, at, TRUE, Volumes)
    BY <1>4, <2>2, <2>5
  <2>6. CASE \E open \in BOOLEAN : SeekStops(v, Start[v], open, Volumes) BY <1>4, <2>2, <2>6
  <2> QED BY <2>1, <2>3, <2>4, <2>5, <2>6
<1>7. \A offset \in Offsets : offset \in Int /\ position + offset \in Int
  BY <1>0, StartNat DEF TypeOK
<1> QED BY <1>1, <1>2, <1>5, <1>6, <1>7 DEF Seek

(* Under Orderly the switch at the end of archive_read_open1 moves         *)
(* nothing.                                                                *)
LEMMA StepOpenDone == ASSUME IInv, StepInv, Orderly, OpenDone PROVE StepInv'
<1>1. Volumes = 1 BY DEF Orderly, StepInv, OpenDone
<1>2. cursor = 0 BY <1>1 DEF IInv, TypeOK, Nodes
<1>3. UNCHANGED <<cursor, source>> BY <1>2 DEF OpenDone, SwitchTo, SwitchFails
<1>4. Underway' = Underway BY DEF OpenDone, Underway
<1> QED BY <1>3, <1>4, StepSame DEF OpenDone, copyVars, blockVars, streamVars, IInv, TypeOK

(* The strengthened agreement is inductive relative to IInv.               *)
LEMMA StepInvNext == ASSUME IInv, StepInv, Orderly, [Next]_vars PROVE StepInv'
<1>1. CASE UNCHANGED vars
  <2>1. Underway' = Underway BY <1>1 DEF Underway, vars
  <2> QED BY <1>1, <2>1, StepSame DEF vars, copyVars, blockVars, streamVars, clientVars
<1>2. ASSUME NEW min \in Mins, Ahead(min) PROVE StepInv'
  <2>1. call = Idle /\ call'.op # "skip" BY <1>2 DEF Ahead, Return, Begin, Idle
  <2>2. Underway' = Underway BY <2>1 DEF Underway, Idle
  <2> QED BY <1>2, <2>2, StepSame DEF Ahead, copyVars, blockVars, streamVars, clientVars
<1>3. CASE Calls BY <1>2, <1>3, StepConsume, StepSeek, StepOpenDone DEF Calls
<1>4. CASE Pull BY <1>4, StepPull, StepFill, StepPeekClient, StepGather DEF Pull
<1>5. CASE Skip BY <1>5, StepSkip, StepDiscard DEF Skip
<1> QED BY <1>1, <1>3, <1>4, <1>5 DEF Next

(* For an orderly client the position, the copy buffer, the client block   *)
(* and the client itself always agree, unless a seek has failed, a failed  *)
(* skip has gone unnoticed or the filter is fatal: no byte is lost,        *)
(* delivered twice or out of order, however often the skip callback skips  *)
(* less than asked, or fails and is asked again.                           *)
THEOREM StreamInStep == ASSUME Orderly PROVE Spec => []InStep
<1>1. Init => IInv /\ StepInv BY IInvInit, StepInvInit
<1>2. IInv /\ StepInv /\ [Next]_vars => (IInv /\ StepInv)' BY IInvNext, StepInvNext
<1>3. IInv /\ StepInv => InStep BY DEF StepInv
<1> QED BY <1>1, <1>2, <1>3, PTL DEF Spec
=============================================================================
