------------------------------ MODULE ReadAhead ------------------------------
(***************************************************************************)
(* The bottom filter ("none") of a reader: __archive_read_filter_ahead,    *)
(* __archive_read_filter_consume and __archive_read_filter_seek with the   *)
(* client callbacks under them, over one stream kept in several volumes.   *)
(*                                                                         *)
(* Bytes are numbered over the whole stream: volume v holds the bytes      *)
(* Start[v] .. Start[v+1]-1.  A buffer is the numbers of the bytes it      *)
(* holds, so that data delivered twice, lost or torn can be told.          *)
(* One pass of each loop of the code is one step; `call` is the call in    *)
(* progress and `reply` the answer of the last one.                        *)
(***************************************************************************)
EXTENDS Integers, Sequences

CONSTANTS
  Volumes,      \* client.nodes
  Start,        \* Start[v]: first byte of volume v; Start[Volumes]: the size
  BlockMax,     \* the most a read callback delivers at once
  Mins,         \* amounts the code above looks ahead by
  Amounts,      \* amounts it consumes
  Offsets,      \* offsets it seeks to
  Clients,      \* sets of optional callbacks a client may have: "skip", "seek"
  SeekSkipMin,  \* a longer skip may use the seeker (64 KiB in the code)
  SeeksPastEnd, \* the seeker accepts offsets past its volume, as lseek does
  Bidding,      \* FALSE: filters and format were set by the client
  SkipErrorMax, \* bound: what the negative skip answers of one consume add up to
  Faults        \* what may fail: "read", "skip", "seek", "switch", "alloc"

Nodes == 0..(Volumes - 1)
Last  == Volumes - 1
Size  == Start[Volumes]

ASSUME StreamAssumption ==
  /\ Volumes \in Nat \ {0}
  /\ Start \in [0..Volumes -> Nat]
  /\ Start[0] = 0
  /\ \A v, w \in 0..Volumes : v <= w => Start[v] <= Start[w]
  /\ BlockMax \in Nat \ {0}
  /\ Mins \subseteq Nat /\ Amounts \subseteq Nat /\ Offsets \subseteq Int
  /\ SeekSkipMin \in Nat /\ SkipErrorMax \in Nat /\ Bidding \in BOOLEAN

VARIABLES
  copy,         \* bytes at f->next: f->avail of them
  gap,          \* f->next - f->buffer
  bufsize,      \* f->buffer_size
  base,         \* number of the byte at f->client_buff
  cnext,        \* f->client_next - f->client_buff
  cavail,       \* f->client_avail
  ctotal,       \* f->client_total
  position,     \* f->position
  fatal,        \* f->fatal
  eof,          \* f->end_of_file
  cursor,       \* client.cursor
  source,       \* the byte the client's current volume delivers next
  usable,       \* the client's current volume is open
  sized,        \* the volumes below it have a known total_size
  has,          \* the optional callbacks of this client
  cut,          \* history: a volume that did not open was taken for the end
  opening,      \* archive_read_open1 has not returned
  call, reply,
  lost          \* history: a failed seek has moved the client, or a failed
                \* skip has been taken for a shorter one

copyVars   == <<copy, gap, bufsize>>
blockVars  == <<base, cnext, cavail, ctotal>>
clientVars == <<cursor, source, usable, sized, has, cut>>
streamVars == <<position, fatal, eof>>
vars == <<copyVars, blockVars, streamVars, clientVars, opening, call, reply, lost>>

BS == INSTANCE ByteStream WITH
        pos  <- IF call.op \in {"skip", "discard"} THEN position - call.done
                ELSE position,
        dead <- fatal,
        lost <- lost \/ cut

Idle == [op |-> "idle"]

(* Variants named ...Faulty are the code with one plausible slip; they are *)
(* what the properties are tried against.                                  *)

(* Clamping is forgotten. *)
minimumFaulty(a, b) == a

minimum(a, b) == IF a < b THEN a ELSE b
maximum(a, b) == IF a < b THEN b ELSE a

VolumeEnd == Start[cursor + 1]
Remaining == maximum(VolumeEnd - source, 0)

Init ==
  /\ copy = <<>> /\ gap = 0 /\ bufsize = 0
  /\ base = 0 /\ cnext = 0 /\ cavail = 0 /\ ctotal = 0
  /\ position = 0 /\ fatal = FALSE /\ eof = FALSE
  /\ cursor = 0 /\ source = 0 /\ usable = TRUE /\ sized = 0
  /\ has \in Clients /\ cut = FALSE /\ opening = Bidding
  /\ call = Idle /\ reply = BS!NoReply /\ lost = FALSE

Return(r) == call' = Idle /\ reply' = r
Begin(c)  == call = Idle /\ call' = c /\ reply' = BS!NoReply

-----------------------------------------------------------------------------
(* Client callbacks.                                                       *)

(* The read callback delivers 1..BlockMax of the bytes left in the volume. *)
Delivered == IF usable THEN 1..minimum(BlockMax, Remaining) ELSE {}

(* client_switch_proxy: nothing when already there, else the switcher, or  *)
(* the closer and the opener: the new volume is read from its start.  An   *)
(* error may be that of the closer, with the new volume open.              *)
SwitchTo(v) ==
  /\ cursor' = v
  /\ IF v = cursor THEN UNCHANGED <<source, usable>>
     ELSE source' = Start[v] /\ usable' = TRUE

SwitchFails(v) ==
  /\ "switch" \in Faults /\ v # cursor
  /\ cursor' = v /\ source' = Start[v] /\ usable' \in BOOLEAN

(* A read that delivers nothing: the next volume, if there is one and it   *)
(* opens.                                                                  *)
VolumeDone == usable /\ Remaining = 0
ReadFails  == "read" \in Faults \/ ~usable
OnToNext   == VolumeDone /\ cursor # Last /\ SwitchTo(cursor + 1) /\ UNCHANGED <<sized, has, cut>>
(* The volumes that follow are forgotten. *)
NoMoreFaulty == VolumeDone /\ UNCHANGED clientVars

(* A volume that does not open is taken for the end of the stream.         *)
NoMore ==
  /\ VolumeDone /\ UNCHANGED <<sized, has>>
  /\ \/ cursor = Last /\ UNCHANGED <<cursor, source, usable, cut>>
     \/ cursor # Last /\ SwitchFails(cursor + 1) /\ cut' = TRUE

-----------------------------------------------------------------------------
(* __archive_read_filter_ahead(f, min, &avail)                             *)

Ahead(min) ==
  /\ IF fatal THEN call = Idle /\ Return(BS!IOError)
     ELSE Begin([op |-> "ahead", min |-> min])
  /\ UNCHANGED <<copyVars, blockVars, streamVars, clientVars, opening, lost>>

Looking      == call.op = "ahead"
CopyServes   == Len(copy) >= call.min /\ Len(copy) > 0
(* The copied data may be from earlier blocks than the client's last one.  *)
ClientServesFaulty == cavail + Len(copy) >= call.min

ClientServes == ctotal >= cavail + Len(copy) /\ cavail + Len(copy) >= call.min
MustPull     == Looking /\ ~CopyServes /\ ~ClientServes

PeekCopy ==
  /\ Looking /\ CopyServes
  /\ Return(BS!Window(call.min, copy))
  /\ UNCHANGED <<copyVars, blockVars, streamVars, clientVars, opening, lost>>

(* What the copy buffer holds is still in the client block: roll back.     *)
PeekClient ==
  /\ Looking /\ ~CopyServes /\ ClientServes
  /\ cavail' = cavail + Len(copy)
  /\ cnext' = cnext - Len(copy)
  /\ copy' = <<>> /\ gap' = 0
  /\ Return(BS!Window(call.min, BS!Bytes(base + cnext', cavail')))
  /\ UNCHANGED <<bufsize, base, ctotal, streamVars, clientVars, opening, lost>>

(* The room in front of f->next is never recovered. *)
SlidFaulty == gap

(* memmove to the front of the copy buffer when min would not fit.         *)
Slid == IF gap > 0 /\ call.min > bufsize - gap THEN 0 ELSE gap

PeekAtEnd ==
  /\ MustPull /\ cavail = 0 /\ eof
  /\ gap' = Slid
  /\ Return(BS!Short(call.min, Len(copy)))
  /\ UNCHANGED <<copy, bufsize, blockVars, streamVars, clientVars, opening, lost>>

Fill ==
  /\ MustPull /\ cavail = 0 /\ ~eof
  /\ gap' = Slid
  /\ \E n \in Delivered :
        /\ base' = source /\ cnext' = 0 /\ cavail' = n /\ ctotal' = n
        /\ source' = source + n
  /\ UNCHANGED <<copy, bufsize, streamVars, cursor, usable, sized, has, cut, opening, call, reply, lost>>

FillError ==
  /\ MustPull /\ cavail = 0 /\ ~eof /\ ReadFails
  /\ gap' = Slid
  /\ cnext' = 0 /\ cavail' = 0 /\ ctotal' = 0
  /\ fatal' = TRUE
  /\ Return(BS!IOError)
  /\ UNCHANGED <<copy, bufsize, base, position, eof, clientVars, opening, lost>>

NextVolume ==
  /\ MustPull /\ cavail = 0 /\ ~eof
  /\ gap' = Slid
  /\ OnToNext
  /\ UNCHANGED <<copy, bufsize, blockVars, streamVars, opening, call, reply, lost>>

StreamEnd ==
  /\ MustPull /\ cavail = 0 /\ ~eof
  /\ gap' = Slid
  /\ NoMore
  /\ cnext' = 0 /\ cavail' = 0 /\ ctotal' = 0
  /\ eof' = TRUE
  /\ Return(BS!Short(call.min, Len(copy)))
  /\ UNCHANGED <<copy, bufsize, base, position, fatal, opening, lost>>

(* One doubling too many. *)
GrownFaulty(min) ==
  IF min <= bufsize THEN {bufsize}
  ELSE IF bufsize = 0 THEN {2 * min}
  ELSE {s \in (2 * min)..(4 * min - 1) : \E k \in 1..(2 * min) : s = bufsize * 2^k}

(* The sizes the doubling can end at; min itself for a first buffer.       *)
Grown(min) ==
  IF min <= bufsize THEN {bufsize}
  ELSE IF bufsize = 0 THEN {min}
  ELSE {s \in min..(2 * min - 1) : \E k \in 1..min : s = bufsize * 2^k}

(* Copy client data behind what the copy buffer already holds.             *)
Gather ==
  /\ MustPull /\ cavail > 0
  /\ \E s \in Grown(call.min) :
       LET at   == IF s # bufsize THEN 0 ELSE Slid
           room == s - (at + Len(copy))
           want == IF room + Len(copy) > call.min THEN call.min - Len(copy) ELSE room
           n    == minimum(want, cavail)
       IN  /\ bufsize' = s /\ gap' = at
           /\ copy' = copy \o BS!Bytes(base + cnext, n)
           /\ cnext' = cnext + n /\ cavail' = cavail - n
  /\ UNCHANGED <<base, ctotal, streamVars, clientVars, opening, call, reply, lost>>

GrowFails ==
  /\ MustPull /\ cavail > 0 /\ call.min > bufsize /\ "alloc" \in Faults
  /\ gap' = Slid /\ fatal' = TRUE
  /\ Return(BS!IOError)
  /\ UNCHANGED <<copy, bufsize, blockVars, position, eof, clientVars, opening, lost>>

-----------------------------------------------------------------------------
(* __archive_read_filter_consume(f, request): what the buffers hold first, *)
(* then the client's skip, then read and discard.                          *)

Consume(request) ==
  IF fatal /\ request > 0
  THEN /\ call = Idle /\ Return(BS!IOError)
       /\ UNCHANGED <<copyVars, blockVars, streamVars, clientVars, opening, lost>>
  ELSE LET c    == minimum(request, Len(copy))
           b    == minimum(request - c, cavail)
           left == request - c - b
       IN  /\ call = Idle
           /\ copy' = SubSeq(copy, c + 1, Len(copy)) /\ gap' = gap + c
           /\ cnext' = cnext + b /\ cavail' = cavail - b
           /\ position' = position + c + b
           /\ IF left = 0 THEN Return(BS!Moved(request))
              ELSE Begin([op |-> "skip", left |-> left, done |-> c + b, got |-> 0, missed |-> 0])
           /\ UNCHANGED <<bufsize, base, ctotal, fatal, eof, clientVars, opening, lost>>

(* advance_file_pointer goes on from client_skip_proxy's result.           *)
Skipped(n) ==
  /\ position' = position + n
  /\ IF n = call.left
     THEN Return(BS!Moved(call.done + n))
     ELSE call' = [op |-> "discard", left |-> call.left - n, done |-> call.done + n]
          /\ UNCHANGED reply

(* client_skip_proxy asks the skip callback for what its answers so far    *)
(* have left, and adds up the answers, the negative ones too: `got` is the *)
(* sum of the positive ones and `missed` what the negative ones took away, *)
(* each making the next request larger.                                    *)
Skipping == call.op = "skip" /\ "skip" \in has
Asked    == call.left + call.missed - call.got
Within   == IF usable THEN Remaining ELSE 0

(* What was skipped before the last answer is forgotten. *)
SkipServesFaulty ==
  /\ Skipping
  /\ \E get \in 1..minimum(Asked, Within) :
        /\ source' = source + get
        /\ IF get = Asked THEN Skipped(get)
           ELSE call' = [call EXCEPT !.got = call.got + get] /\ UNCHANGED <<position, reply>>
  /\ lost' = (lost \/ (call'.op # "skip" /\ call.missed > 0))
  /\ UNCHANGED <<copyVars, blockVars, fatal, eof, cursor, usable, sized, has, cut, opening>>

(* It may skip less than asked, and is asked again.                        *)
SkipServes ==
  /\ Skipping
  /\ \E get \in 1..minimum(Asked, Within) :
        /\ source' = source + get
        /\ IF get = Asked THEN Skipped(call.left)
           ELSE call' = [call EXCEPT !.got = call.got + get] /\ UNCHANGED <<position, reply>>
  /\ lost' = (lost \/ (call'.op # "skip" /\ call.missed > 0))
  /\ UNCHANGED <<copyVars, blockVars, fatal, eof, cursor, usable, sized, has, cut, opening>>

(* A negative answer is an answer as any other: no test ends the loop.     *)
SkipFails ==
  /\ Skipping /\ ("skip" \in Faults \/ ~usable)
  /\ \E by \in 1..(SkipErrorMax - call.missed) :
        call' = [call EXCEPT !.missed = call.missed + by]
  /\ UNCHANGED <<copyVars, blockVars, streamVars, clientVars, opening, reply, lost>>

(* It skips nothing.  Only a total below zero is an error then.            *)
SkipStops ==
  /\ Skipping
  /\ IF call.got < call.missed
     THEN fatal' = TRUE /\ Return(BS!IOError) /\ UNCHANGED <<position, lost>>
     ELSE /\ Skipped(call.got - call.missed)
          /\ lost' = (lost \/ call.missed > 0) /\ UNCHANGED fatal
  /\ UNCHANGED <<copyVars, blockVars, eof, clientVars, opening>>

(* It skips more than asked.                                               *)
SkipOverruns ==
  /\ Skipping /\ "skip" \in Faults
  /\ \E get \in (Asked + 1)..Within : source' = source + get
  /\ fatal' = TRUE /\ Return(BS!IOError)
  /\ UNCHANGED <<copyVars, blockVars, position, eof, cursor, usable, sized, has, cut, opening, lost>>

SkipByCallback == SkipServes \/ SkipFails \/ SkipStops \/ SkipOverruns

(* The seeker fails.                                                       *)
SeekerFails ==
  /\ call.op = "skip" /\ "skip" \notin has /\ "seek" \in has
  /\ call.left > SeekSkipMin
  /\ "seek" \in Faults \/ ~usable
  /\ fatal' = TRUE /\ Return(BS!IOError)
  /\ UNCHANGED <<copyVars, blockVars, position, eof, clientVars, opening, lost>>

(* The seeker's answer is not looked at. *)
SkipBySeekerFaulty ==
  /\ call.op = "skip" /\ "skip" \notin has /\ "seek" \in has
  /\ call.left > SeekSkipMin /\ usable
  /\ source' = minimum(source + call.left, VolumeEnd)
  /\ Skipped(call.left)
  /\ UNCHANGED <<copyVars, blockVars, fatal, eof, cursor, usable, sized, has, cut, opening, lost>>

(* Without a skipper, a long skip is a seek from the current place of the  *)
(* volume; its answer is compared with the position in the whole stream.   *)
SkipBySeeker ==
  /\ call.op = "skip" /\ "skip" \notin has /\ "seek" \in has
  /\ call.left > SeekSkipMin /\ usable
  /\ LET to    == source + call.left
         after == to - Start[cursor]
     IN  IF to > VolumeEnd /\ ~SeeksPastEnd
         THEN source' = VolumeEnd /\ fatal' = TRUE /\ Return(BS!IOError) /\ UNCHANGED position
         ELSE /\ source' = to
              /\ IF after # position + call.left
                 THEN fatal' = TRUE /\ Return(BS!IOError) /\ UNCHANGED position
                 ELSE Skipped(call.left) /\ UNCHANGED fatal
  /\ UNCHANGED <<copyVars, blockVars, eof, cursor, usable, sized, has, cut, opening, lost>>

NoSkipper ==
  /\ call.op = "skip" /\ "skip" \notin has
  /\ "seek" \in has => call.left <= SeekSkipMin
  /\ Skipped(0)
  /\ UNCHANGED <<copyVars, blockVars, fatal, eof, clientVars, opening, lost>>

Discard ==
  /\ call.op = "discard"
  /\ \E n \in Delivered :
       LET used == minimum(n, call.left) IN
       /\ base' = source /\ source' = source + n
       /\ position' = position + used
       /\ IF n >= call.left
          THEN /\ cnext' = used /\ cavail' = n - used /\ ctotal' = n
               /\ Return(BS!Moved(call.done + used))
          ELSE /\ call' = [op |-> "discard", left |-> call.left - n, done |-> call.done + n]
               /\ UNCHANGED <<cnext, cavail, ctotal, reply>>
  /\ UNCHANGED <<copyVars, fatal, eof, cursor, usable, sized, has, cut, opening, lost>>

DiscardError ==
  /\ call.op = "discard" /\ ReadFails
  /\ fatal' = TRUE /\ Return(BS!IOError)
  /\ UNCHANGED <<copyVars, blockVars, position, eof, clientVars, opening, lost>>

DiscardNext ==
  /\ call.op = "discard" /\ OnToNext
  /\ UNCHANGED <<copyVars, blockVars, streamVars, opening, call, reply, lost>>

DiscardEnd ==
  /\ call.op = "discard" /\ NoMore
  /\ eof' = TRUE
  /\ Return(BS!Truncated(call.done))
  /\ UNCHANGED <<copyVars, blockVars, position, fatal, opening, lost>>

-----------------------------------------------------------------------------
(* __archive_read_filter_seek(f, offset, whence).  Volumes are visited in  *)
(* order from the first one whose size is not known; each is measured by a *)
(* seek to its end.                                                        *)

(* SEEK_SET stops at the first volume whose last byte lies past offset.    *)
HoldsOffset(v, offset) ==
  /\ v = Last \/ Start[v + 1] - 1 > offset
  /\ \A u \in 0..(v - 1) : Start[u + 1] - 1 <= offset

(* SEEK_END goes back from the last volume until one begins early enough.  *)
HoldsFromEnd(v, offset) ==
  /\ v = 0 \/ Size + offset >= Start[v]
  /\ \A u \in (v + 1)..Last : Size + offset < Start[u]

(* Where SEEK_END takes an offset before the first byte: the way back has  *)
(* added the size of volume 0 to the offset.                               *)
FromEnd(offset) ==
  IF Size + offset >= 0 THEN Size + offset ELSE Size + offset + Start[1]

(* The end of file seen before the seek is remembered. *)
SeekDoneAtEofFaulty(v, to, known) ==
  /\ cursor' = v /\ source' = to /\ usable' = TRUE /\ sized' = maximum(sized, known)
  /\ copy' = <<>> /\ gap' = 0 /\ cavail' = 0
  /\ position' = to
  /\ lost' = FALSE /\ cut' = FALSE
  /\ Return(BS!Sought(to))
  /\ UNCHANGED <<bufsize, base, cnext, ctotal, fatal, eof, has, opening>>

(* The seeker has placed volume v at byte `to`.                            *)
SeekDone(v, to, known) ==
  /\ cursor' = v /\ source' = to /\ usable' = TRUE /\ sized' = maximum(sized, known)
  /\ copy' = <<>> /\ gap' = 0 /\ cavail' = 0
  /\ position' = to /\ eof' = FALSE
  /\ lost' = FALSE /\ cut' = FALSE
  /\ Return(BS!Sought(to))
  /\ UNCHANGED <<bufsize, base, cnext, ctotal, fatal, has, opening>>

(* A seek that fails after it has moved the client to volume v leaves the  *)
(* buffers, the position and the flags as they were.                       *)
SeekStops(v, at, open, known) ==
  /\ cursor' = v /\ source' = at /\ usable' = open /\ sized' = maximum(sized, known)
  /\ lost' = TRUE
  /\ Return(BS!NotSought("fatal"))
  /\ UNCHANGED <<copyVars, blockVars, streamVars, has, cut, opening>>

(* A callback fails at volume v, one of those visited: the switch to it or *)
(* the seek to its end.  A volume that has failed to open cannot be sought.*)
SeekBreaks(first, stop) ==
  \E v \in first..stop :
     \/ /\ "switch" \in Faults /\ (v # cursor \/ v # first)
        /\ \E open \in BOOLEAN : SeekStops(v, Start[v], open, v)
     \/ /\ "seek" \in Faults
        /\ \E at \in {Start[v], Start[v + 1]} : SeekStops(v, at, TRUE, v)
     \/ v = first /\ v = cursor /\ ~usable /\ SeekStops(v, source, FALSE, v)

Reaches(first) == first # cursor \/ usable

SeekRefused ==
  /\ call = Idle /\ fatal
  /\ Return(BS!NotSought("fatal"))
  /\ UNCHANGED <<copyVars, blockVars, streamVars, clientVars, opening, lost>>

(* Without a seeker the seek fails, but the first volume to visit has been *)
(* switched to, or has failed to open.                                     *)
SeekUnsupported ==
  /\ call = Idle /\ ~fatal /\ "seek" \notin has
  /\ \/ SwitchTo(0) /\ Return(BS!NotSought("failed"))
     \/ SwitchFails(0) /\ Return(BS!NotSought("fatal"))
  /\ lost' = (lost \/ cursor # 0)
  /\ UNCHANGED <<copyVars, blockVars, streamVars, sized, has, cut, opening>>

SeekSet(offset) ==
  /\ call = Idle /\ ~fatal /\ "seek" \in has
  /\ \E v \in Nodes :
       LET first == minimum(sized, v) IN
       /\ HoldsOffset(v, offset)
       /\ \/ SeekBreaks(first, v)
          \/ /\ Reaches(first) /\ offset \in Start[v]..Start[v + 1]
             /\ SeekDone(v, offset, v + 1)
          \/ /\ Reaches(first)
             /\ offset \notin Start[v]..Start[v + 1] \/ "seek" \in Faults
             /\ SeekStops(v, Start[v + 1], TRUE, v + 1)

(* Formats seek from the end by no positive offset.                        *)
SeekEnd(offset) ==
  /\ call = Idle /\ ~fatal /\ "seek" \in has /\ offset <= 0
  /\ \E v \in Nodes :
       LET first == minimum(sized, Last) IN
       /\ HoldsFromEnd(v, offset)
       /\ \/ SeekBreaks(first, Last)
          \/ Reaches(first) /\ FromEnd(offset) >= 0 /\ SeekDone(v, FromEnd(offset), Volumes)
          \/ /\ Reaches(first)
             /\ FromEnd(offset) < 0 \/ "seek" \in Faults
             /\ \E at \in {Start[v], Start[v + 1]} : SeekStops(v, at, TRUE, Volumes)
          \/ /\ Reaches(first)
             /\ "switch" \in Faults /\ v # Last
             /\ \E open \in BOOLEAN : SeekStops(v, Start[v], open, Volumes)

Seek == \/ SeekRefused
        \/ SeekUnsupported
        \/ \E offset \in Offsets :
              SeekSet(offset) \/ SeekSet(position + offset) \/ SeekEnd(offset)

-----------------------------------------------------------------------------
(* The end of archive_read_open1: filters and formats have bid, each format*)
(* that left the position elsewhere was followed by a seek to 0 whose      *)
(* result is not looked at; then the first volume is switched to.          *)
OpenDone ==
  /\ opening /\ call = Idle
  /\ position = 0 \/ reply.op = "notsought"
  /\ opening' = FALSE
  /\ \/ SwitchTo(0)
     \/ SwitchFails(0)
  /\ UNCHANGED <<copyVars, blockVars, streamVars, sized, has, cut, call, reply, lost>>

Pull  == PeekCopy \/ PeekClient \/ PeekAtEnd \/ Fill \/ FillError \/ NextVolume
           \/ StreamEnd \/ Gather \/ GrowFails
Skip  == SkipByCallback \/ SeekerFails \/ SkipBySeeker \/ NoSkipper
           \/ Discard \/ DiscardError \/ DiscardNext \/ DiscardEnd
(* Bound: past Size, where only a stream that a failed seek or the switch  *)
(* of OpenDone has left elsewhere can get, nothing is read.                *)
Calls == \/ \E min \in Mins : position <= Size /\ Ahead(min)
         \/ \E request \in Amounts : position <= Size /\ Consume(request)
         \/ Seek
         \/ OpenDone

Next == Calls \/ Pull \/ Skip

Spec     == Init /\ [][Next]_vars
FairSpec == Spec /\ WF_vars(Pull) /\ WF_vars(Skip)

-----------------------------------------------------------------------------
(* Properties.                                                             *)

CallType == {Idle} \union [op : {"ahead"}, min : Mins]
              \union [op : {"skip"}, left : Nat \ {0}, done : Nat, got : Nat, missed : Nat]
              \union [op : {"discard"}, left : Nat \ {0}, done : Nat]

(* Type invariant. *)
TypeOK ==
  /\ copy \in Seq(Nat) /\ gap \in Nat /\ bufsize \in Nat
  /\ base \in Nat /\ cnext \in Nat /\ cavail \in Nat /\ ctotal \in Nat
  /\ position \in Nat /\ fatal \in BOOLEAN /\ eof \in BOOLEAN
  /\ cursor \in Nodes /\ source \in Nat /\ usable \in BOOLEAN
  /\ sized \in 0..Volumes
  /\ has \in Clients /\ cut \in BOOLEAN /\ opening \in BOOLEAN /\ lost \in BOOLEAN
  /\ call \in CallType

(* The copy buffer never overflows and the pointer into the client block   *)
(* never leaves it, neither forward nor when data is rolled back to it,    *)
(* whatever look-aheads, skips, volume ends, errors and seeks came before. *)
BufferBounds ==
  /\ gap + Len(copy) <= bufsize
  /\ cnext \in Nat /\ cnext + cavail <= ctotal

CopyInStep   == \A i \in 1..Len(copy) : copy[i] = position + i - 1
BlockInStep  == Len(copy) + cavail > 0 /\ ctotal > 0 => base + cnext = position + Len(copy)
Underway     == IF call.op = "skip" THEN call.got ELSE 0
SourceInStep == source = position + Len(copy) + cavail + Underway

(* f->position, the two buffers and the client agree: the copy buffer      *)
(* holds the bytes from position on, the client block goes on from there   *)
(* (also when the copied bytes are to be rolled back to it), and the next  *)
(* byte the client delivers is the one after both (and after what the skip *)
(* callback has skipped of the consume in progress).  Nothing is said once *)
(* a seek has failed, a failed skip has gone unnoticed (SkipErrorReported) *)
(* or the filter is fatal.                                                 *)
InStep == ~lost /\ ~fatal => CopyInStep /\ BlockInStep /\ SourceInStep

(* Growing the copy buffer by doubling never makes it twice as large as    *)
(* the largest look-ahead asked for.                                       *)
GrowthBounded == bufsize = 0 \/ \E min \in Mins : bufsize < 2 * min

(* The layer implements the abstract stream.                               *)
ImplementsByteStream == BS!Spec

(* Every look-ahead and every consume returns, however blocks, volumes,    *)
(* short skips and errors fall, as long as the skip callback does not      *)
(* answer the same consume by errors for ever: SkipErrorMax stands for     *)
(* that, since the loop of client_skip_proxy does not end on an error.     *)
CallsReturn == call # Idle ~> call = Idle

(* advance_file_pointer "returns a negative value if there's an I/O error":*)
(* a consume during which the skip callback has failed is fatal.  (It is   *)
(* not where the answers add up to no less than zero.)                     *)
SkipErrorReported ==
  [][call.op = "skip" /\ call.op # call'.op /\ call.missed > 0 => fatal']_vars
=============================================================================
