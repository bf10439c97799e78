----------------------------- MODULE ByteStream -----------------------------
(***************************************************************************)
(* What the peek/consume layer of archive_read.c promises to the code      *)
(* above it, format readers and upper filters: one stream of Size bytes    *)
(* that can be looked at from the current position without moving, moved   *)
(* over by an exact amount, and repositioned.  Byte number i of the stream *)
(* is written i, so a window shown to the caller is the sequence of the    *)
(* numbers of its bytes.  ReadAhead implements this specification.         *)
(***************************************************************************)
EXTENDS Integers, Sequences

CONSTANT Size                   \* bytes in all the volumes together

VARIABLES pos,                  \* number of the next byte
          dead,                 \* an I/O error has ended the stream
          lost,                 \* a failed seek, or a failure that went
                                \* unnoticed, has left the stream anywhere
          reply                 \* answer of the last call, NoReply during one

streamVars == <<pos, dead, lost, reply>>

NoReply           == [op |-> "none"]
Window(min, seen) == [op |-> "window", min |-> min, seen |-> seen]
Short(min, avail) == [op |-> "short", min |-> min, avail |-> avail]
IOError           == [op |-> "error"]
Moved(by)         == [op |-> "moved", by |-> by]
Truncated(by)     == [op |-> "truncated", by |-> by]
Sought(to)        == [op |-> "sought", to |-> to]
NotSought(why)    == [op |-> "notsought", why |-> why]

Bytes(from, n) == [i \in 1..n |-> from + i - 1]

Init == pos = 0 /\ dead = FALSE /\ lost = FALSE /\ reply = NoReply

(* A call begins. *)
Ask == reply' = NoReply /\ UNCHANGED <<pos, dead, lost>>

(* A look-ahead that is served shows at least min bytes, those at pos. *)
Show ==
  /\ ~dead /\ reply'.op = "window"
  /\ reply'.min <= Len(reply'.seen) /\ pos + Len(reply'.seen) <= Size
  /\ reply'.seen = Bytes(pos, Len(reply'.seen))
  /\ UNCHANGED <<pos, dead, lost>>

(* It is refused only when the stream ends before min bytes. *)
ShowEnd ==
  /\ ~dead /\ reply'.op = "short"
  /\ reply'.avail = Size - pos /\ reply'.avail < reply'.min
  /\ UNCHANGED <<pos, dead, lost>>

(* A consume moves by exactly the amount asked, or to the end. *)
Advance ==
  /\ \/ /\ reply'.op = "moved" /\ (dead => reply'.by = 0)
        /\ pos' = pos + reply'.by /\ pos' <= Size
     \/ /\ reply'.op = "truncated" /\ ~dead
        /\ pos' = pos + reply'.by /\ pos' = Size
  /\ UNCHANGED <<dead, lost>>

(* An error ends the stream; the position may have moved on before it. *)
Fail ==
  /\ reply' = IOError /\ dead' = TRUE
  /\ pos' \in pos..Size
  /\ UNCHANGED lost

Seek ==
  \/ /\ reply'.op = "sought" /\ ~dead
     /\ pos' = reply'.to /\ pos' \in 0..Size /\ lost' = FALSE
     /\ UNCHANGED dead
  \/ /\ reply'.op = "notsought" /\ lost' \in {lost, TRUE}
     /\ UNCHANGED <<pos, dead>>

(* A callback may fail without the layer noticing. *)
Lose == ~dead /\ lost' /\ UNCHANGED dead

(* Nothing is promised of a stream that has been lost. *)
Adrift == lost /\ lost'

Next == Ask \/ Show \/ ShowEnd \/ Advance \/ Fail \/ Seek \/ Lose \/ Adrift

Spec == Init /\ [][Next]_streamVars
=============================================================================
