---------------------------- MODULE ChildProcess ----------------------------
(***************************************************************************)
(* External programs as filters: __archive_create_child and                *)
(* __archive_check_child (filter_fork_posix.c) with the pipes and the      *)
(* programs at their other ends.  Filter p of a chain has child p.         *)
(*                                                                         *)
(* A pipe keeps positions, not bytes: what was written to the standard     *)
(* input and taken from it, what the child has made and what was drained   *)
(* of that.  The calling process does not die of SIGPIPE: it catches the   *)
(* signal (a child then has the default) or, as bsdtar does, ignores it    *)
(* (a child then inherits that: fault "ignored").                          *)
(***************************************************************************)
EXTENDS Integers

CONSTANTS
  Depth,      \* filters of a chain
  PipeSize,   \* bytes a pipe holds
  MaxMade,    \* bound: bytes a child writes
  Faults      \* what may go wrong, see each use

ASSUME ChildAssumption == {Depth, PipeSize, MaxMade} \subseteq Nat \ {0}

VARIABLES
  created,                \* children that have been created
  kid,                    \* each child: what it is at, bytes it is about to write,
                          \* end of input seen, output closed, how it ended
  child_stdin, child_stdout,  \* our ends: "open", "closed"; output also "blocking"
  written, taken,         \* standard input: bytes we wrote, the child read
  made, drained           \* standard output: bytes the child wrote, we read

childVars == <<created, kid, child_stdin, child_stdout, written, taken, made, drained>>

Chain == 1..Depth
NoKid == [at |-> "none", todo |-> 0, ended |-> FALSE, mute |-> FALSE, status |-> "none"]

ChildInit ==
  /\ created = {} /\ kid = [p \in Chain |-> NoKid]
  /\ child_stdin = [p \in Chain |-> "closed"] /\ child_stdout = [p \in Chain |-> "closed"]
  /\ written = [p \in Chain |-> 0] /\ taken = [p \in Chain |-> 0]
  /\ made = [p \in Chain |-> 0] /\ drained = [p \in Chain |-> 0]

Lives(p)   == kid[p].at \in {"read", "write", "exit"}
InPipe(p)  == written[p] - taken[p]
OutPipe(p) == made[p] - drained[p]
Room(p)    == PipeSize - InPipe(p)

(* Variants named ...Faulty are the code with one plausible slip; they are *)
(* what the properties are tried against.                                  *)

(* No closefrom: a child keeps our ends of the pipes that existed before.  *)
HoldersFaulty(p) == {q \in created : q > p}

(* Other children that hold our end of the standard input of child p:      *)
(* each closes all descriptors above 2 before it runs the program.         *)
Holders(p) == {}

InputEnded(p)  == child_stdin[p] = "closed" /\ \A q \in Holders(p) : ~Lives(q)
OutputEnded(p) == kid[p].mute \/ ~Lives(p)

Create(p) ==
  /\ created' = created \cup {p}
  /\ kid' = [kid EXCEPT ![p] = [NoKid EXCEPT !.at = "read"]]
  /\ child_stdin' = [child_stdin EXCEPT ![p] = "open"]
  /\ child_stdout' = [child_stdout EXCEPT ![p] = "open"]
  /\ UNCHANGED <<written, taken, made, drained>>

(* What ends the poll of __archive_check_child.                            *)
Ready(p) ==
  \/ child_stdin[p] # "closed" /\ (Room(p) > 0 \/ ~Lives(p))
  \/ child_stdout[p] # "closed" /\ (OutPipe(p) > 0 \/ OutputEnded(p))

CloseStdin(p) == child_stdin' = [child_stdin EXCEPT ![p] = "closed"]

(* The input is over: read the rest of the output with blocking calls.     *)
EndInput(p) ==
  /\ CloseStdin(p)
  /\ child_stdout' = [child_stdout EXCEPT ![p] = IF @ = "open" THEN "blocking" ELSE @]
  /\ UNCHANGED <<created, kid, written, taken, made, drained>>

CloseStdout(p) ==
  /\ child_stdout' = [child_stdout EXCEPT ![p] = "closed"]
  /\ UNCHANGED <<created, kid, child_stdin, written, taken, made, drained>>

(* Both our ends are closed before the child is waited for.                *)
Leave(p) ==
  /\ CloseStdin(p) /\ child_stdout' = [child_stdout EXCEPT ![p] = "closed"]
  /\ UNCHANGED <<created, kid, written, taken, made, drained>>

Write(p, n) ==
  /\ written' = [written EXCEPT ![p] = @ + n]
  /\ UNCHANGED <<created, kid, child_stdin, child_stdout, taken, made, drained>>

Drain(p, n) ==
  /\ drained' = [drained EXCEPT ![p] = @ + n]
  /\ UNCHANGED <<created, kid, child_stdin, child_stdout, written, taken, made>>

(* waitpid *)
Reap(p) ==
  /\ kid[p].at = "dead"
  /\ kid' = [kid EXCEPT ![p].at = "reaped"]
  /\ UNCHANGED <<created, child_stdin, child_stdout, written, taken, made, drained>>

-----------------------------------------------------------------------------
(* The program: it reads, and then writes some bytes, for which it waits   *)
(* until there is room; it ends behind the end of its input.  It may also  *)
(* close its output early, quit early or fail.                             *)

Decides(p, k) ==
  \E t \in 0..(IF k.mute THEN 0 ELSE MaxMade - made[p]) :
    kid' = [kid EXCEPT ![p] = [k EXCEPT !.todo = t,
              !.at = IF t > 0 THEN "write" ELSE IF k.ended THEN "exit" ELSE "read"]]

ChildReads(p) ==
  /\ kid[p].at = "read" /\ InPipe(p) > 0
  /\ \E n \in 1..InPipe(p) : taken' = [taken EXCEPT ![p] = @ + n]
  /\ \/ Decides(p, kid[p])
     \/ "mute" \in Faults /\ Decides(p, [kid[p] EXCEPT !.mute = TRUE])
     \/ "quits" \in Faults /\ kid' = [kid EXCEPT ![p].at = "exit"]
  /\ UNCHANGED <<created, child_stdin, child_stdout, written, made, drained>>

ChildSeesEnd(p) ==
  /\ kid[p].at = "read" /\ InPipe(p) = 0 /\ InputEnded(p)
  /\ Decides(p, [kid[p] EXCEPT !.ended = TRUE])
  /\ UNCHANGED <<created, child_stdin, child_stdout, written, taken, made, drained>>

ChildWrites(p) ==
  /\ kid[p].at = "write"
  /\ \/ /\ child_stdout[p] = "closed"
        /\ \E s \in {"sigpipe"} \cup (IF "ignored" \in Faults THEN {"bad"} ELSE {}) :
             kid' = [kid EXCEPT ![p].at = "dead", ![p].status = s]
        /\ UNCHANGED made
     \/ /\ child_stdout[p] # "closed"
        /\ \E n \in 1..kid[p].todo :
             /\ n <= PipeSize - OutPipe(p)
             /\ made' = [made EXCEPT ![p] = @ + n]
             /\ kid' = [kid EXCEPT ![p].todo = @ - n,
                          ![p].at = IF n < kid[p].todo THEN "write"
                                    ELSE IF kid[p].ended THEN "exit" ELSE "read"]
  /\ UNCHANGED <<created, child_stdin, child_stdout, written, taken, drained>>

ChildExits(p) ==
  /\ kid[p].at = "exit"
  /\ \E s \in {"ok"} \cup (IF "fails" \in Faults THEN {"bad"} ELSE {}) :
       kid' = [kid EXCEPT ![p].at = "dead", ![p].status = s]
  /\ UNCHANGED <<created, child_stdin, child_stdout, written, taken, made, drained>>

(* By a signal, or because the program could not be run.                   *)
ChildDies(p) ==
  /\ "killed" \in Faults /\ Lives(p)
  /\ kid' = [kid EXCEPT ![p].at = "dead", ![p].status = "bad"]
  /\ UNCHANGED <<created, child_stdin, child_stdout, written, taken, made, drained>>

ChildWorks(p) == ChildReads(p) \/ ChildSeesEnd(p) \/ ChildWrites(p) \/ ChildExits(p)
=============================================================================
