-------------------------- MODULE MCProgramFilters --------------------------
(***************************************************************************)
(* Two programs behind one another, pipes of a byte and buffers of two, so *)
(* that every pipe can be full while the next one is, and a write or a     *)
(* block goes through its pipe in parts.                                   *)
(***************************************************************************)
EXTENDS ProgramFilters

AllFaults == {"mute", "quits", "fails", "killed", "ignored", "launch", "client"}
=============================================================================
