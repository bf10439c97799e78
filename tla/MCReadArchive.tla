--------------------------- MODULE MCReadArchive ---------------------------
(* Instances of ReadArchive for TLC. *)
EXTENDS ReadArchive

Item(bytes, says, pieces) ==
  [size |-> bytes, declared |-> says, extents |-> pieces]
Data(from, n) == [offset |-> from, len |-> n]

(* A hole before, between and after data; then data only. *)
Sparse == <<Item(6, 6, <<Data(1, 2), Data(4, 1)>>), Item(3, 3, <<Data(0, 1), Data(1, 2)>>)>>
(* Sparse entries, the last one with a map that goes back. *)
Unordered == <<Item(4, 4, <<Data(2, 2), Data(0, 1)>>)>>
Mixed     == Sparse \o Unordered
(* The declared size is smaller than, larger than or missing beside the    *)
(* data; an empty block, a hole only and an empty entry.                   *)
Declared ==
  <<Item(4, 2, <<Data(0, 4)>>), Item(3, 1, <<Data(2, 1)>>),
    Item(3, 3, <<Data(0, 2), Data(2, 0)>>), Item(2, -1, <<Data(1, 1)>>), Item(1, 0, <<>>)>>
=============================================================================
