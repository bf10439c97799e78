--------------------------- MODULE MCWriteArchive ---------------------------
(* Instances of WriteArchive for TLC. *)
EXTENDS WriteArchive

Item(n, k) == [size |-> n, kind |-> k]

(* One that is padded, one that fills its records, one that is refused.    *)
SomeEntries == {Item(1, "odd"), Item(4, "good"), Item(1, "refused")}
FewEntries  == {Item(5, "good")}
DefaultLast == {-1}
SomeLast    == {-1, 3}
=============================================================================
