---------------------------- MODULE MCReadAhead ----------------------------
(* Instances of ReadAhead for TLC. *)
EXTENDS ReadAhead

OneVolume    == [v \in 0..1 |-> 4 * v]
ThreeVolumes == [v \in 0..3 |-> IF v = 3 THEN 5 ELSE 2 * v]

(* The instance of one volume. *)
SomeMins    == {0, 1, 3, 4}
SomeAmounts == {1, 2, 6}
SomeOffsets == {-5, 0, 3}

(* The instance of three volumes. *)
FewMins    == {1, 3}
FewAmounts == {2, 6}
FewOffsets == {-3, 0, 3}
=============================================================================
