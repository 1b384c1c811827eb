----------------------------- MODULE MCMinimise ------------------------------
(* Instances of Minimise for TLC. *)
EXTENDS Minimise

Pair(a, b) == [j \in 0 .. 1 |-> IF j = 0 THEN a ELSE b]

Rows       == {Pair(2, 1), Pair(1, 2), Pair(1, 1), Pair(1, 0), Pair(0, 1), Pair(0, 0)}
Lights     == {-1, 0, 2, 3, 4, 5, 8}
SomePairs  == {Pair(a, b) : a, b \in {0, 2, 4}}
Squares    == {Pair(a, b) : a, b \in -6 .. 6}
=============================================================================
