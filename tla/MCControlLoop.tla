---------------------------- MODULE MCControlLoop ----------------------------
(* Instances of ControlLoop for TLC. *)
EXTENDS ControlLoop

Intercept   == -1
SomeFactors == {-1, 2}
=============================================================================
