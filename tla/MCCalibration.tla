--------------------------- MODULE MCCalibration ----------------------------
(***************************************************************************)
(* Small instances of Calibration for TLC.                                 *)
(***************************************************************************)
EXTENDS Calibration

RequestsLost == {"SYN"}
=============================================================================
