---------------------------- MODULE MCMultiBoard ----------------------------
(***************************************************************************)
(* Small instances of MultiBoard for TLC.                                  *)
(***************************************************************************)
EXTENDS MultiBoard
=============================================================================
