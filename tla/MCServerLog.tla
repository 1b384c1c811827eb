---------------------------- MODULE MCServerLog -----------------------------
(***************************************************************************)
(* Small instances of ServerLog for TLC.                                   *)
(***************************************************************************)
EXTENDS ServerLog, TLC

Sessions == Permutations(Session)
=============================================================================
