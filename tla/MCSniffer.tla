----------------------------- MODULE MCSniffer ------------------------------
(***************************************************************************)
(* Small instances of Sniffer for TLC.                                     *)
(***************************************************************************)
EXTENDS Sniffer
=============================================================================
