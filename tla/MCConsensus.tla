---------------------------- MODULE MCConsensus -----------------------------
(***************************************************************************)
(* Small instances of Consensus for TLC: the packet types that the bus of  *)
(* a configuration loses.                                                  *)
(***************************************************************************)
EXTENDS ConsensusInvariant

SolutionsLost        == {"CON"}
AcknowledgementsLost == {"ACK"}
=============================================================================
