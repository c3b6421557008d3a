----------------------------- MODULE MCConsensus -----------------------------
(* Consensus on a small instance: see MCConsensus.cfg. *)
EXTENDS Consensus
=============================================================================
