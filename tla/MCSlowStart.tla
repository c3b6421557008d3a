---------------------------- MODULE MCSlowStart -----------------------------
(* Instances of SlowStart for TLC. *)
EXTENDS SlowStart

MCPos(id, i) == (3 * id + i) % 8
=============================================================================
