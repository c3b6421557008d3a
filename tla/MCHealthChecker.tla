-------------------------- MODULE MCHealthChecker ---------------------------
(* Instances of HealthChecker for TLC. *)
EXTENDS HealthChecker
=============================================================================
