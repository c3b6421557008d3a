------------------------------- MODULE MCRing -------------------------------
(* Instances of Ring for TLC.                                              *)
EXTENDS Ring

(* Scatters the vnodes over eight positions; vnodes of different backends  *)
(* collide, as 32-bit hashes may.                                          *)
MCPos(id, i) == (3 * id + 5 * i) % 8
=============================================================================
