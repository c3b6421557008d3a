----------------------------- MODULE MCAffinity -----------------------------
(* Instances of Affinity for TLC.                                          *)
EXTENDS Affinity, TLC

(* One vnode per backend, at opposite sides of the ring. *)
MCPos(id, i) == (3 * id + i) % 8

(* Session keys and callers are interchangeable. *)
MCSymmetry == Permutations(Sessions) \union Permutations(Callers)
=============================================================================
