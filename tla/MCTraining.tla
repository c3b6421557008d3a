----------------------------- MODULE MCTraining -----------------------------
(* Three backends, one of them deceptive; rollouts of two episodes; two     *)
(* workers and two parameters; rollouts of A3C that the end of an episode   *)
(* cuts short.                                                              *)
EXTENDS Training, TLC

CONSTANTS w1, w2

MCWorkers == {w1, w2}
Triple(x, y, z) == (0 :> x @@ 1 :> y @@ 2 :> z)
MCDeceptive == {1}
MCStartLoads == {Triple(0, 0, 0), Triple(30, 20, 0)}
MCWeights == {Triple(0, 0, 0), Triple(1, 0, 0), Triple(0, 1, 0), Triple(0, 1, 1),
              Triple(1, 2, 1)}
MCActions == {[b \in Backends |-> Grain \div 3],
              Triple(3 * (Grain \div 8), 3 * (Grain \div 8), Grain \div 4)}
MCRewards == {-1, 2}
MCValues == {0, 3}
MCRateRewards == {1, 2}
=============================================================================
