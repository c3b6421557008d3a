---------------------------- MODULE Discounting ----------------------------
(***************************************************************************)
(* Powers and discounted sums by their definition, for what the training   *)
(* code computes by a recursion from the end.                              *)
(***************************************************************************)
EXTENDS Integers

\* g to the power of n.
Power(g, n) ==
    LET power[d \in 0 .. n] == IF d = 0 THEN 1 ELSE g * power[d - 1] IN power[n]

\* x[t] + g * x[t + 1] + ... over n terms.
Discounted(x, g, t, n) ==
    LET sum[d \in 0 .. n] ==
          IF d = 0 THEN 0 ELSE sum[d - 1] + Power(g, d - 1) * x[t + d - 1]
    IN  sum[n]
=============================================================================
