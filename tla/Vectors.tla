------------------------------ MODULE Vectors ------------------------------
(***************************************************************************)
(* Vectors with a component for each backend, and what the control loop    *)
(* (cbf/cbf_runtime.py) and the training code (ml/) do alike with them: a  *)
(* weight vector, a vector of loads, a vector to be projected. Components  *)
(* are integers.                                                           *)
(***************************************************************************)
EXTENDS Integers

CONSTANT N       \* number of backends

ASSUME NAssumption == N \in Nat \ {0}

Backends == 0 .. N - 1

AtLeast(lo, x) == IF x < lo THEN lo ELSE x
AtMost(hi, x) == IF x > hi THEN hi ELSE x

\* The sums of the first components (np.cumsum), and the sum of all.
Sums(f) ==
    LET sum[k \in 0 .. N] == IF k = 0 THEN 0 ELSE sum[k - 1] + f[k - 1] IN sum
Total(f) == Sums(f)[N]

\* The components of v, largest first (np.sort(v)[::-1]). Components that are
\* equal are told apart by their index.
Sorted(v) ==
    LET ranked == CHOOSE s \in [Backends -> {<<v[b], b>> : b \in Backends}] :
                    /\ \A j, k \in Backends : j < k => s[j] # s[k] /\ s[j][1] >= s[k][1]
                    /\ \A b \in Backends : \E k \in Backends : s[k][2] = b
    IN  [k \in Backends |-> ranked[k][1]]
=============================================================================
