--------------------------- MODULE ControlProofs ----------------------------
(***************************************************************************)
(* Proofs about Control, for every number of backends, every length of the *)
(* histories and every number of iterations of the projection.             *)
(*                                                                         *)
(* ControlInv is not inductive: that the weights are shares follows from   *)
(* where the last decision came from. ControlIInv says so (DecisionOK):    *)
(* KAN's weights are shares and the projection's result is Project of      *)
(* them. What Project does is a matter of the algorithm alone. Its         *)
(* division by the number of positive components leaves no remainder,      *)
(* since every weight is a multiple of N * Parts[k] after k iterations     *)
(* (IsShare, IterationShares), so the threshold takes exactly the excess   *)
(* from the components that stay positive and the others are below it      *)
(* (ThresholdSplits, SimplexExact): the result sums to one and is nearest. *)
(*                                                                         *)
(* RatesMatchLog is not inductive either once the two deques have dropped  *)
(* entries at different times. Its proof adds that the flags of all        *)
(* backends grow together (MonitorOK), and that to be the end of a         *)
(* sequence survives appending and cutting at any two lengths.             *)
(***************************************************************************)
EXTENDS Control, VectorProofs

(***************************************************************************)
(* The projection onto the simplex.                                        *)
(***************************************************************************)

(* How many components stay positive: the last one that may, and none after. *)
LEMMA LastPositive ==
  ASSUME NEW u \in [Backends -> Int], NEW one \in Nat \ {0}
  PROVE  LET positive == {k \in 1 .. N : k * u[k - 1] > Sums(u)[k] - one}
             rho == CHOOSE k \in positive : \A j \in positive : j <= k
         IN  rho \in positive /\ \A j \in positive : j <= rho
<1> DEFINE positive == {k \in 1 .. N : k * u[k - 1] > Sums(u)[k] - one}
           rho == CHOOSE k \in positive : \A j \in positive : j <= k
           below == {N - k : k \in positive}
<1>1. 1 \in positive
  <2>1. 1 \in 1 .. N /\ 1 - 1 = 0
    BY NAssumption
  <2>2. u[0] \in Int /\ Sums(u)[1] = Sums(u)[0] + u[0] /\ Sums(u)[0] = 0
    BY <2>1, SumsStep, SumsDef
  <2>3. 1 * u[1 - 1] = u[0] /\ Sums(u)[1] = u[0]
    BY <2>1, <2>2
  <2>4. u[0] > u[0] - one
    BY <2>2
  <2>5. QED
    BY <2>1, <2>3, <2>4
<1>2. positive \subseteq 1 .. N
  OBVIOUS
<1> HIDE DEF positive
<1>3. below \subseteq Nat /\ below # {}
  BY <1>1, <1>2, NAssumption
<1>4. PICK m \in below : \A j \in below : m <= j
  <2> HIDE DEF below
  <2>1. QED
    BY <1>3, Least
<1>5. PICK k \in positive : m = N - k
  BY DEF below
<1>6. \A j \in positive : N - k <= N - j
  BY <1>4, <1>5
<1>7. \A j \in positive : j <= k
  BY <1>2, <1>6, NAssumption
<1>8. rho \in positive /\ \A j \in positive : j <= rho
  BY <1>7, Zenon
<1>9. QED
  BY <1>8, Zenon DEF positive

(* The components up to rho exceed the threshold, those after it do not. *)
Splits(u, rho, theta) ==
  \A k \in 1 .. N : IF k <= rho THEN u[k - 1] > theta ELSE u[k - 1] <= theta

LEMMA ThresholdSplits ==
  ASSUME NEW u \in [Backends -> Int], NEW one \in Nat \ {0},
         \A j, k \in Backends : j < k => u[j] >= u[k],
         NEW rho \in 1 .. N, rho * u[rho - 1] > Sums(u)[rho] - one,
         \A j \in 1 .. N : j * u[j - 1] > Sums(u)[j] - one => j <= rho,
         NEW theta \in Int, rho * theta = Sums(u)[rho] - one
  PROVE  Splits(u, rho, theta)
<1>1. rho \in Nat \ {0} /\ u[rho - 1] \in Int /\ Sums(u)[rho] \in Int
  BY SumsStep
<1>2. u[rho - 1] > theta
  BY <1>1, ProductOrder
<1>3. ASSUME NEW k \in 1 .. N, k <= rho
      PROVE  u[k - 1] > theta
  <2>1. k - 1 \in Backends /\ rho - 1 \in Backends /\ u[k - 1] \in Int
    BY SumsStep
  <2>2. u[k - 1] >= u[rho - 1]
    BY <1>1, <1>3, <2>1
  <2>3. QED
    BY <1>1, <1>2, <2>1, <2>2
<1>4. ASSUME NEW k \in 1 .. N, rho < k
      PROVE  u[k - 1] <= theta
  <2> DEFINE next == rho + 1
  <2>1. next \in 1 .. N /\ next - 1 = rho
    BY <1>4, NAssumption
  <2>2. /\ rho \in Backends /\ u[rho] \in Int /\ k - 1 \in Backends /\ u[k - 1] \in Int
        /\ Sums(u)[next] = Sums(u)[rho] + u[rho]
    BY <2>1, SumsStep
  <2>3. ~(next * u[rho] > Sums(u)[next] - one)
    BY <2>1
  <2>4. next * u[rho] = rho * u[rho] + u[rho]
    BY <2>2
  <2>5. rho * u[rho] \in Int /\ rho * theta \in Int
    BY <2>2
  <2>6. rho * u[rho] <= rho * theta
    BY <1>1, <2>2, <2>3, <2>4, <2>5
  <2>7. u[rho] <= theta
    BY <1>1, <2>2, <2>6, ProductOrder
  <2>8. u[k - 1] <= u[rho]
    BY <1>4, <2>2
  <2>9. QED
    BY <2>2, <2>7, <2>8
<1>5. ASSUME NEW k \in 1 .. N
      PROVE  IF k <= rho THEN u[k - 1] > theta ELSE u[k - 1] <= theta
  <2>1. k <= rho \/ rho < k
    OBVIOUS
  <2>2. QED
    BY <1>3, <1>4, <2>1
<1>6. QED
  BY <1>5, Zenon DEF Splits

(* g is what the components of u exceed the threshold by. *)
Exceeds(g, u, theta) == \A k \in Backends : g[k] = AtLeast(0, u[k] - theta)

(* What exceeds the threshold sums to one. *)
LEMMA CutSum ==
  ASSUME NEW u \in [Backends -> Int], NEW one \in Int, NEW rho \in 1 .. N, NEW theta \in Int,
         rho * theta = Sums(u)[rho] - one,
         Splits(u, rho, theta),
         NEW g \in [Backends -> Int], Exceeds(g, u, theta)
  PROVE  Total(g) = one
<1> DEFINE good == {k \in 0 .. N : Sums(g)[k] = IF k <= rho THEN Sums(u)[k] - k * theta ELSE one}
<1>1. 0 \in good
  <2>1. Sums(g)[0] = 0 /\ Sums(u)[0] = 0 /\ 0 \in 0 .. N /\ 0 <= rho /\ 0 * theta = 0
    BY SumsDef, NAssumption
  <2>2. QED
    BY <2>1
<1>2. ASSUME NEW k \in 1 .. N, k - 1 \in good
      PROVE  k \in good
  <2>1. /\ k - 1 \in Backends /\ u[k - 1] \in Int /\ Sums(u)[k - 1] \in Int
        /\ Sums(g)[k - 1] \in Int
        /\ Sums(u)[k] = Sums(u)[k - 1] + u[k - 1]
        /\ Sums(g)[k] = Sums(g)[k - 1] + g[k - 1]
    BY SumsStep
  <2>2. g[k - 1] = IF k <= rho THEN u[k - 1] - theta ELSE 0
    BY <2>1 DEF AtLeast, Splits, Exceeds
  <2>3. (k - 1) * theta = k * theta - theta /\ k * theta \in Int
    OBVIOUS
  <2>4. Sums(g)[k - 1] = IF k - 1 <= rho THEN Sums(u)[k - 1] - (k - 1) * theta ELSE one
    BY <1>2
  <2>5. CASE k <= rho
    BY <2>1, <2>2, <2>3, <2>4, <2>5
  <2>6. CASE k - 1 = rho
    <3>1. Sums(g)[k - 1] = Sums(u)[rho] - rho * theta
      BY <2>4, <2>6
    <3>2. Sums(u)[rho] \in Int /\ rho * theta \in Int
      BY SumsStep
    <3>3. Sums(g)[k - 1] = one
      BY <3>1, <3>2
    <3>4. QED
      BY <2>1, <2>2, <2>6, <3>3
  <2>7. CASE k - 1 > rho
    BY <2>1, <2>2, <2>4, <2>7
  <2>8. QED
    BY <2>5, <2>6, <2>7
<1>3. \A k \in 0 .. N : k \in good
  <2> HIDE DEF good
  <2>1. QED
    BY <1>1, <1>2, UpTo, NAssumption
<1>4. N \in good /\ N \in 0 .. N
  BY <1>3, NAssumption
<1>5. CASE N = rho
  <2>1. Sums(g)[N] = Sums(u)[rho] - rho * theta
    BY <1>4, <1>5
  <2>2. Sums(u)[rho] \in Int /\ rho * theta \in Int
    BY SumsStep
  <2>3. QED
    BY <2>1, <2>2 DEF Total
<1>6. CASE N # rho
  <2>1. ~(N <= rho)
    BY <1>6, NAssumption
  <2>2. Sums(g)[N] = one
    BY <1>4, <2>1
  <2>3. QED
    BY <2>2 DEF Total
<1>7. QED
  BY <1>5, <1>6

(* ProjectSimplex subtracts a threshold, rounded down if it has to be. *)
LEMMA SimplexShape ==
  ASSUME NEW v \in [Backends -> Int], NEW one \in Nat \ {0}
  PROVE  \E rho \in 1 .. N :
           /\ rho * Sorted(v)[rho - 1] > Sums(Sorted(v))[rho] - one
           /\ \A j \in 1 .. N : j * Sorted(v)[j - 1] > Sums(Sorted(v))[j] - one => j <= rho
           /\ ProjectSimplex(v, one) =
                [b \in Backends |-> AtLeast(0, v[b] - (Sums(Sorted(v))[rho] - one) \div rho)]
<1> DEFINE u == Sorted(v)
           positive == {k \in 1 .. N : k * u[k - 1] > Sums(u)[k] - one}
           rho == CHOOSE k \in positive : \A j \in positive : j <= k
<1>1. u \in [Backends -> Int]
  BY SortedSorts
<1>2. rho \in positive /\ \A j \in positive : j <= rho
  <2> HIDE DEF u
  <2>1. QED
    BY <1>1, LastPositive, Zenon
<1>3. ProjectSimplex(v, one) = [b \in Backends |-> AtLeast(0, v[b] - (Sums(u)[rho] - one) \div rho)]
  BY Zenon DEF ProjectSimplex
<1> HIDE DEF u, rho
<1>4. QED
  BY <1>2, <1>3 DEF u

LEMMA SimplexType ==
  ASSUME NEW v \in [Backends -> Int], NEW one \in Nat \ {0}
  PROVE  ProjectSimplex(v, one) \in [Backends -> Int]
<1>1. PICK rho \in 1 .. N :
        ProjectSimplex(v, one) =
          [b \in Backends |-> AtLeast(0, v[b] - (Sums(Sorted(v))[rho] - one) \div rho)]
  BY SimplexShape, Zenon
<1> DEFINE theta == (Sums(Sorted(v))[rho] - one) \div rho
<1>2. Sums(Sorted(v))[rho] \in Int
  BY SortedSorts, SumsStep
<1>3. theta \in Int
  BY <1>2
<1>4. ProjectSimplex(v, one) = [b \in Backends |-> AtLeast(0, v[b] - theta)]
  BY <1>1
<1> HIDE DEF theta
<1>5. QED
  BY <1>3, <1>4 DEF AtLeast

(* All components and one are multiples of m, and m of r * d for r up to N. *)
Divides(v, one, m, d) ==
  /\ m \in Nat \ {0} /\ d \in Nat \ {0} /\ \A r \in 1 .. N : Multiple(m, r * d)
  /\ Multiple(one, m) /\ \A b \in Backends : Multiple(v[b], m)

(* Then the threshold is exact and a multiple of d, and the result sums to   *)
(* one.                                                                      *)
LEMMA SimplexExact ==
  ASSUME NEW v \in [Backends -> Int], NEW one \in Nat \ {0},
         NEW m, NEW d, Divides(v, one, m, d)
  PROVE  /\ Total(ProjectSimplex(v, one)) = one
         /\ \E theta \in Int :
              /\ Multiple(theta, d)
              /\ ProjectSimplex(v, one) = [b \in Backends |-> AtLeast(0, v[b] - theta)]
<1>0. /\ m \in Nat \ {0} /\ d \in Nat \ {0} /\ \A r \in 1 .. N : Multiple(m, r * d)
      /\ Multiple(one, m) /\ \A b \in Backends : Multiple(v[b], m)
  BY DEF Divides
<1> DEFINE u == Sorted(v)
<1>1. u \in [Backends -> Int] /\ \A j, k \in Backends : j < k => u[j] >= u[k]
  BY SortedSorts
<1>2. PICK o : Rearranges(o) /\ \A k \in Backends : u[k] = v[o[k]]
  BY SortedSorts
<1>3. PICK rho \in 1 .. N :
        /\ rho * u[rho - 1] > Sums(u)[rho] - one
        /\ \A j \in 1 .. N : j * u[j - 1] > Sums(u)[j] - one => j <= rho
        /\ ProjectSimplex(v, one) =
             [b \in Backends |-> AtLeast(0, v[b] - (Sums(u)[rho] - one) \div rho)]
  BY SimplexShape, Zenon
<1> HIDE DEF u
<1> DEFINE sum == Sums(u)[rho] - one
           theta == sum \div rho
<1>4. sum \in Int /\ Multiple(sum, rho * d)
  <2>1. \A b \in Backends : Multiple(u[b], m)
    BY <1>0, <1>2 DEF Rearranges
  <2>2. rho \in 0 .. N /\ Sums(u)[rho] \in Int
    BY <1>1, SumsStep
  <2>3. Multiple(Sums(u)[rho], m)
    BY <1>0, <1>1, <2>1, <2>2, SumsMultiple
  <2>4. Multiple(sum, m) /\ sum \in Int
    <3> DEFINE s == Sums(u)[rho]
    <3>1. m \in Int /\ s \in Int /\ one \in Int /\ Multiple(s, m) /\ Multiple(one, m)
      BY <1>0, <2>2, <2>3
    <3> HIDE DEF s
    <3>2. Multiple(s - one, m) /\ s - one \in Int
      BY <3>1, MultiplesAdd
    <3>3. QED
      BY <3>2 DEF s
  <2>5. rho * d \in Int /\ Multiple(m, rho * d)
    BY <1>0
  <2> HIDE DEF sum
  <2>6. QED
    BY <1>0, <2>4, <2>5, MultiplesFollow
<1>5. theta \in Int /\ Multiple(theta, d) /\ rho * theta = sum
  <2> HIDE DEF sum
  <2>1. QED
    BY <1>0, <1>4, ExactQuotient
<1>6. ProjectSimplex(v, one) = [b \in Backends |-> AtLeast(0, v[b] - theta)]
  BY <1>3
<1>7. rho * theta = Sums(u)[rho] - one
  BY <1>5
<1> HIDE DEF theta
<1>8. Splits(u, rho, theta)
  BY <1>1, <1>3, <1>5, <1>7, ThresholdSplits
<1> DEFINE g == [k \in Backends |-> AtLeast(0, u[k] - theta)]
           p == ProjectSimplex(v, one)
<1>9. g \in [Backends -> Int] /\ Exceeds(g, u, theta)
  BY <1>1, <1>5 DEF AtLeast, Exceeds
<1>10. p \in [Backends -> Int]
  BY SimplexType
<1>11. \A k \in Backends : g[k] = p[o[k]]
  BY <1>2, <1>6 DEF Rearranges
<1> HIDE DEF g, p
<1>12. Total(g) = one
  <2>1. one \in Int /\ rho \in 1 .. N
    OBVIOUS
  <2>2. QED
    BY ONLY <1>1, <1>5, <1>7, <1>8, <1>9, <2>1, CutSum, Zenon
<1>13. Total(p) = one
  BY <1>2, <1>9, <1>10, <1>11, <1>12, SumsRearranged
<1>14. QED
  BY <1>5, <1>6, <1>13 DEF p

(* The projection of such a vector is the nearest point of the simplex. *)
LEMMA SimplexNearest ==
  ASSUME NEW v \in [Backends -> Int], NEW one \in Nat \ {0},
         NEW m, NEW d, Divides(v, one, m, d)
  PROVE  Nearest(v, one)
<1> DEFINE p == ProjectSimplex(v, one)
<1>1. PICK theta \in Int : p = [b \in Backends |-> AtLeast(0, v[b] - theta)]
  BY SimplexExact, Zenon
<1>2. Total(p) = one
  BY SimplexExact, Zenon
<1> HIDE DEF p
<1>3. ASSUME NEW b \in Backends
      PROVE  p[b] >= 0 /\ v[b] - p[b] <= theta /\ (p[b] > 0 => v[b] - p[b] = theta) /\ p[b] \in Int
  <2>1. v[b] \in Int /\ p[b] = AtLeast(0, v[b] - theta)
    BY <1>1
  <2>2. QED
    BY <2>1 DEF AtLeast
<1>4. \A b, c \in Backends : p[b] >= 0 /\ (p[b] > 0 => v[b] - p[b] >= v[c] - p[c])
  BY <1>3
<1>5. QED
  BY <1>2, <1>4 DEF p, Nearest

(***************************************************************************)
(* The iterations of the projection.                                       *)
(***************************************************************************)

LEMMA GrainFacts ==
  /\ Parts \in [0 .. MaxIter -> Nat \ {0}] /\ Grain \in Nat \ {0} /\ MaxIter \in Nat \ {0}
  /\ \A k \in 1 .. MaxIter, r \in 1 .. N : Multiple(Parts[k - 1], r * Parts[k])
  /\ Multiple(Grain, 20000 * Parts[0]) /\ Multiple(Grain, 150 * N)
<1>1. Parts \in [0 .. MaxIter -> Nat \ {0}] /\ Grain \in Nat \ {0} /\ MaxIter \in Nat \ {0}
  BY GrainAssumption, LengthAssumption
<1>2. ASSUME NEW k \in 1 .. MaxIter, NEW r \in 1 .. N
      PROVE  Multiple(Parts[k - 1], r * Parts[k])
  <2>1. k \in 0 .. MaxIter /\ k - 1 \in 0 .. MaxIter /\ r \in Nat \ {0}
    BY <1>1
  <2>2. Parts[k] \in Nat \ {0} /\ Parts[k - 1] \in Nat \ {0}
    BY <1>1, <2>1
  <2>3. Parts[k - 1] % (r * Parts[k]) = 0
    BY GrainAssumption
  <2>4. \A x, y \in Nat \ {0} : x * y \in Nat \ {0}
    OBVIOUS
  <2>5. r * Parts[k] \in Nat \ {0} /\ Parts[k - 1] \in Int
    BY <2>1, <2>2, <2>4
  <2>6. QED
    BY <2>3, <2>5, NoRemainder
<1>3. Multiple(Grain, 20000 * Parts[0])
  <2>1. 0 \in 0 .. MaxIter
    BY <1>1
  <2>2. Parts[0] \in Nat \ {0} /\ Grain \in Int
    BY <1>1, <2>1
  <2>3. 20000 * Parts[0] \in Nat \ {0}
    BY <2>2
  <2>4. QED
    BY <2>2, <2>3, NoRemainder, GrainAssumption
<1>4. Multiple(Grain, 150 * N)
  <2>1. 150 * N \in Nat \ {0} /\ Grain \in Int
    BY <1>1, NAssumption
  <2>2. QED
    BY <2>1, NoRemainder, GrainAssumption
<1>5. QED
  BY <1>1, <1>2, <1>3, <1>4

(* Parts[0] is a multiple of all the others. *)
LEMMA PartsChain ==
  \A k \in 0 .. MaxIter : Parts[k] \in Nat \ {0} /\ Multiple(Parts[0], Parts[k])
<1> DEFINE good == {k \in 0 .. MaxIter : Multiple(Parts[0], Parts[k])}
<1>1. MaxIter \in Nat /\ \A k \in 0 .. MaxIter : Parts[k] \in Nat \ {0}
  BY GrainFacts
<1>2. 0 \in good
  <2>1. 0 \in 0 .. MaxIter /\ Parts[0] \in Int
    BY <1>1
  <2>2. Parts[0] = Parts[0] * 1 /\ 1 \in Int
    BY <2>1
  <2>3. Multiple(Parts[0], Parts[0])
    BY <2>2, Zenon DEF Multiple
  <2>4. QED
    BY <2>1, <2>3
<1>3. ASSUME NEW k \in 1 .. MaxIter, k - 1 \in good
      PROVE  k \in good
  <2>1. k \in 0 .. MaxIter /\ k - 1 \in 0 .. MaxIter /\ 0 \in 0 .. MaxIter /\ 1 \in 1 .. N
    BY <1>1, NAssumption
  <2>2. Parts[k] \in Int /\ Parts[k - 1] \in Int /\ Parts[0] \in Int
    BY <1>1, <2>1
  <2>3. Multiple(Parts[k - 1], 1 * Parts[k])
    BY <2>1, GrainFacts
  <2>4. 1 * Parts[k] = Parts[k]
    BY <2>2
  <2>5. Multiple(Parts[k - 1], Parts[k]) /\ Multiple(Parts[0], Parts[k - 1])
    BY <1>3, <2>3, <2>4
  <2>6. Multiple(Parts[0], Parts[k])
    BY <2>2, <2>5, MultiplesFollow
  <2>7. QED
    BY <2>1, <2>6
<1>4. \A k \in 0 .. MaxIter : k \in good
  <2> HIDE DEF good
  <2>1. QED
    BY <1>1, <1>2, <1>3, UpTo
<1>5. QED
  BY <1>1, <1>4

Loads == [Backends -> Nat]

(* w shares out one, after k iterations. *)
IsShare(w, one, k) ==
  /\ w \in [Backends -> Int] /\ Total(w) = one
  /\ \A b \in Backends : w[b] >= 0 /\ Multiple(w[b], Parts[k])

(* What the violators have of w. *)
ShareOf(w, load) == Total([b \in Backends |-> IF b \in Violators(load) THEN w[b] ELSE 0])

LEMMA ShareOfType ==
  ASSUME NEW w \in [Backends -> Int], NEW load
  PROVE  ShareOf(w, load) \in Int
<1> DEFINE part == [b \in Backends |-> IF b \in Violators(load) THEN w[b] ELSE 0]
<1>1. part \in [Backends -> Int]
  OBVIOUS
<1>2. ShareOf(w, load) = Total(part)
  BY DEF ShareOf
<1> HIDE DEF part
<1>3. QED
  BY <1>1, <1>2, SumsDef

(* v takes from the violators only. *)
Lowers(v, w, load) ==
  \A b \in Backends : v[b] <= w[b] /\ (b \notin Violators(load) => v[b] = w[b])

(* So does the push. *)
LEMMA PushedShape ==
  ASSUME NEW w \in [Backends -> Int], NEW load \in Loads
  PROVE  /\ Pushed(w, load) \in [Backends -> Int]
         /\ Total(w) >= 0 => Lowers(Pushed(w, load), w, load)
<1> DEFINE unit == Total(w) \div 20000
<1>1. unit \in Int /\ (Total(w) >= 0 => unit >= 0)
  BY SumsDef
<1>2. Pushed(w, load) = [b \in Backends |-> IF load[b] > Cap THEN w[b] - unit * (load[b] - Cap)
                                            ELSE w[b]]
  BY DEF Pushed
<1> HIDE DEF unit
<1>3. ASSUME NEW b \in Backends
      PROVE  /\ Pushed(w, load)[b] \in Int
             /\ unit >= 0 => Pushed(w, load)[b] <= w[b]
             /\ b \notin Violators(load) => Pushed(w, load)[b] = w[b]
  <2>1. load[b] \in Nat /\ w[b] \in Int /\ Cap \in Nat
    BY DEF Loads, Cap
  <2>2. CASE load[b] > Cap
    <3>1. load[b] - Cap \in Nat
      BY <2>1, <2>2
    <3>2. \A x \in Int, y \in Nat : x * y \in Int /\ (x >= 0 => x * y >= 0)
      OBVIOUS
    <3>3. unit * (load[b] - Cap) \in Int /\ (unit >= 0 => unit * (load[b] - Cap) >= 0)
      BY <1>1, <3>1, <3>2
    <3>4. Pushed(w, load)[b] = w[b] - unit * (load[b] - Cap)
      BY <1>2, <2>2
    <3>5. QED
      BY <2>1, <2>2, <3>3, <3>4 DEF Violators
  <2>3. CASE ~(load[b] > Cap)
    BY <1>2, <2>1, <2>3
  <2>4. QED
    BY <2>2, <2>3
<1>4. Total(w) >= 0 => Lowers(Pushed(w, load), w, load)
  BY <1>1, <1>3 DEF Lowers
<1>5. QED
  BY <1>2, <1>3, <1>4

(* Multiples stay multiples. *)
LEMMA PushedMultiple ==
  ASSUME NEW w \in [Backends -> Int], NEW load \in Loads, NEW m \in Nat \ {0},
         Multiple(Total(w) \div 20000, m), \A b \in Backends : Multiple(w[b], m)
  PROVE  \A b \in Backends : Multiple(Pushed(w, load)[b], m)
<1> DEFINE unit == Total(w) \div 20000
<1>1. unit \in Int /\ Multiple(unit, m)
  BY SumsDef
<1>2. Pushed(w, load) = [b \in Backends |-> IF load[b] > Cap THEN w[b] - unit * (load[b] - Cap)
                                            ELSE w[b]]
  BY DEF Pushed
<1> HIDE DEF unit
<1> SUFFICES ASSUME NEW b \in Backends
             PROVE  Multiple(Pushed(w, load)[b], m)
  OBVIOUS
<1>3. w[b] \in Int /\ load[b] - Cap \in Int /\ m \in Int /\ Multiple(w[b], m)
  BY DEF Loads, Cap
<1> DEFINE excess == load[b] - Cap
           less == unit * excess
<1>4. less \in Int /\ Multiple(less, m)
  <2>1. excess \in Int
    BY <1>3
  <2> HIDE DEF excess
  <2>2. QED
    BY <1>1, <1>3, <2>1, MultiplesTimes
<1>5. Pushed(w, load)[b] = IF load[b] > Cap THEN w[b] - less ELSE w[b]
  BY <1>2
<1> HIDE DEF less
<1>6. Multiple(w[b] - less, m)
  BY <1>3, <1>4, MultiplesAdd
<1>7. QED
  BY <1>3, <1>5, <1>6

(* What stands for 1.0 is fine enough for every iteration. *)
LEMMA OneDivides ==
  ASSUME NEW one \in Nat \ {0}, Multiple(one, 20000 * Parts[0]), NEW k \in 0 .. MaxIter
  PROVE  Multiple(one \div 20000, Parts[k]) /\ Multiple(one, Parts[k])
<1> DEFINE unit == one \div 20000
<1>1. 0 \in 0 .. MaxIter /\ 20000 \in Nat \ {0} /\ one \in Int
  BY LengthAssumption
<1>2. Parts[0] \in Int /\ Parts[k] \in Int /\ Multiple(Parts[0], Parts[k])
  BY <1>1, PartsChain
<1>3. unit \in Int /\ Multiple(unit, Parts[0]) /\ 20000 * unit = one
  BY <1>1, <1>2, ExactQuotient
<1> HIDE DEF unit
<1>4. Multiple(unit, Parts[k])
  BY <1>2, <1>3, MultiplesFollow
<1>5. Multiple(unit * 20000, Parts[k]) /\ unit * 20000 = one
  BY <1>1, <1>2, <1>3, <1>4, MultiplesTimes
<1>6. QED
  BY <1>4, <1>5 DEF unit

(* Projecting what was pushed is exact, in every iteration. *)
LEMMA PushedExact ==
  ASSUME NEW one \in Nat \ {0}, Multiple(one, 20000 * Parts[0]),
         NEW k \in 1 .. MaxIter, NEW load \in Loads, NEW w, IsShare(w, one, k - 1)
  PROVE  /\ Pushed(w, load) \in [Backends -> Int]
         /\ Divides(Pushed(w, load), one, Parts[k - 1], Parts[k])
<1>1. k - 1 \in 0 .. MaxIter /\ k \in 0 .. MaxIter
  BY LengthAssumption
<1>2. /\ w \in [Backends -> Int] /\ Total(w) = one
      /\ \A b \in Backends : Multiple(w[b], Parts[k - 1])
  BY DEF IsShare
<1>3. Parts[k - 1] \in Nat \ {0} /\ Parts[k] \in Nat \ {0}
  BY <1>1, PartsChain
<1>4. Multiple(one \div 20000, Parts[k - 1]) /\ Multiple(one, Parts[k - 1])
  BY <1>1, OneDivides
<1>5. Pushed(w, load) \in [Backends -> Int]
  BY <1>2, PushedShape
<1>6. \A b \in Backends : Multiple(Pushed(w, load)[b], Parts[k - 1])
  BY <1>2, <1>3, <1>4, PushedMultiple
<1>7. QED
  BY <1>3, <1>4, <1>5, <1>6, GrainFacts DEF Divides

(***************************************************************************)
(* One iteration shares out one again, and the violators have no more.     *)
(* If the threshold is positive nobody gains, and as the sum is the same   *)
(* nobody loses either; if it is not, those that are not violators do not  *)
(* lose.                                                                   *)
(***************************************************************************)
LEMMA IterationShares ==
  ASSUME NEW one \in Nat \ {0}, Multiple(one, 20000 * Parts[0]),
         NEW k \in 1 .. MaxIter, NEW load \in Loads, NEW w, IsShare(w, one, k - 1)
  PROVE  /\ IsShare(ProjectSimplex(Pushed(w, load), one), one, k)
         /\ ShareOf(ProjectSimplex(Pushed(w, load), one), load) <= ShareOf(w, load)
<1> DEFINE v == Pushed(w, load)
           p == ProjectSimplex(v, one)
           m == Parts[k - 1]
           d == Parts[k]
<1>1. v \in [Backends -> Int] /\ Divides(v, one, m, d)
  BY PushedExact
<1>2. w \in [Backends -> Int] /\ Total(w) = one /\ \A b \in Backends : w[b] >= 0
  BY DEF IsShare
<1>3. \A b \in Backends : v[b] <= w[b] /\ (b \notin Violators(load) => v[b] = w[b])
  <2>1. Total(w) >= 0
    BY <1>2
  <2>2. Lowers(Pushed(w, load), w, load)
    <3>1. w \in [Backends -> Int] /\ load \in Loads
      BY <1>2
    <3>2. QED
      BY ONLY <2>1, <3>1, PushedShape, Zenon
  <2>3. QED
    BY <2>2 DEF Lowers
<1> HIDE DEF v, m
<1>4. /\ Total(ProjectSimplex(v, one)) = one
      /\ \E theta \in Int : /\ Multiple(theta, d)
                            /\ ProjectSimplex(v, one) = [b \in Backends |-> AtLeast(0, v[b] - theta)]
  <2> HIDE DEF d
  <2>1. one \in Nat \ {0}
    OBVIOUS
  <2>2. QED
    BY ONLY <1>1, <2>1, SimplexExact, Zenon
<1>5. PICK theta \in Int : /\ Multiple(theta, d)
                           /\ p = [b \in Backends |-> AtLeast(0, v[b] - theta)]
  BY <1>4
<1>6. p \in [Backends -> Int] /\ Total(p) = one
  BY <1>1, <1>4, SimplexType
<1> HIDE DEF p, d
<1>7. \A b \in Backends : /\ v[b] \in Int /\ w[b] \in Int /\ p[b] \in Int /\ p[b] >= 0
                          /\ p[b] = AtLeast(0, v[b] - theta)
  BY <1>1, <1>2, <1>5, <1>6 DEF AtLeast
<1>8. IsShare(p, one, k)
  <2>1. ASSUME NEW b \in Backends
        PROVE  Multiple(p[b], d)
    <3>1. Multiple(m, d)
      <4>1. 1 \in 1 .. N /\ 1 * d = d
        BY <1>1, NAssumption DEF Divides
      <4>2. QED
        BY <1>1, <4>1 DEF Divides
    <3>2. Multiple(v[b], d)
      BY <1>1, <1>7, <3>1, MultiplesFollow DEF Divides
    <3>3. Multiple(v[b] - theta, d)
      BY <1>1, <1>5, <1>7, <3>2, MultiplesAdd DEF Divides
    <3>4. Multiple(0, d)
      BY <1>1 DEF Multiple, Divides
    <3>5. QED
      BY <1>7, <3>3, <3>4 DEF AtLeast
  <2>2. QED
    BY <1>6, <1>7, <2>1 DEF IsShare, d
<1>9. \A b \in Backends : b \notin Violators(load) => p[b] >= w[b]
  <2>1. CASE theta <= 0
    BY <1>3, <1>7, <2>1 DEF AtLeast
  <2>2. CASE theta > 0
    <3>1. \A b \in Backends : p[b] <= w[b]
      BY <1>2, <1>3, <1>7, <2>2 DEF AtLeast
    <3>2. \A b \in Backends : p[b] = w[b]
      BY <1>2, <1>6, <3>1, SumsEqual
    <3>3. QED
      BY <1>7, <3>2
  <2>3. QED
    BY <2>1, <2>2
<1> DEFINE In(x) == [b \in Backends |-> IF b \in Violators(load) THEN x[b] ELSE 0]
           Out(x) == [b \in Backends |-> IF b \in Violators(load) THEN 0 ELSE x[b]]
<1>10. ASSUME NEW x \in [Backends -> Int]
       PROVE  /\ In(x) \in [Backends -> Int] /\ Out(x) \in [Backends -> Int]
              /\ Total(x) = Total(In(x)) + Total(Out(x))
              /\ Total(In(x)) \in Int /\ Total(Out(x)) \in Int
  <2>1. In(x) \in [Backends -> Int] /\ Out(x) \in [Backends -> Int]
    OBVIOUS
  <2>2. \A b \in Backends : x[b] = In(x)[b] + Out(x)[b]
    OBVIOUS
  <2> DEFINE i == In(x)
             o == Out(x)
  <2>3. i \in [Backends -> Int] /\ o \in [Backends -> Int] /\ \A b \in Backends : x[b] = i[b] + o[b]
    BY <2>1, <2>2
  <2> HIDE DEF i, o
  <2>4. Total(x) = Total(i) + Total(o)
    BY <2>3, SumsAdd
  <2>5. Total(i) \in Int /\ Total(o) \in Int
    BY <2>3, SumsDef
  <2>6. QED
    BY <2>1, <2>4, <2>5 DEF i, o
<1>11. Total(Out(w)) <= Total(Out(p))
  <2>1. \A b \in Backends : Out(w)[b] <= Out(p)[b]
    BY <1>7, <1>9
  <2>2. Out(w) \in [Backends -> Int] /\ Out(p) \in [Backends -> Int]
    BY <1>2, <1>6, <1>10
  <2> HIDE DEF Out
  <2>3. QED
    BY <2>1, <2>2, SumsMonotone
<1> HIDE DEF Out
<1>12. ShareOf(p, load) = Total(In(p)) /\ ShareOf(w, load) = Total(In(w))
  BY DEF ShareOf
<1> HIDE DEF In
<1>13. Total(In(p)) <= Total(In(w))
  BY <1>2, <1>6, <1>10, <1>11
<1>14. QED
  BY <1>8, <1>12, <1>13 DEF p, v

(* All iterations. *)
LEMMA ProjectShares ==
  ASSUME NEW one \in Nat \ {0}, Multiple(one, 20000 * Parts[0]),
         NEW load \in Loads, NEW w, IsShare(w, one, 0)
  PROVE  /\ Project(w, load) \in [Backends -> Int] /\ Total(Project(w, load)) = one
         /\ \A b \in Backends : Project(w, load)[b] >= 0
         /\ ShareOf(Project(w, load), load) <= ShareOf(w, load)
<1> DEFINE vectors == [Backends -> Int]
           Iterate(x) == IF Violators(load) = {} THEN w
                         ELSE ProjectSimplex(Pushed(x, load), Total(w))
           F == [k \in 1 .. MaxIter |-> [x \in vectors |-> Iterate(x)]]
           Steps(s) == s = [k \in 0 .. MaxIter |->
                              IF k = 0 \/ Violators(load) = {} THEN w
                              ELSE ProjectSimplex(Pushed(s[k - 1], load), Total(w))]
           t == CHOOSE step : Steps(step)
<1>1. MaxIter \in Nat /\ w \in vectors /\ Total(w) = one
  BY LengthAssumption DEF IsShare
<1>2. \A x \in vectors : Iterate(x) \in vectors
  BY <1>1, PushedShape, SimplexType
<1>3. F \in [1 .. MaxIter -> [vectors -> vectors]]
  <2> HIDE DEF vectors, Iterate
  <2>1. QED
    BY <1>2
<1>4. PICK s : Recurs(s, MaxIter, vectors, w, F)
  <2> HIDE DEF vectors, F
  <2>1. QED
    BY ONLY <1>1, <1>3, Recursion, Zenon
<1>5. Steps(s)
  <2>1. s \in [0 .. MaxIter -> vectors] /\ s[0] = w
    BY <1>4 DEF Recurs
  <2>2. ASSUME NEW k \in 1 .. MaxIter
        PROVE  s[k] = Iterate(s[k - 1])
    <3>1. s[k - 1] \in vectors
      BY <1>1, <2>1
    <3>2. s[k] = F[k][s[k - 1]]
      BY ONLY <1>4, Zenon DEF Recurs
    <3> HIDE DEF vectors, Iterate
    <3>3. QED
      BY <3>1, <3>2
  <2>3. \A k \in 0 .. MaxIter : s[k] = IF k = 0 \/ Violators(load) = {} THEN w
                                       ELSE ProjectSimplex(Pushed(s[k - 1], load), Total(w))
    BY <2>1, <2>2
  <2>4. QED
    BY <2>1, <2>3
<1>6. Steps(t)
  <2> HIDE DEF Steps
  <2>1. t = CHOOSE step : Steps(step)
    OBVIOUS
  <2> HIDE DEF t
  <2>2. QED
    BY ONLY <1>5, <2>1, Zenon
<1>7. Project(w, load) = t[MaxIter]
  BY DEF Project
<1> HIDE DEF t
<1>8. t[0] = w /\ \A k \in 1 .. MaxIter : t[k] = Iterate(t[k - 1])
  BY <1>1, <1>6
<1>9. CASE Violators(load) = {}
  <2>1. Project(w, load) = w
    BY <1>1, <1>6, <1>7, <1>9
  <2>2. ShareOf(w, load) \in Int
    BY <1>1, ShareOfType
  <2>3. QED
    BY <1>1, <2>1, <2>2 DEF IsShare
<1>10. CASE Violators(load) # {}
  <2> DEFINE good == {k \in 0 .. MaxIter : /\ IsShare(t[k], one, k)
                                           /\ ShareOf(t[k], load) <= ShareOf(w, load)}
  <2>1. 0 \in good
    BY <1>1, <1>8, ShareOfType
  <2>2. ASSUME NEW k \in 1 .. MaxIter, k - 1 \in good
        PROVE  k \in good
    <3>1. t[k] = ProjectSimplex(Pushed(t[k - 1], load), one)
      BY <1>1, <1>8, <1>10
    <3>2. IsShare(t[k - 1], one, k - 1) /\ ShareOf(t[k - 1], load) <= ShareOf(w, load)
      BY <2>2
    <3>3. IsShare(t[k], one, k) /\ ShareOf(t[k], load) <= ShareOf(t[k - 1], load)
      BY <3>1, <3>2, IterationShares
    <3>4. t[k] \in vectors /\ t[k - 1] \in vectors
      BY <3>2, <3>3 DEF IsShare
    <3>5. ShareOf(t[k], load) \in Int /\ ShareOf(t[k - 1], load) \in Int /\ ShareOf(w, load) \in Int
      BY <1>1, <3>4, ShareOfType
    <3>6. ShareOf(t[k], load) <= ShareOf(w, load)
      BY <3>2, <3>3, <3>5
    <3>7. QED
      BY <1>1, <3>3, <3>6
  <2>3. \A k \in 0 .. MaxIter : k \in good
    <3> HIDE DEF good
    <3>1. QED
      BY <1>1, <2>1, <2>2, UpTo
  <2>4. MaxIter \in good
    BY <1>1, <2>3
  <2>5. QED
    BY <1>7, <2>4 DEF IsShare
<1>11. QED
  BY <1>9, <1>10

(***************************************************************************)
(* What a decision is.                                                     *)
(***************************************************************************)

DecisionOK(d) ==
  /\ d.load \in Loads
  /\ d.one \in Nat \ {0} /\ Multiple(d.one, 20000 * Parts[0])
  /\ IsShare(d.raw, d.one, 0)
  /\ d.weights = Project(d.raw, d.load)

LEMMA DecisionShares ==
  ASSUME DecisionOK(decision)
  PROVE  /\ decision.weights \in [Backends -> Int]
         /\ WeightsAreShares
         /\ OverloadedLoseWeight
<1>1. /\ decision.load \in Loads
      /\ decision.one \in Nat \ {0} /\ Multiple(decision.one, 20000 * Parts[0])
      /\ IsShare(decision.raw, decision.one, 0)
      /\ decision.weights = Project(decision.raw, decision.load)
  BY DEF DecisionOK
<1>2. /\ decision.weights \in [Backends -> Int] /\ Total(decision.weights) = decision.one
      /\ \A b \in Backends : decision.weights[b] >= 0
      /\ ShareOf(decision.weights, decision.load) <= ShareOf(decision.raw, decision.load)
  BY <1>1, ProjectShares
<1>3. WeightsAreShares
  BY <1>1, <1>2 DEF WeightsAreShares
<1>4. OverloadedLoseWeight
  BY <1>2 DEF OverloadedLoseWeight, ShareOf
<1>5. QED
  BY <1>2, <1>3, <1>4

LEMMA DecisionNearest ==
  ASSUME DecisionOK(decision)
  PROVE  ProjectionIsNearest
<1> DEFINE raw == decision.raw
           load == decision.load
           one == decision.one
           v == Pushed(raw, load)
           far == [b \in Backends |-> IF b = 0 THEN v[b] - one ELSE v[b]]
           m == Parts[0]
           d == Parts[1]
<1>1. one \in Nat \ {0} /\ v \in [Backends -> Int] /\ Divides(v, one, m, d)
  <2>1. 1 \in 1 .. MaxIter /\ 1 - 1 = 0
    BY LengthAssumption
  <2>2. /\ load \in Loads /\ one \in Nat \ {0} /\ Multiple(one, 20000 * Parts[0])
        /\ IsShare(raw, one, 1 - 1)
    BY <2>1 DEF DecisionOK
  <2> HIDE DEF raw, load, one
  <2>3. v \in [Backends -> Int] /\ Divides(v, one, Parts[1 - 1], Parts[1])
    BY <2>1, <2>2, PushedExact
  <2>4. QED
    BY <2>1, <2>2, <2>3
<1> HIDE DEF raw, load, one, v, m, d
<1>2. far \in [Backends -> Int]
  BY <1>1
<1>3. Divides(far, one, m, d)
  <2>1. \A b \in Backends : Multiple(v[b], m) /\ v[b] \in Int
    BY <1>1 DEF Divides
  <2>2. Multiple(one, m) /\ m \in Int /\ one \in Int
    BY <1>1 DEF Divides
  <2>3. \A b \in Backends : Multiple(v[b] - one, m)
    BY <2>1, <2>2, MultiplesAdd
  <2>4. \A b \in Backends : Multiple(far[b], m)
    BY <2>1, <2>3
  <2> HIDE DEF far
  <2>5. QED
    BY <1>1, <2>4 DEF Divides
<1>4. Nearest(v, one)
  BY <1>1, SimplexNearest
<1>5. Nearest(far, one)
  <2> HIDE DEF far
  <2>1. QED
    BY <1>1, <1>2, <1>3, SimplexNearest
<1>6. QED
  BY <1>4, <1>5, Zenon DEF ProjectionIsNearest, v, far, raw, load, one

(* The weights the projection starts from share out a multiple of Grain. *)
LEMMA NormalisedShares ==
  ASSUME NEW raw \in [Backends -> Nat]
  PROVE  LET start == Normalised(raw)
         IN  /\ Total(start) \in Nat \ {0} /\ Multiple(Total(start), Grain)
             /\ Multiple(Total(start), 20000 * Parts[0])
             /\ IsShare(start, Total(start), 0)
<1> DEFINE start == Normalised(raw)
           some == Total(raw) > 0
<1>1. Grain \in Nat \ {0} /\ Parts[0] \in Nat \ {0} /\ Multiple(Grain, 20000 * Parts[0])
  <2>1. 0 \in 0 .. MaxIter
    BY LengthAssumption
  <2>2. QED
    BY <2>1, GrainFacts
<1>2. start = [b \in Backends |-> Grain * (IF some THEN raw[b] ELSE 1)]
  BY DEF Normalised
<1> HIDE DEF start, some
<1>3. \A b \in Backends : /\ start[b] \in Nat /\ Multiple(start[b], Grain)
                          /\ (IF some THEN raw[b] ELSE 1) > 0 => start[b] > 0
  <2> SUFFICES ASSUME NEW b \in Backends
               PROVE  /\ start[b] \in Nat /\ Multiple(start[b], Grain)
                      /\ (IF some THEN raw[b] ELSE 1) > 0 => start[b] > 0
    OBVIOUS
  <2> DEFINE x == IF some THEN raw[b] ELSE 1
  <2>1. x \in Nat /\ start[b] = Grain * x
    BY <1>2
  <2> HIDE DEF x
  <2>2. \A y, z \in Nat : y * z \in Nat /\ (y > 0 /\ z > 0 => y * z > 0)
    OBVIOUS
  <2>3. start[b] \in Nat /\ (x > 0 => start[b] > 0)
    BY <1>1, <2>1, <2>2
  <2>4. Multiple(start[b], Grain)
    BY <2>1 DEF Multiple
  <2>5. QED
    BY <2>3, <2>4 DEF x
<1>4. start \in [Backends -> Int] /\ raw \in [Backends -> Int]
  BY <1>2, <1>3
<1>5. \E b \in Backends : start[b] > 0
  <2>1. CASE some
    <3>1. ~\A b \in Backends : raw[b] = 0
      BY <1>4, <2>1, SumsZero DEF some
    <3>2. QED
      BY <1>3, <2>1, <3>1
  <2>2. CASE ~some
    <3>1. 0 \in Backends
      BY NAssumption DEF Backends
    <3>2. QED
      BY <1>3, <2>2, <3>1
  <2>3. QED
    BY <2>1, <2>2
<1>6. Total(start) > 0 /\ Total(start) \in Int
  BY <1>3, <1>4, <1>5, SumsZero, SumsDef
<1>7. Multiple(Total(start), Grain)
  <2>1. N \in 0 .. N
    BY NAssumption
  <2>2. Multiple(Sums(start)[N], Grain)
    BY <1>1, <1>3, <1>4, <2>1, SumsMultiple
  <2>3. QED
    BY <2>2 DEF Total
<1>8. \A x \in Int : Multiple(x, Grain) => Multiple(x, 20000 * Parts[0]) /\ Multiple(x, Parts[0])
  <2> DEFINE m == 20000 * Parts[0]
  <2>1. m \in Int /\ Parts[0] \in Int /\ Grain \in Int /\ m = Parts[0] * 20000 /\ 20000 \in Int
    BY <1>1
  <2>2. Multiple(m, Parts[0])
    <3>1. \E z \in Int : m = Parts[0] * z
      BY <2>1
    <3>2. QED
      BY <3>1 DEF Multiple
  <2>3. Multiple(Grain, m)
    BY <1>1
  <2> HIDE DEF m
  <2>4. \A x \in Int : Multiple(x, Grain) => Multiple(x, m) /\ Multiple(x, Parts[0])
    BY <2>1, <2>2, <2>3, MultiplesFollow
  <2>5. QED
    BY <2>4 DEF m
<1>9. IsShare(start, Total(start), 0)
  <2>1. \A b \in Backends : start[b] >= 0 /\ Multiple(start[b], Parts[0])
    BY <1>3, <1>8
  <2>2. QED
    BY <1>4, <2>1 DEF IsShare
<1>10. QED
  BY <1>6, <1>7, <1>8, <1>9 DEF start

(***************************************************************************)
(* KANInference, the vnode counts and the history.                         *)
(***************************************************************************)

LEMMA InferType ==
  ASSUME NEW column \in [Backends -> Measurement], NEW raw \in Infer(column)
  PROVE  raw \in [Backends -> Nat]
<1>1. InferSymbolic(column) \in [Backends -> Nat]
  <2>1. \A m \in Measurement : Preference(m) \in Nat
    BY DEF Measurement, Preference, AtLeast
  <2>2. [b \in Backends |-> IF health[b] THEN Preference(column[b]) ELSE 0] \in [Backends -> Nat]
    BY <2>1
  <2> HIDE DEF Preference
  <2>3. QED
    BY <2>2 DEF InferSymbolic
<1>2. \A o \in Outputs : InferOnnx(o) \in [Backends -> Nat]
  <2> SUFFICES ASSUME NEW o \in Outputs
               PROVE  InferOnnx(o) \in [Backends -> Nat]
    OBVIOUS
  <2>1. \A b \in Backends : AtLeast(0, o[b]) \in Nat
    BY OutputsAssumption DEF AtLeast
  <2>2. [b \in Backends |-> IF health[b] THEN AtLeast(0, o[b]) ELSE 0] \in [Backends -> Nat]
    BY <2>1
  <2>3. QED
    BY <2>2 DEF InferOnnx
<1>3. QED
  BY <1>1, <1>2 DEF Infer

(* set_vnodes keeps every count between its clamps. *)
LEMMA VnodeRanges ==
  /\ \A one \in Nat \ {0}, w \in Int :
       Multiple(one, 150 * N) => VnodeCount(w, one) \in 10 .. 300
  /\ \A c \in 10 .. 300 : Shrunk(c) \in 10 .. 300 /\ Restored(c) \in 10 .. 300
<1>1. \A c \in Int : Clamp(c) \in 10 .. 300
  BY DEF Clamp, AtLeast, AtMost
<1>2. ASSUME NEW one \in Nat \ {0}, NEW w \in Int, Multiple(one, 150 * N)
      PROVE  VnodeCount(w, one) \in 10 .. 300
  <2> DEFINE m == 150 * N
             unit == one \div m
  <2>1. m \in Nat \ {0} /\ one \in Int /\ Multiple(one, m * 1) /\ 1 \in Int
    BY <1>2, NAssumption
  <2> HIDE DEF m
  <2>2. unit \in Int /\ m * unit = one
    BY <2>1, ExactQuotient
  <2> HIDE DEF unit
  <2>3. unit > 0
    <3>1. m * 0 = 0 /\ one > 0
      BY <2>1
    <3>2. QED
      BY <2>1, <2>2, <3>1, ProductOrder
  <2>4. AtLeast(10, w \div unit) \in Int
    BY <2>2, <2>3 DEF AtLeast
  <2>5. QED
    BY <1>1, <2>4 DEF VnodeCount, unit, m
<1>3. ASSUME NEW c \in 10 .. 300
      PROVE  Shrunk(c) \in 10 .. 300 /\ Restored(c) \in 10 .. 300
  <2>1. AtLeast(50, (c * 97) \div 100) \in Int /\ (c * 99 + 150) \div 100 \in Int
    BY DEF AtLeast
  <2>2. QED
    BY <1>1, <2>1 DEF Shrunk, Restored
<1>4. QED
  BY <1>2, <1>3

(* A column made of three histories consists of measurements. *)
LEMMA ColumnType ==
  ASSUME NEW x \in Loads, NEW y \in Loads, NEW z \in Loads
  PROVE  Column(x, y, z) \in [Backends -> Measurement]
<1>1. \A b \in Backends : x[b] \in Nat /\ y[b] \in Nat /\ z[b] \in Nat
  BY DEF Loads
<1>2. \A b \in Backends : [load |-> x[b], lat |-> y[b], err |-> z[b]] \in Measurement
  BY <1>1 DEF Measurement
<1>3. QED
  BY <1>2 DEF Column

(* What a sample has measured of a backend. *)
LEMMA SampleType ==
  ASSUME NEW column \in Columns, NEW b \in Backends, NEW m \in Metrics
  PROVE  column[b][m] \in Nat
<1>1. column[b] \in Measurement
  BY ColumnsAssumption
<1>2. column[b].load \in Nat /\ column[b].lat \in Nat /\ column[b].err \in Nat
  BY <1>1 DEF Measurement
<1>3. QED
  BY <1>2 DEF Metrics

(***************************************************************************)
(* The inductive invariant of the loop.                                    *)
(***************************************************************************)

History == {h \in Seq(Loads) : Len(h) = HistoryLen}

(* A tick under way has a sample and a history to assign to. *)
Ticks == [sample : Columns, row : 0 .. N, of : Metrics]
TickOK == tick \in Ticks \cup {Idle}

ControlIInv ==
  /\ hist \in [Metrics -> History]
  /\ TickOK
  /\ health \in [Backends -> BOOLEAN]
  /\ model \in {"symbolic", "onnx"}
  /\ ctl \in ControlSteps
  /\ seen \in [load : Loads, lat : Loads]
  /\ vnodes \in [Backends -> 10 .. 300]
  /\ DecisionOK(decision)

(* Before its first decision the loop holds equal weights. *)
LEMMA NoDecisionOK == DecisionOK(NoDecision)
<1> DEFINE ones == [b \in Backends |-> 1]
           start == Normalised(ones)
<1>1. ones \in [Backends -> Nat]
  OBVIOUS
<1>2. /\ Total(start) \in Nat \ {0} /\ Multiple(Total(start), 20000 * Parts[0])
      /\ IsShare(start, Total(start), 0)
  <2> HIDE DEF ones
  <2>1. QED
    BY <1>1, NormalisedShares
<1>3. start = Even
  <2>1. \A b \in Backends : Grain * ones[b] = Grain /\ Grain * 1 = Grain
    BY GrainFacts
  <2>2. start = [b \in Backends |-> Grain * (IF Total(ones) > 0 THEN ones[b] ELSE 1)]
    BY DEF Normalised
  <2>3. QED
    BY <2>1, <2>2 DEF Even
<1> HIDE DEF start
<1>4. NoLoad \in Loads
  BY DEF NoLoad, Loads
<1>5. Project(Even, NoLoad) = Even
  <2>1. Violators(NoLoad) = {}
    BY DEF Violators, NoLoad, Cap
  <2> DEFINE Steps(s) == s = [k \in 0 .. MaxIter |->
                                IF k = 0 \/ Violators(NoLoad) = {} THEN Even
                                ELSE ProjectSimplex(Pushed(s[k - 1], NoLoad), Total(Even))]
             t == CHOOSE step : Steps(step)
  <2>2. Steps([k \in 0 .. MaxIter |-> Even])
    BY <2>1
  <2>3. Steps(t)
    <3> HIDE DEF Steps
    <3>1. t = CHOOSE step : Steps(step)
      OBVIOUS
    <3> HIDE DEF t
    <3>2. QED
      BY ONLY <2>2, <3>1, Zenon
  <2>4. Project(Even, NoLoad) = t[MaxIter]
    BY DEF Project
  <2>5. MaxIter \in 0 .. MaxIter
    BY LengthAssumption
  <2> HIDE DEF t
  <2>6. QED
    BY <2>1, <2>3, <2>4, <2>5
<1>6. QED
  BY <1>2, <1>3, <1>4, <1>5 DEF DecisionOK, NoDecision

LEMMA ControlInit == Init => ControlIInv
<1> SUFFICES ASSUME Init
             PROVE  ControlIInv
  OBVIOUS
<1>1. NoLoad \in Loads
  BY DEF NoLoad, Loads
<1>2. [k \in 1 .. HistoryLen |-> NoLoad] \in History
  BY <1>1, LengthAssumption DEF History
<1>3. hist \in [Metrics -> History]
  BY <1>2 DEF Init
<1>4. DecisionOK(decision)
  BY NoDecisionOK DEF Init
<1>5. TickOK
  BY DEF Init, TickOK
<1>6. /\ health \in [Backends -> BOOLEAN] /\ model \in {"symbolic", "onnx"}
      /\ ctl \in ControlSteps /\ seen \in [load : Loads, lat : Loads]
  BY <1>1 DEF Init, Load, ControlSteps, NotRead
<1>7. vnodes \in [Backends -> 10 .. 300]
  BY DEF Init
<1>8. QED
  BY <1>3, <1>4, <1>5, <1>6, <1>7, Zenon DEF ControlIInv

(* Rolling and filling keep the length of a history and its type. *)
LEMMA HistoryRolls ==
  ASSUME NEW h \in History
  PROVE  /\ h[HistoryLen] \in Loads
         /\ Rolled(h) \in History
         /\ \A b \in Backends, v \in Nat : [h EXCEPT ![HistoryLen][b] = v] \in History
<1>1. HistoryLen \in Nat /\ HistoryLen >= 1
  BY LengthAssumption
<1>2. h \in Seq(Loads) /\ Len(h) = HistoryLen /\ h # << >>
  BY <1>1 DEF History
<1>3. HistoryLen \in 1 .. Len(h) /\ h[HistoryLen] \in Loads
  BY <1>1, <1>2
<1>4. \A b \in Backends, v \in Nat : [h[HistoryLen] EXCEPT ![b] = v] \in Loads
  BY <1>3 DEF Loads
<1>5. \A c \in Loads : [h EXCEPT ![HistoryLen] = c] \in Seq(Loads)
                       /\ Len([h EXCEPT ![HistoryLen] = c]) = HistoryLen
  <2> HIDE DEF Loads
  <2>1. QED
    BY <1>1, <1>2, <1>3
<1>6. \A b \in Backends, v \in Nat :
        [h EXCEPT ![HistoryLen][b] = v] = [h EXCEPT ![HistoryLen] = [h[HistoryLen] EXCEPT ![b] = v]]
  OBVIOUS
<1>7. \A b \in Backends, v \in Nat : [h EXCEPT ![HistoryLen][b] = v] \in History
  BY <1>4, <1>5, <1>6 DEF History
<1> HIDE DEF Loads
<1>8. Head(h) \in Loads /\ Tail(h) \in Seq(Loads) /\ Len(Tail(h)) = HistoryLen - 1
  BY <1>1, <1>2
<1>9. Rolled(h) \in Seq(Loads) /\ Len(Rolled(h)) = HistoryLen
  BY <1>1, <1>8 DEF Rolled
<1>10. QED
  BY <1>3, <1>7, <1>9 DEF History

(* A tick goes on to another history and another row. *)
LEMMA TickGoesOn ==
  ASSUME NEW t \in Ticks, NEW m \in Metrics, NEW r \in 0 .. N
  PROVE  [t EXCEPT !.of = m] \in Ticks /\ [t EXCEPT !.row = r, !.of = m] \in Ticks
BY DEF Ticks

LEMMA ControlStep == ControlIInv /\ [Next]_vars => ControlIInv'
<1> SUFFICES ASSUME ControlIInv, [Next]_vars
             PROVE  ControlIInv'
  OBVIOUS
<1> USE DEF ControlIInv
<1>0. \A m \in Metrics : hist[m] \in History /\ hist[m][HistoryLen] \in Loads
                        /\ Rolled(hist[m]) \in History
  BY HistoryRolls
<1>1. NoLoad \in Loads
  BY DEF NoLoad, Loads
<1>2. CASE Sample
  <2>1. hist' \in [Metrics -> History]
    BY <1>0, <1>2 DEF Sample, Metrics
  <2>2. TickOK'
    <3>1. PICK column \in Columns : tick' = [Idle EXCEPT !.sample = column, !.of = "load"]
      BY <1>2 DEF Sample
    <3>2. tick' = [sample |-> column, row |-> N, of |-> "load"]
      BY <3>1 DEF Idle, Rolling
    <3>3. tick' \in Ticks
      BY <3>2, NAssumption DEF Ticks, Metrics
    <3>4. QED
      BY <3>3 DEF TickOK
  <2>3. QED
    BY <1>2, <2>1, <2>2 DEF Sample
<1>3. CASE Roll
  <2>1. tick \in Ticks
    BY <1>3 DEF Roll, TickOK
  <2>2. tick.of \in Metrics
    BY <2>1 DEF Ticks
  <2>3. hist' \in [Metrics -> History]
    BY <1>0, <1>3, <2>2 DEF Roll
  <2>4. tick' \in Ticks
    <3>1. "err" \in Metrics /\ "lat" \in Metrics /\ 0 \in 0 .. N
      BY NAssumption DEF Metrics
    <3>2. \/ tick' = [tick EXCEPT !.of = "err"]
          \/ tick' = [tick EXCEPT !.row = 0, !.of = "lat"]
      BY <1>3 DEF Roll
    <3>3. /\ [tick EXCEPT !.of = "err"] \in Ticks
          /\ [tick EXCEPT !.row = 0, !.of = "lat"] \in Ticks
      BY ONLY <2>1, <3>1, TickGoesOn, Zenon
    <3>4. QED
      BY <3>2, <3>3
  <2>5. QED
    BY <1>3, <2>3, <2>4 DEF Roll, TickOK
<1>10. CASE Fill
  <2>1. tick \in Ticks /\ tick.row \in Backends
    BY <1>10, NAssumption DEF Fill, TickOK, Idle, Rolling, Backends
  <2>8. tick.sample \in Columns /\ tick.of \in Metrics /\ tick.row \in Nat
    BY <2>1 DEF Ticks
  <2>2. tick.sample[tick.row][tick.of] \in Nat
    BY <2>1, <2>8, SampleType
  <2>3. [hist[tick.of] EXCEPT ![HistoryLen][tick.row] = tick.sample[tick.row][tick.of]]
          \in History
    BY <1>0, <2>1, <2>2, <2>8, HistoryRolls
  <2>4. hist' = [hist EXCEPT ![tick.of] =
                   [hist[tick.of] EXCEPT ![HistoryLen][tick.row] =
                      tick.sample[tick.row][tick.of]]]
    BY <1>10 DEF Fill
  <2>5. hist' \in [Metrics -> History]
    BY <2>3, <2>4, <2>8
  <2>6. tick' \in Ticks \cup {Idle}
    <3>1. CASE tick.of # "err"
      <4>1. After[tick.of] \in Metrics /\ tick' = [tick EXCEPT !.of = After[tick.of]]
        BY <1>10, <2>8, <3>1 DEF Fill, Metrics, After
      <4>2. 0 \in 0 .. N
        BY NAssumption
      <4>3. QED
        BY <2>1, <4>1, <4>2, TickGoesOn
    <3>2. CASE tick.of = "err" /\ tick.row + 1 \in Backends
      <4>1. "lat" \in Metrics /\ tick.row + 1 \in 0 .. N
        BY <3>2, NAssumption DEF Metrics, Backends
      <4>2. tick' = [tick EXCEPT !.row = tick.row + 1, !.of = "lat"]
        BY <1>10, <3>2 DEF Fill
      <4>3. QED
        BY <2>1, <4>1, <4>2, TickGoesOn
    <3>3. CASE tick.of = "err" /\ tick.row + 1 \notin Backends
      BY <1>10, <3>3 DEF Fill
    <3>4. QED
      BY <3>1, <3>2, <3>3
  <2>7. QED
    BY <1>10, <2>5, <2>6 DEF Fill, TickOK
<1>11. CASE Read
  <2>1. seen' \in [load : Loads, lat : Loads]
    BY <1>0, <1>1, <1>11 DEF Read, NotRead, Metrics
  <2>2. QED
    BY <1>11, <2>1 DEF Read, TickOK, ControlSteps
<1>12. CASE ReadLatencies
  <2>1. seen' \in [load : Loads, lat : Loads]
    BY <1>0, <1>12 DEF ReadLatencies, Metrics
  <2>2. QED
    BY <1>12, <2>1 DEF ReadLatencies, TickOK, ControlSteps
<1>4. CASE Decide
  <2> DEFINE column == Column(seen.load, seen.lat, hist.err[HistoryLen])
  <2>1. column \in [Backends -> Measurement]
    BY <1>0, ColumnType DEF Metrics
  <2>2. PICK raw \in Infer(column) :
          LET start == Normalised(raw)
              one == Total(start)
              weights == Project(start, seen.load)
          IN  /\ decision' = [raw |-> start, load |-> seen.load, one |-> one,
                              weights |-> weights]
              /\ vnodes' = [b \in Backends |-> VnodeCount(weights[b], one)]
    BY <1>4 DEF Decide
  <2> HIDE DEF column
  <2> DEFINE start == Normalised(raw)
             one == Total(start)
             weights == Project(start, seen.load)
  <2>3. raw \in [Backends -> Nat]
    BY <2>1, <2>2, InferType
  <2>4. /\ one \in Nat \ {0} /\ Multiple(one, Grain) /\ Multiple(one, 20000 * Parts[0])
        /\ IsShare(start, one, 0)
    BY <2>3, NormalisedShares
  <2>5. decision' = [raw |-> start, load |-> seen.load, one |-> one, weights |-> weights]
    BY <2>2
  <2>6. vnodes' = [b \in Backends |-> VnodeCount(weights[b], one)]
    BY <2>2
  <2> HIDE DEF start, one
  <2>7. DecisionOK(decision')
    BY <2>4, <2>5 DEF DecisionOK
  <2>8. weights \in [Backends -> Int]
    BY <2>4, ProjectShares
  <2>9. Multiple(one, 150 * N)
    <3>1. 150 * N \in Int /\ Grain \in Int /\ Multiple(Grain, 150 * N) /\ one \in Int
      BY <2>4, NAssumption, GrainFacts
    <3> DEFINE m == 150 * N
    <3> HIDE DEF m
    <3>2. m \in Int /\ Multiple(Grain, m)
      BY <3>1 DEF m
    <3>3. Multiple(one, m)
      BY <2>4, <3>1, <3>2, MultiplesFollow
    <3>4. QED
      BY <3>3 DEF m
  <2> HIDE DEF weights
  <2>10. vnodes' \in [Backends -> 10 .. 300]
    <3>1. \A b \in Backends : weights[b] \in Int
      BY <2>8
    <3>2. \A b \in Backends : VnodeCount(weights[b], one) \in 10 .. 300
      <4> SUFFICES ASSUME NEW b \in Backends
                   PROVE  VnodeCount(weights[b], one) \in 10 .. 300
        OBVIOUS
      <4>1. one \in Nat \ {0} /\ weights[b] \in Int
        BY <2>4, <3>1
      <4>2. QED
        BY ONLY <4>1, <2>9, VnodeRanges, Zenon
    <3> HIDE DEF VnodeCount
    <3>3. QED
      BY <2>6, <3>2
  <2>11. seen' \in [load : Loads, lat : Loads]
    BY <1>1, <1>4 DEF Decide, NotRead
  <2>12. QED
    BY <1>4, <2>7, <2>10, <2>11 DEF Decide, TickOK, ControlSteps
<1>5. CASE Restore
  <2>1. vnodes' \in [Backends -> 10 .. 300]
    BY <1>5, VnodeRanges DEF Restore
  <2>2. DecisionOK(decision')
    BY <1>5, NoDecisionOK DEF Restore
  <2>3. QED
    BY <1>5, <2>1, <2>2 DEF Restore, TickOK, ControlSteps
<1>13. CASE Rise
  <2>1. DecisionOK(decision')
    BY <1>13, NoDecisionOK DEF Rise
  <2>2. QED
    BY <1>13, <2>1 DEF Rise, TickOK, ControlSteps
<1>14. CASE Shrink
  <2>1. vnodes' \in [Backends -> 10 .. 300]
    BY <1>14, VnodeRanges DEF Shrink
  <2>2. QED
    BY <1>14, <2>1 DEF Shrink, TickOK, ControlSteps
<1>6. CASE Reload
  BY <1>6 DEF Reload, TickOK
<1>7. CASE \E b \in Backends : HealthChange(b)
  BY <1>7 DEF HealthChange, TickOK
<1>8. CASE UNCHANGED vars
  BY <1>8 DEF vars, TickOK
<1>9. QED
  BY <1>2, <1>3, <1>4, <1>5, <1>6, <1>7, <1>8, <1>10, <1>11, <1>12, <1>13, <1>14 DEF Next

(***************************************************************************)
(* What the loop holds between its parts: histories of the right length,   *)
(* clamped vnode counts, and a decision that is the projection of shares.  *)
(***************************************************************************)
THEOREM ControlTypeCorrect == Spec => []ControlIInv
<1>1. Init => ControlIInv
  BY ControlInit
<1>2. ControlIInv /\ [Next]_vars => ControlIInv'
  BY ControlStep
<1>3. QED
  BY <1>1, <1>2, PTL DEF Spec

(***************************************************************************)
(* What the ring gets are shares of one, none of them negative, and vnode  *)
(* counts between the clamps of set_vnodes: whatever the backends measure, *)
(* the network returns and set_health did in between (kan_inference.py,    *)
(* CBFProjector, HAring.set_vnodes).                                       *)
(***************************************************************************)
THEOREM ControlSafe == Spec => []ControlInv
<1>1. ControlIInv => ControlInv
  <2> SUFFICES ASSUME ControlIInv
               PROVE  ControlInv
    OBVIOUS
  <2>1. WeightsAreShares
    BY DecisionShares DEF ControlIInv
  <2>2. \A m \in Metrics : DOMAIN hist[m] = 1 .. HistoryLen
    BY DEF ControlIInv, History
  <2>3. QED
    BY <2>1, <2>2 DEF ControlInv, ControlTypeOK, ControlIInv, TickOK, Ticks, Idle
<1>2. QED
  BY <1>1, ControlTypeCorrect, PTL

(* What KAN returns has mass and none of it on a backend that is down, when  *)
(* another one is up.                                                         *)
Shuns(w) ==
  (\E b \in Backends : health[b]) =>
    Total(w) > 0 /\ \A b \in Backends : ~health[b] => w[b] = 0

LEMMA UpFlagsShun == Shuns([b \in Backends |-> IF health[b] THEN 1 ELSE 0])
<1> DEFINE flags == [b \in Backends |-> IF health[b] THEN 1 ELSE 0]
<1>1. flags \in [Backends -> Int] /\ \A b \in Backends : flags[b] >= 0
  OBVIOUS
<1>2. /\ \A b \in Backends : ~health[b] => flags[b] = 0
      /\ (\E b \in Backends : health[b]) => \E b \in Backends : flags[b] > 0
  OBVIOUS
<1> HIDE DEF flags
<1>3. (\E b \in Backends : health[b]) => Total(flags) > 0
  BY <1>1, <1>2, SumsZero
<1>4. QED
  BY <1>2, <1>3 DEF Shuns, flags

LEMMA InferShuns ==
  ASSUME NEW column \in [Backends -> Measurement], NEW raw \in Infer(column)
  PROVE  Shuns(raw)
<1>1. Shuns(InferSymbolic(column))
  <2> DEFINE w == [b \in Backends |-> IF health[b] THEN Preference(column[b]) ELSE 0]
  <2>1. \A b \in Backends : ~health[b] => w[b] = 0
    OBVIOUS
  <2>2. InferSymbolic(column) =
          IF Total(w) > 0 THEN w
          ELSE IF \E b \in Backends : health[b]
          THEN [b \in Backends |-> IF health[b] THEN 1 ELSE 0]
          ELSE [b \in Backends |-> 1]
    BY DEF InferSymbolic
  <2> HIDE DEF w
  <2>3. CASE Total(w) > 0
    BY <2>1, <2>2, <2>3 DEF Shuns
  <2>4. CASE ~(Total(w) > 0) /\ \E b \in Backends : health[b]
    BY <2>2, <2>4, UpFlagsShun
  <2>5. CASE ~(\E b \in Backends : health[b])
    BY <2>5 DEF Shuns
  <2>6. QED
    BY <2>3, <2>4, <2>5
<1>2. ASSUME NEW o \in Outputs
      PROVE  Shuns(InferOnnx(o))
  <2> DEFINE w == [b \in Backends |-> IF health[b] THEN AtLeast(0, o[b]) ELSE 0]
  <2>1. \A b \in Backends : ~health[b] => w[b] = 0
    OBVIOUS
  <2>2. InferOnnx(o) = IF Total(w) > 0 THEN w
                       ELSE [b \in Backends |-> IF health[b] THEN 1 ELSE 0]
    BY DEF InferOnnx
  <2> HIDE DEF w
  <2>3. CASE Total(w) > 0
    BY <2>1, <2>2, <2>3 DEF Shuns
  <2>4. CASE ~(Total(w) > 0)
    BY <2>2, <2>4, UpFlagsShun
  <2>5. QED
    BY <2>3, <2>4
<1>3. QED
  BY <1>1, <1>2 DEF Infer

(***************************************************************************)
(* While one backend is up KAN gives nothing to those that are down: the   *)
(* fallbacks of both paths (_infer_symbolic, _infer_onnx) know the health, *)
(* and the equal parts of _project_full are never needed then.             *)
(***************************************************************************)
THEOREM DownTheorem == Spec => []DownGetNothing
<1>1. Init => DownGetNothing
  BY DEF Init, DownGetNothing
<1>2. ControlIInv /\ DownGetNothing /\ [Next]_vars => DownGetNothing'
  <2> SUFFICES ASSUME ControlIInv, DownGetNothing, [Next]_vars
               PROVE  DownGetNothing'
    OBVIOUS
  <2>1. CASE Decide
    <3> DEFINE column == Column(seen.load, seen.lat, hist.err[HistoryLen])
    <3>1. column \in [Backends -> Measurement]
      <4>1. hist.err \in History /\ seen.load \in Loads /\ seen.lat \in Loads
        BY DEF ControlIInv, Metrics
      <4>2. hist.err[HistoryLen] \in Loads
        BY <4>1, HistoryRolls
      <4>3. QED
        BY <4>1, <4>2, ColumnType
    <3>2. PICK raw \in Infer(column) : decision'.raw = Normalised(raw)
      BY <2>1 DEF Decide
    <3>3. health' = health
      BY <2>1 DEF Decide
    <3> HIDE DEF column
    <3>4. Shuns(raw) /\ raw \in [Backends -> Nat]
      BY <3>1, <3>2, InferShuns, InferType
    <3>5. ASSUME NEW b \in Backends, ~health[b], \E c \in Backends : health[c]
          PROVE  decision'.raw[b] = 0
      <4>1. Total(raw) > 0 /\ raw[b] = 0
        BY <3>4, <3>5 DEF Shuns
      <4>2. Normalised(raw)[b] = Grain * 0
        BY <4>1 DEF Normalised
      <4>3. Grain * 0 = 0
        BY GrainFacts
      <4>4. QED
        BY <3>2, <4>2, <4>3
    <3>6. QED
      BY <3>3, <3>5 DEF DownGetNothing
  <2>2. CASE ctl' # "proactive"
    BY <2>2 DEF DownGetNothing
  <2>3. CASE UNCHANGED <<ctl, health, decision>>
    BY <2>3 DEF DownGetNothing
  <2>4. Decide \/ ctl' # "proactive" \/ UNCHANGED <<ctl, health, decision>>
    BY DEF Next, vars, Sample, Roll, Fill, Read, ReadLatencies, Restore, Rise, Shrink,
           Reload, HealthChange
  <2>5. QED
    BY <2>1, <2>2, <2>3, <2>4
<1>3. QED
  BY <1>1, <1>2, ControlTypeCorrect, PTL DEF Spec

(***************************************************************************)
(* What _project_simplex returns is the nearest point of the simplex, for  *)
(* what it is given in the loop of _project_full and for a vector with a   *)
(* component far outside.                                                  *)
(***************************************************************************)
THEOREM ProjectionNearest == Spec => []ProjectionIsNearest
<1>1. ControlIInv => ProjectionIsNearest
  BY DecisionNearest DEF ControlIInv
<1>2. QED
  BY <1>1, ControlTypeCorrect, PTL

(***************************************************************************)
(* Together the overloaded backends never end with more weight than KAN    *)
(* gave them, however often the projection iterates.                       *)
(***************************************************************************)
THEOREM OverloadedLose == Spec => []OverloadedLoseWeight
<1>1. ControlIInv => OverloadedLoseWeight
  BY DecisionShares DEF ControlIInv
<1>2. QED
  BY <1>1, ControlTypeCorrect, PTL

(***************************************************************************)
(* The violation log. b ends with a:                                       *)
(***************************************************************************)

Ends(a, b) ==
  /\ Len(a) <= Len(b)
  /\ \A i \in 1 .. Len(a) : a[i] = b[Len(b) - Len(a) + i]

LEMMA EventsType ==
  ASSUME NEW fired
  PROVE  Events(fired) \in Seq(Backends)
<1> DEFINE logs == Seq(Backends)
           Longer(k, x) == IF k - 1 \in fired THEN Append(x, k - 1) ELSE x
           F == [k \in 1 .. N |-> [x \in logs |-> Longer(k, x)]]
           Entry(s, k) == IF k = 0 THEN <<>>
                          ELSE IF k - 1 \in fired THEN Append(s[k - 1], k - 1)
                          ELSE s[k - 1]
           Steps(s) == s = [k \in 0 .. N |-> Entry(s, k)]
           t == CHOOSE logged : Steps(logged)
<1>1. N \in Nat /\ <<>> \in logs
  BY NAssumption
<1>2. \A k \in 1 .. N : k - 1 \in Backends
  BY NAssumption DEF Backends
<1>3. \A k \in 1 .. N, x \in logs : Longer(k, x) \in logs
  BY <1>2
<1>4. F \in [1 .. N -> [logs -> logs]]
  <2> HIDE DEF logs, Longer
  <2>1. QED
    BY <1>3
<1>5. PICK s : Recurs(s, N, logs, <<>>, F)
  <2> HIDE DEF logs, F
  <2>1. QED
    BY ONLY <1>1, <1>4, Recursion, Zenon
<1>6. s \in [0 .. N -> logs] /\ s[0] = <<>> /\ \A k \in 1 .. N : s[k] = Longer(k, s[k - 1])
  <2>1. s \in [0 .. N -> logs] /\ s[0] = <<>>
    BY <1>5 DEF Recurs
  <2>2. ASSUME NEW k \in 1 .. N
        PROVE  s[k] = Longer(k, s[k - 1])
    <3>1. s[k - 1] \in logs
      BY <1>1, <2>1
    <3>2. s[k] = F[k][s[k - 1]]
      BY ONLY <1>5, Zenon DEF Recurs
    <3> HIDE DEF logs, Longer
    <3>3. QED
      BY <3>1, <3>2
  <2>3. QED
    BY <2>1, <2>2
<1>7. Steps(s)
  <2>1. \A k \in 0 .. N : k = 0 \/ k \in 1 .. N
    BY <1>1
  <2>2. \A k \in 1 .. N : Entry(s, k) = Longer(k, s[k - 1])
    OBVIOUS
  <2>3. Entry(s, 0) = <<>>
    OBVIOUS
  <2> HIDE DEF logs, Longer, Entry
  <2>4. \A k \in 0 .. N : s[k] = Entry(s, k)
    BY <1>6, <2>1, <2>2, <2>3
  <2>5. QED
    BY <1>6, <2>4
<1>8. Steps(t)
  <2> HIDE DEF Steps
  <2>1. t = CHOOSE logged : Steps(logged)
    OBVIOUS
  <2> HIDE DEF t
  <2>2. QED
    BY ONLY <1>7, <2>1, Zenon
<1>9. Events(fired) = t[N]
  BY DEF Events
<1> HIDE DEF t, logs
<1>10. t[0] = <<>> /\ \A k \in 1 .. N : t[k] = Longer(k, t[k - 1])
  <2>1. 0 \in 0 .. N /\ \A k \in 1 .. N : k \in 0 .. N
    BY <1>1
  <2>2. \A k \in 1 .. N : Entry(t, k) = Longer(k, t[k - 1])
    OBVIOUS
  <2>3. Entry(t, 0) = <<>>
    OBVIOUS
  <2> HIDE DEF Longer, Entry
  <2>4. QED
    BY <1>8, <2>1, <2>2, <2>3
<1> DEFINE good == {k \in 0 .. N : t[k] \in logs}
<1>11. 0 \in good
  BY <1>1, <1>10
<1>12. \A k \in 1 .. N : k - 1 \in good => k \in good
  <2> HIDE DEF Longer
  <2>1. QED
    BY <1>1, <1>3, <1>10
<1>13. \A k \in 0 .. N : k \in good
  <2> HIDE DEF good
  <2>1. QED
    BY <1>1, <1>11, <1>12, UpTo
<1>14. QED
  BY <1>1, <1>9, <1>13 DEF logs

LEMMA EndsIsSuffix ==
  ASSUME NEW S, NEW a \in Seq(S), NEW b \in Seq(S), Ends(a, b)
  PROVE  IsSuffix(a, b)
<1> DEFINE n == Len(a)
           m == Len(b)
           ra == [i \in 1 .. n |-> a[(n - i) + 1]]
           rb == [i \in 1 .. m |-> b[(m - i) + 1]]
<1>1. n \in Nat /\ m \in Nat /\ n <= m /\ \A i \in 1 .. n : a[i] = b[m - n + i]
  BY DEF Ends
<1>2. Reverse(a) = ra /\ Reverse(b) = rb
  BY DEF Reverse
<1>3. \A i \in 1 .. n : a[i] \in S
  OBVIOUS
<1>4. \A i \in 1 .. m : b[i] \in S
  OBVIOUS
<1> HIDE DEF n, m
<1>5. ra \in Seq(S) /\ Len(ra) = n
  BY <1>1, <1>3
<1>6. rb \in Seq(S) /\ Len(rb) = m
  BY <1>1, <1>4
<1>7. \A i \in 1 .. n : ra[i] = rb[i]
  BY <1>1
<1> HIDE DEF ra, rb
<1>8. SubSeq(ra, 1, n) = SubSeq(rb, 1, n)
  BY <1>1, <1>5, <1>6, <1>7
<1>9. QED
  BY <1>1, <1>2, <1>5, <1>6, <1>8 DEF IsSuffix, IsPrefix

LEMMA EndsTransitive ==
  ASSUME NEW S, NEW a \in Seq(S), NEW b \in Seq(S), NEW c \in Seq(S), Ends(a, b), Ends(b, c)
  PROVE  Ends(a, c)
<1>1. Len(a) \in Nat /\ Len(b) \in Nat /\ Len(c) \in Nat
  OBVIOUS
<1>2. ASSUME NEW i \in 1 .. Len(a)
      PROVE  a[i] = c[Len(c) - Len(a) + i]
  <2> DEFINE j == Len(b) - Len(a) + i
  <2>1. j \in 1 .. Len(b) /\ a[i] = b[j] /\ Len(c) - Len(b) + j = Len(c) - Len(a) + i
    BY <1>1 DEF Ends
  <2> HIDE DEF j
  <2>2. QED
    BY <2>1 DEF Ends
<1>3. QED
  BY <1>1, <1>2 DEF Ends

LEMMA EndsShorter ==
  ASSUME NEW S, NEW a \in Seq(S), NEW b \in Seq(S), NEW c \in Seq(S), Ends(a, c), Ends(b, c),
         Len(a) <= Len(b)
  PROVE  Ends(a, b)
<1>1. Len(a) \in Nat /\ Len(b) \in Nat /\ Len(c) \in Nat
  OBVIOUS
<1>2. ASSUME NEW i \in 1 .. Len(a)
      PROVE  a[i] = b[Len(b) - Len(a) + i]
  <2> DEFINE j == Len(b) - Len(a) + i
  <2>1. /\ j \in 1 .. Len(b) /\ a[i] = c[Len(c) - Len(a) + i]
        /\ Len(c) - Len(b) + j = Len(c) - Len(a) + i
    BY <1>1 DEF Ends
  <2> HIDE DEF j
  <2>2. b[j] = c[Len(c) - Len(b) + j]
    BY <2>1 DEF Ends
  <2>3. QED
    BY <2>1, <2>2 DEF j
<1>3. QED
  BY <1>2 DEF Ends

LEMMA EndsConcat ==
  ASSUME NEW S, NEW a \in Seq(S), NEW b \in Seq(S), NEW e \in Seq(S), Ends(a, b)
  PROVE  Ends(a \o e, b \o e)
<1>1. /\ Len(a) \in Nat /\ Len(b) \in Nat /\ Len(e) \in Nat /\ Len(a) <= Len(b)
      /\ Len(a \o e) = Len(a) + Len(e) /\ Len(b \o e) = Len(b) + Len(e)
  BY DEF Ends
<1>2. ASSUME NEW i \in 1 .. Len(a) + Len(e)
      PROVE  (a \o e)[i] = (b \o e)[Len(b) - Len(a) + i]
  <2> DEFINE j == Len(b) - Len(a) + i
  <2>1. j \in 1 .. Len(b) + Len(e) /\ (j <= Len(b) <=> i <= Len(a)) /\ j - Len(b) = i - Len(a)
    BY <1>1
  <2>2. CASE i <= Len(a)
    <3>1. (a \o e)[i] = a[i] /\ (b \o e)[j] = b[j] /\ a[i] = b[j]
      BY <1>1, <2>1, <2>2 DEF Ends
    <3>2. QED
      BY <3>1
  <2>3. CASE ~(i <= Len(a))
    <3>1. (a \o e)[i] = e[i - Len(a)] /\ (b \o e)[j] = e[j - Len(b)]
      BY <1>1, <2>1, <2>3
    <3>2. QED
      BY <2>1, <3>1
  <2>4. QED
    BY <2>2, <2>3
<1>3. QED
  BY <1>1, <1>2 DEF Ends

LEMMA NewestEnds ==
  ASSUME NEW S, NEW s \in Seq(S), NEW max \in Nat \ {0}
  PROVE  /\ Newest(max, s) \in Seq(S) /\ Ends(Newest(max, s), s)
         /\ Len(Newest(max, s)) = AtMost(max, Len(s))
<1> DEFINE first == AtLeast(1, Len(s) - max + 1)
           new == Newest(max, s)
<1>1. Len(s) \in Nat /\ first \in 1 .. Len(s) + 1 /\ Len(s) - first + 1 = AtMost(max, Len(s))
  <2>1. Len(s) \in Nat
    OBVIOUS
  <2>2. CASE Len(s) - max + 1 < 1
    <3>1. first = 1 /\ AtMost(max, Len(s)) = Len(s)
      BY <2>1, <2>2 DEF AtLeast, AtMost
    <3>2. QED
      BY <2>1, <3>1
  <2>3. CASE ~(Len(s) - max + 1 < 1)
    <3>1. first = Len(s) - max + 1 /\ AtMost(max, Len(s)) = max
      BY <2>1, <2>3 DEF AtLeast, AtMost
    <3> HIDE DEF first
    <3>2. QED
      BY <2>1, <2>3, <3>1
  <2>4. QED
    BY <2>2, <2>3
<1>2. new = SubSeq(s, first, Len(s))
  BY DEF Newest
<1> HIDE DEF first, new
<1>3. new \in Seq(S) /\ Len(new) = Len(s) - first + 1
  BY <1>1, <1>2
<1>4. \A i \in 1 .. Len(new) : new[i] = s[first + i - 1]
  BY <1>1, <1>2, <1>3
<1>5. \A i \in 1 .. Len(new) : Len(s) - Len(new) + i = first + i - 1
  BY <1>1, <1>3
<1>6. \A i \in 1 .. Len(new) : new[i] = s[Len(s) - Len(new) + i]
  BY <1>4, <1>5
<1>7. Len(new) = AtMost(max, Len(s))
  BY <1>1, <1>3
<1>8. Len(new) <= Len(s)
  BY <1>1, <1>7 DEF AtMost
<1>9. QED
  BY <1>3, <1>6, <1>7, <1>8 DEF Ends, new

(* The entries of s so far, after each of its parts. *)
Chains(f, s, m, S) ==
  /\ f \in [0 .. m -> Seq(S)] /\ f[0] = <<>>
  /\ \A k \in 1 .. m : f[k] = f[k - 1] \o s[k]

LEMMA FlatChain ==
  ASSUME NEW S, NEW m \in Nat, NEW s \in [1 .. m -> Seq(S)]
  PROVE  \E f : Chains(f, s, m, S) /\ FlattenSeq(s) = f[m]
<1> DEFINE logs == Seq(S)
           F == [k \in 1 .. m |-> [x \in logs |-> x \o s[k]]]
<1>1. <<>> \in logs /\ s \in [1 .. m -> logs] /\ \A x, y \in logs : x \o y \in logs
  OBVIOUS
<1>2. F \in [1 .. m -> [logs -> logs]]
  <2> HIDE DEF logs
  <2>1. QED
    BY <1>1
<1>3. PICK f : Recurs(f, m, logs, <<>>, F)
  <2> HIDE DEF logs, F
  <2>1. QED
    BY ONLY <1>1, <1>2, Recursion, Zenon, m \in Nat
<1>4. f \in [0 .. m -> logs] /\ f[0] = <<>> /\ \A k \in 1 .. m : f[k] = f[k - 1] \o s[k]
  <2>1. f \in [0 .. m -> logs] /\ f[0] = <<>>
    BY <1>3 DEF Recurs
  <2>2. ASSUME NEW k \in 1 .. m
        PROVE  f[k] = f[k - 1] \o s[k]
    <3>1. f[k - 1] \in logs
      BY <2>1
    <3>2. f[k] = F[k][f[k - 1]]
      BY ONLY <1>3, Zenon DEF Recurs
    <3> HIDE DEF logs
    <3>3. QED
      BY <3>1, <3>2
  <2>3. QED
    BY <2>1, <2>2
<1>5. Chains(f, s, m, S)
  BY <1>4 DEF Chains
<1>6. Len(s) = m
  OBVIOUS
<1>7. CASE m = 0
  <2>1. FlattenSeq(s) = s
    BY <1>6, <1>7 DEF FlattenSeq
  <2>2. s = <<>>
    BY <1>7
  <2>3. QED
    BY <1>4, <1>5, <1>7, <2>1, <2>2
<1>8. CASE m # 0
  <2> DEFINE Entry(g, i) == IF i = 1 THEN s[i] ELSE g[i - 1] \o s[i]
             Steps(g) == g = [i \in 1 .. Len(s) |-> Entry(g, i)]
             t == CHOOSE flatten : Steps(flatten)
             first == [i \in 1 .. m |-> f[i]]
  <2>1. Steps(first)
    <3>1. ASSUME NEW i \in 1 .. m
          PROVE  f[i] = Entry(first, i)
      <4>1. CASE i = 1
        <5>1. f[1] = s[1]
          <6>1. 1 \in 1 .. m /\ 1 - 1 = 0
            BY <1>8
          <6>2. f[1] = f[1 - 1] \o s[1] /\ s[1] \in logs
            BY <1>4, <6>1
          <6>3. f[1] = <<>> \o s[1]
            BY <1>4, <6>1, <6>2
          <6>4. QED
            BY <6>2, <6>3
        <5>2. QED
          BY <4>1, <5>1
      <4>2. CASE i # 1
        <5>1. i - 1 \in 1 .. m
          BY <4>2
        <5>2. first[i - 1] = f[i - 1]
          BY <5>1
        <5>3. f[i] = f[i - 1] \o s[i]
          BY <1>4
        <5> HIDE DEF first
        <5>4. QED
          BY <4>2, <5>2, <5>3
      <4>3. QED
        BY <4>1, <4>2
    <3> HIDE DEF Entry
    <3>2. first = [i \in 1 .. m |-> Entry(first, i)]
      <4> DEFINE other == [i \in 1 .. m |-> Entry(first, i)]
      <4>1. \A i \in 1 .. m : first[i] = other[i]
        BY <3>1
      <4>2. QED
        BY <3>1
    <3>3. QED
      BY <1>6, <3>2
  <2>2. Steps(t)
    <3> HIDE DEF Steps
    <3>1. t = CHOOSE flatten : Steps(flatten)
      OBVIOUS
    <3> HIDE DEF t
    <3>2. QED
      BY ONLY <2>1, <3>1, Zenon
  <2>3. FlattenSeq(s) = t[Len(s)]
    BY <1>6, <1>8 DEF FlattenSeq
  <2> HIDE DEF t
  <2>4. \A i \in 1 .. m : t[i] = IF i = 1 THEN s[i] ELSE t[i - 1] \o s[i]
    <3>1. \A i \in 1 .. m : t[i] = Entry(t, i)
      <4> HIDE DEF Entry
      <4>1. QED
        BY <1>6, <2>2
    <3>2. QED
      BY <3>1
  <2> DEFINE good == {k \in 0 .. m : k = 0 \/ t[k] = f[k]}
  <2>5. 0 \in good
    OBVIOUS
  <2>6. ASSUME NEW k \in 1 .. m, k - 1 \in good
        PROVE  k \in good
    <3>1. f[k] = f[k - 1] \o s[k] /\ s[k] \in logs
      BY <1>4
    <3>2. CASE k = 1
      <4>1. f[k] = s[k]
        <5>1. k - 1 = 0
          BY <3>2
        <5>2. f[k] = <<>> \o s[k]
          BY <1>4, <3>1, <5>1
        <5>3. QED
          BY <3>1, <5>2
      <4>2. QED
        BY <2>4, <3>2, <4>1
    <3>3. CASE k # 1
      <4>1. t[k - 1] = f[k - 1]
        BY <2>6, <3>3
      <4>2. t[k] = t[k - 1] \o s[k]
        BY <2>4, <3>3
      <4>3. t[k] = f[k]
        BY ONLY <3>1, <4>1, <4>2, Zenon
      <4>4. QED
        BY <4>3
    <3>4. QED
      BY <3>2, <3>3
  <2>7. \A k \in 0 .. m : k \in good
    <3> HIDE DEF good
    <3>1. QED
      BY <2>5, <2>6, UpTo
  <2>8. t[m] = f[m]
    BY <1>8, <2>7
  <2>9. QED
    BY <1>5, <1>6, <2>3, <2>8
<1>9. QED
  BY <1>7, <1>8

(* The end of the parts makes the end of the entries. *)
LEMMA FlatEnds ==
  ASSUME NEW S, NEW n \in Nat, NEW off \in Nat,
         NEW s \in [1 .. n + off -> Seq(S)], NEW z \in [1 .. n -> Seq(S)],
         \A k \in 1 .. n : z[k] = s[k + off]
  PROVE  /\ FlattenSeq(s) \in Seq(S) /\ FlattenSeq(z) \in Seq(S)
         /\ Ends(FlattenSeq(z), FlattenSeq(s))
<1> DEFINE m == n + off
<1>1. m \in Nat
  OBVIOUS
<1>2. PICK f : Chains(f, s, m, S) /\ FlattenSeq(s) = f[m]
  BY <1>1, FlatChain
<1>3. PICK g : Chains(g, z, n, S) /\ FlattenSeq(z) = g[n]
  BY FlatChain
<1>4. /\ f \in [0 .. m -> Seq(S)] /\ \A k \in 1 .. m : f[k] = f[k - 1] \o s[k]
      /\ g \in [0 .. n -> Seq(S)] /\ g[0] = <<>> /\ \A k \in 1 .. n : g[k] = g[k - 1] \o z[k]
  BY <1>2, <1>3 DEF Chains
<1> DEFINE good == {k \in 0 .. n : Ends(g[k], f[k + off])}
<1>5. 0 \in good
  <2>1. f[0 + off] \in Seq(S) /\ Len(<<>>) = 0
    BY <1>4
  <2>2. Ends(<<>>, f[0 + off])
    BY <2>1 DEF Ends
  <2>3. QED
    BY <1>4, <2>2
<1>6. ASSUME NEW k \in 1 .. n, k - 1 \in good
      PROVE  k \in good
  <2> DEFINE i == k + off
  <2>1. i \in 1 .. m /\ k - 1 + off = i - 1 /\ k - 1 \in 0 .. n /\ i - 1 \in 0 .. m
    OBVIOUS
  <2> HIDE DEF i, m
  <2>2. f[i] = f[i - 1] \o s[i] /\ g[k] = g[k - 1] \o z[k]
    BY <1>4, <2>1
  <2>3. z[k] = s[i] /\ s[i] \in Seq(S)
    BY DEF i
  <2>4. g[k - 1] \in Seq(S) /\ f[i - 1] \in Seq(S) /\ Ends(g[k - 1], f[i - 1])
    BY <1>4, <1>6, <2>1
  <2>5. Ends(g[k], f[i])
    BY <2>2, <2>3, <2>4, EndsConcat
  <2>6. QED
    BY <2>5 DEF i
<1>7. \A k \in 0 .. n : k \in good
  <2> HIDE DEF good
  <2>1. QED
    BY <1>5, <1>6, UpTo
<1>8. n \in good /\ n \in 0 .. n /\ m \in 0 .. m
  BY <1>7
<1>9. QED
  BY <1>2, <1>3, <1>4, <1>8

(* One more part adds its entries. *)
LEMMA FlatAppend ==
  ASSUME NEW S, NEW n \in Nat, NEW s \in [1 .. n -> Seq(S)], NEW t \in [1 .. n + 1 -> Seq(S)],
         \A k \in 1 .. n : t[k] = s[k]
  PROVE  /\ FlattenSeq(s) \in Seq(S)
         /\ FlattenSeq(t) = FlattenSeq(s) \o t[n + 1]
<1> DEFINE m == n + 1
<1>1. m \in Nat
  OBVIOUS
<1>2. PICK f : Chains(f, s, n, S) /\ FlattenSeq(s) = f[n]
  BY FlatChain
<1>3. PICK g : Chains(g, t, m, S) /\ FlattenSeq(t) = g[m]
  BY <1>1, FlatChain
<1>4. /\ f \in [0 .. n -> Seq(S)] /\ f[0] = <<>> /\ \A k \in 1 .. n : f[k] = f[k - 1] \o s[k]
      /\ g[0] = <<>> /\ \A k \in 1 .. m : g[k] = g[k - 1] \o t[k]
  BY <1>2, <1>3 DEF Chains
<1> DEFINE good == {k \in 0 .. n : f[k] = g[k]}
<1>5. 0 \in good
  BY <1>4
<1>6. ASSUME NEW k \in 1 .. n, k - 1 \in good
      PROVE  k \in good
  <2>1. k \in 1 .. m /\ f[k - 1] = g[k - 1] /\ t[k] = s[k]
    BY <1>6
  <2>2. f[k] = f[k - 1] \o s[k] /\ g[k] = g[k - 1] \o t[k]
    BY <1>4, <2>1
  <2>3. f[k] = g[k]
    BY ONLY <2>1, <2>2, Zenon
  <2>4. QED
    BY <2>3
<1>7. \A k \in 0 .. n : k \in good
  <2> HIDE DEF good
  <2>1. QED
    BY <1>5, <1>6, UpTo
<1>8. f[n] = g[n] /\ m \in 1 .. m /\ m - 1 = n /\ n \in 0 .. n
  BY <1>7
<1>9. g[m] = g[n] \o t[n + 1]
  BY <1>4, <1>8
<1>10. QED
  BY <1>2, <1>3, <1>4, <1>8, <1>9

(***************************************************************************)
(* c, of which the newest entries matter, ends what a and e together are;  *)
(* if the log ends with the newest of a, then after e is entered it ends   *)
(* with the newest of c.                                                   *)
(***************************************************************************)
LEMMA LogKeeps ==
  ASSUME NEW S, NEW a \in Seq(S), NEW e \in Seq(S), NEW c \in Seq(S), NEW log \in Seq(S),
         NEW max \in Nat \ {0},
         Ends(Newest(max, a), log), Ends(c, a \o e)
  PROVE  Ends(Newest(max, c), Newest(max, log \o e))
<1> DEFINE all == a \o e
           na == Newest(max, a)
           nc == Newest(max, c)
           ne == na \o e
           longer == log \o e
           nl == Newest(max, longer)
<1>1. /\ all \in Seq(S) /\ Len(all) = Len(a) + Len(e)
      /\ longer \in Seq(S) /\ Len(longer) = Len(log) + Len(e)
      /\ Len(a) \in Nat /\ Len(e) \in Nat /\ Len(c) \in Nat /\ Len(log) \in Nat
  OBVIOUS
<1>2. na \in Seq(S) /\ Ends(na, a) /\ Len(na) = AtMost(max, Len(a)) /\ Ends(na, log)
  BY NewestEnds
<1>3. nc \in Seq(S) /\ Ends(nc, c) /\ Len(nc) = AtMost(max, Len(c)) /\ Ends(c, all)
  BY NewestEnds
<1> HIDE DEF na, nc
<1>4. ne \in Seq(S) /\ Len(ne) = Len(na) + Len(e)
  <2>1. \A x, y \in Seq(S) : x \o y \in Seq(S) /\ Len(x \o y) = Len(x) + Len(y)
    OBVIOUS
  <2>2. QED
    BY <1>2, <2>1
<1>5. Ends(ne, all) /\ Ends(ne, longer)
  BY <1>2, EndsConcat
<1> HIDE DEF all, longer, ne
<1>6. nl \in Seq(S) /\ Ends(nl, longer) /\ Len(nl) = AtMost(max, Len(longer))
  BY <1>1, NewestEnds
<1> HIDE DEF nl
<1>7. Ends(nc, all)
  BY <1>1, <1>3, EndsTransitive
<1>8. Len(nc) <= Len(ne)
  <2>1. Len(c) <= Len(a) + Len(e)
    BY <1>1, <1>3 DEF Ends
  <2>2. QED
    BY <1>1, <1>2, <1>3, <1>4, <2>1 DEF AtMost
<1>9. Ends(nc, ne)
  BY <1>1, <1>3, <1>4, <1>5, <1>7, <1>8, EndsShorter
<1>10. Ends(nc, longer)
  BY <1>1, <1>3, <1>4, <1>5, <1>9, EndsTransitive
<1>11. Len(nc) <= Len(nl)
  <2>1. Len(nc) <= Len(longer)
    BY <1>10 DEF Ends
  <2>2. Len(nc) <= max
    BY <1>1, <1>3 DEF AtMost
  <2>3. QED
    BY <1>6, <2>1, <2>2 DEF AtMost
<1>12. Ends(nc, nl)
  BY <1>1, <1>3, <1>6, <1>10, <1>11, EndsShorter
<1>13. QED
  BY <1>12 DEF nc, nl, longer

(* The events the flags stand for, tick by tick. *)
Row(flags, t) == Events({b \in Backends : flags[b][t] = 1})
Rows(flags) == [t \in 1 .. Len(flags[0]) |-> Row(flags, t)]

Flags == [Backends -> Seq({0, 1})]

MonitorOK(m) ==
  /\ m.flags \in Flags /\ \A b \in Backends : Len(m.flags[b]) = Len(m.flags[0])
  /\ m.log \in Seq(Backends)
  /\ Ends(Newest(LogLen, FlattenSeq(Rows(m.flags))), m.log)

LEMMA RowsType ==
  ASSUME NEW flags \in Flags
  PROVE  Len(flags[0]) \in Nat /\ Rows(flags) \in [1 .. Len(flags[0]) -> Seq(Backends)]
<1>1. 0 \in Backends
  BY NAssumption DEF Backends
<1>2. Len(flags[0]) \in Nat
  BY <1>1 DEF Flags
<1>3. \A t \in 1 .. Len(flags[0]) : Row(flags, t) \in Seq(Backends)
  BY EventsType DEF Row
<1>4. QED
  BY <1>2, <1>3 DEF Rows

(* A flag is added to every backend's, and the oldest dropped off all of them. *)
LEMMA FlagsRecorded ==
  ASSUME NEW m, NEW fired, fired \subseteq Backends, m.flags \in Flags,
         \A b \in Backends : Len(m.flags[b]) = Len(m.flags[0])
  PROVE  LET flags == Recorded(m, fired).flags
             n == Len(m.flags[0])
             ticks == Len(flags[0])
         IN  /\ flags \in Flags /\ ticks \in Nat /\ ticks <= n + 1
             /\ \A b \in Backends : Len(flags[b]) = ticks
             /\ \A t \in 1 .. ticks :
                  Rows(flags)[t] = IF t + (n + 1 - ticks) <= n
                                   THEN Rows(m.flags)[t + (n + 1 - ticks)] ELSE Events(fired)
<1> DEFINE old == m.flags
           bit(b) == IF b \in fired THEN 1 ELSE 0
           longer == [b \in Backends |-> Append(old[b], bit(b))]
           flags == Recorded(m, fired).flags
           n == Len(old[0])
           ticks == AtMost(RateLen, n + 1)
           off == n + 1 - ticks
<1>1. 0 \in Backends /\ RateLen \in Nat \ {0}
  BY NAssumption, LengthAssumption DEF Backends
<1>2. old \in Flags /\ n \in Nat /\ \A b \in Backends : Len(old[b]) = n /\ old[b] \in Seq({0, 1})
  BY <1>1 DEF Flags
<1>3. flags = [b \in Backends |-> Newest(RateLen, longer[b])]
  BY DEF Recorded
<1> HIDE DEF old, n, flags
<1>4. \A b \in Backends : bit(b) \in {0, 1}
  OBVIOUS
<1>5. ASSUME NEW b \in Backends
      PROVE  /\ longer[b] \in Seq({0, 1}) /\ Len(longer[b]) = n + 1
             /\ longer[b][n + 1] = bit(b) /\ \A t \in 1 .. n : longer[b][t] = old[b][t]
  <2>1. old[b] \in Seq({0, 1}) /\ bit(b) \in {0, 1} /\ Len(old[b]) = n /\ longer[b] = Append(old[b], bit(b))
    BY <1>2, <1>4
  <2> HIDE DEF longer, bit
  <2>2. QED
    BY <1>2, <2>1
<1>6. ticks \in Nat /\ ticks >= 1 /\ ticks <= n + 1
  BY <1>1, <1>2 DEF AtMost
<1>7. ASSUME NEW b \in Backends
      PROVE  /\ flags[b] \in Seq({0, 1}) /\ Len(flags[b]) = ticks
             /\ \A t \in 1 .. ticks : flags[b][t] = longer[b][t + off]
  <2>1. longer[b] \in Seq({0, 1}) /\ Len(longer[b]) = n + 1 /\ flags[b] = Newest(RateLen, longer[b])
    BY <1>3, <1>5
  <2> DEFINE l == longer[b]
  <2>2. l \in Seq({0, 1}) /\ Len(l) = n + 1 /\ flags[b] = Newest(RateLen, l)
    BY <2>1
  <2> HIDE DEF l, longer
  <2>3. flags[b] \in Seq({0, 1}) /\ Len(flags[b]) = ticks /\ Ends(flags[b], l)
    BY <1>1, <2>2, NewestEnds
  <2> HIDE DEF ticks
  <2>4. \A t \in 1 .. ticks : flags[b][t] = l[n + 1 - ticks + t]
    <3>1. \A i \in 1 .. Len(flags[b]) : flags[b][i] = l[Len(l) - Len(flags[b]) + i]
      BY ONLY <2>3, Zenon DEF Ends
    <3>2. Len(l) = n + 1 /\ Len(flags[b]) = ticks
      BY <2>2, <2>3
    <3>3. ASSUME NEW t \in 1 .. ticks
          PROVE  flags[b][t] = l[n + 1 - ticks + t]
      <4>1. t \in 1 .. Len(flags[b])
        BY <3>2
      <4>2. flags[b][t] = l[Len(l) - Len(flags[b]) + t]
        BY ONLY <3>1, <4>1, Zenon
      <4>3. Len(l) - Len(flags[b]) + t = n + 1 - ticks + t
        BY <1>2, <1>6, <3>2
      <4>4. QED
        BY ONLY <4>2, <4>3, Zenon
    <3>4. QED
      BY <3>3
  <2>5. \A t \in 1 .. ticks : n + 1 - ticks + t = t + off
    BY <1>2, <1>6
  <2>6. QED
    BY <2>3, <2>4, <2>5 DEF l
<1>8. flags \in Flags
  BY <1>3, <1>7 DEF Flags
<1>9. Len(flags[0]) = ticks
  BY <1>1, <1>7
<1> HIDE DEF ticks, longer
<1>10. ASSUME NEW t \in 1 .. ticks
       PROVE  Rows(flags)[t] = IF t + off <= n THEN Rows(old)[t + off] ELSE Events(fired)
  <2>1. Rows(flags)[t] = Row(flags, t)
    BY <1>9 DEF Rows
  <2>2. \A b \in Backends : flags[b][t] = longer[b][t + off]
    BY <1>7
  <2>3. CASE t + off <= n
    <3>1. t + off \in 1 .. n
      BY <1>2, <1>6, <2>3
    <3>2. Rows(old)[t + off] = Row(old, t + off)
      BY <3>1 DEF Rows, n
    <3>3. \A b \in Backends : flags[b][t] = old[b][t + off]
      BY <1>5, <2>2, <3>1
    <3>4. {b \in Backends : flags[b][t] = 1} = {b \in Backends : old[b][t + off] = 1}
      BY <3>3
    <3>5. Row(flags, t) = Row(old, t + off)
      BY <3>4 DEF Row
    <3>6. QED
      BY <2>1, <2>3, <3>2, <3>5
  <2>4. CASE ~(t + off <= n)
    <3>1. t + off = n + 1
      BY <1>2, <1>6, <2>4
    <3>2. \A b \in Backends : flags[b][t] = bit(b)
      BY <1>5, <2>2, <3>1
    <3>3. {b \in Backends : flags[b][t] = 1} = fired
      BY <3>2
    <3>4. Row(flags, t) = Events(fired)
      BY <3>3 DEF Row
    <3>5. QED
      BY <2>1, <2>4, <3>4
  <2>5. QED
    BY <2>3, <2>4
<1>11. QED
  BY <1>6, <1>7, <1>8, <1>9, <1>10 DEF flags, old, n

LEMMA RecordedOK ==
  ASSUME NEW m, NEW fired, fired \subseteq Backends, MonitorOK(m)
  PROVE  MonitorOK(Recorded(m, fired))
<1> DEFINE old == m.flags
           flags == Recorded(m, fired).flags
           log == Recorded(m, fired).log
           n == Len(old[0])
           ticks == Len(flags[0])
           off == n + 1 - ticks
           e == Events(fired)
           s == Rows(old)
           z == Rows(flags)
           t == [k \in 1 .. n + 1 |-> IF k <= n THEN s[k] ELSE e]
<1>1. /\ old \in Flags /\ \A b \in Backends : Len(old[b]) = n
      /\ m.log \in Seq(Backends) /\ Ends(Newest(LogLen, FlattenSeq(s)), m.log)
  BY DEF MonitorOK
<1>2. /\ flags \in Flags /\ ticks \in Nat /\ ticks <= n + 1
      /\ \A b \in Backends : Len(flags[b]) = ticks
      /\ \A k \in 1 .. ticks : z[k] = IF k + off <= n THEN s[k + off] ELSE e
  BY <1>1, FlagsRecorded
<1>3. log = Newest(LogLen, m.log \o e)
  BY DEF Recorded
<1>4. n \in Nat /\ s \in [1 .. n -> Seq(Backends)]
  BY <1>1, RowsType
<1>5. z \in [1 .. ticks -> Seq(Backends)]
  BY <1>2, RowsType
<1>6. e \in Seq(Backends)
  BY EventsType
<1> HIDE DEF old, flags, log, n, ticks, e, s, z
<1>7. t \in [1 .. n + 1 -> Seq(Backends)] /\ t[n + 1] = e /\ \A k \in 1 .. n : t[k] = s[k]
  BY <1>4, <1>6
<1>8. off \in Nat /\ ticks + off = n + 1
  BY <1>2, <1>4
<1>9. \A k \in 1 .. ticks : z[k] = t[k + off]
  BY <1>2, <1>4, <1>8
<1> HIDE DEF t, off
<1> DEFINE events == FlattenSeq(s)
           later == FlattenSeq(z)
<1>10. FlattenSeq(t) = events \o e /\ events \in Seq(Backends)
  BY <1>4, <1>7, FlatAppend
<1>11. later \in Seq(Backends) /\ Ends(later, FlattenSeq(t))
  <2>1. t \in [1 .. ticks + off -> Seq(Backends)]
    BY <1>7, <1>8
  <2>2. ticks \in Nat /\ off \in Nat
    BY <1>2, <1>8
  <2>3. QED
    BY ONLY <1>5, <1>9, <2>1, <2>2, FlatEnds, Zenon
<1> HIDE DEF events, later
<1>12. Ends(later, events \o e)
  BY <1>10, <1>11
<1>13. LogLen \in Nat \ {0} /\ Ends(Newest(LogLen, events), m.log)
  BY <1>1, LengthAssumption DEF events
<1>14. Ends(Newest(LogLen, later), log)
  BY <1>1, <1>3, <1>6, <1>10, <1>11, <1>12, <1>13, LogKeeps
<1>15. log \in Seq(Backends)
  <2> DEFINE all == m.log \o e
  <2>1. all \in Seq(Backends)
    BY <1>1, <1>6
  <2> HIDE DEF all
  <2>2. Newest(LogLen, all) \in Seq(Backends)
    BY <1>13, <2>1, NewestEnds
  <2>3. QED
    BY <1>3, <2>2 DEF all
<1>16. QED
  BY <1>2, <1>14, <1>15 DEF MonitorOK, log, flags, later, z, ticks

LEMMA MonitorMatches ==
  ASSUME MonitorOK(monitor)
  PROVE  RatesMatchLog
<1> DEFINE s == Rows(monitor.flags)
           events == FlattenSeq(s)
           new == Newest(LogLen, events)
<1>1. /\ monitor.flags \in Flags
      /\ \A b \in Backends : Len(monitor.flags[b]) = Len(monitor.flags[0])
      /\ monitor.log \in Seq(Backends) /\ Ends(new, monitor.log)
  BY DEF MonitorOK
<1>2. Len(monitor.flags[0]) \in Nat /\ s \in [1 .. Len(monitor.flags[0]) -> Seq(Backends)]
  BY <1>1, RowsType
<1>3. s = [t \in 1 .. Len(monitor.flags[0]) |-> Events({b \in Backends : monitor.flags[b][t] = 1})]
  BY DEF Rows, Row
<1>4. events \in Seq(Backends)
  <2> DEFINE n == Len(monitor.flags[0])
  <2> HIDE DEF s, n
  <2>1. n \in Nat /\ s \in [1 .. n -> Seq(Backends)]
    BY <1>2 DEF n
  <2>2. PICK f : Chains(f, s, n, Backends) /\ FlattenSeq(s) = f[n]
    BY <2>1, FlatChain
  <2>3. n \in 0 .. n /\ f \in [0 .. n -> Seq(Backends)]
    BY <2>1, <2>2 DEF Chains
  <2>4. QED
    BY <2>2, <2>3
<1>5. new \in Seq(Backends)
  <2> HIDE DEF events
  <2>1. QED
    BY <1>4, NewestEnds, LengthAssumption
<1>6. IsSuffix(new, monitor.log)
  <2> HIDE DEF new
  <2>1. QED
    BY <1>1, <1>5, EndsIsSuffix
<1>7. QED
  BY <1>1, <1>3, <1>6, Zenon DEF RatesMatchLog

LEMMA MonitorInit == Init => MonitorOK(monitor)
<1> SUFFICES ASSUME Init
             PROVE  MonitorOK(monitor)
  OBVIOUS
<1>1. 0 \in Backends /\ monitor.flags = [b \in Backends |-> <<>>] /\ monitor.log = <<>>
  BY NAssumption DEF Init, Unmonitored, Backends
<1>2. monitor.flags \in Flags /\ \A b \in Backends : Len(monitor.flags[b]) = 0
  BY <1>1 DEF Flags
<1>3. Rows(monitor.flags) = <<>>
  BY <1>1, <1>2 DEF Rows
<1>4. FlattenSeq(<<>>) = <<>>
  BY DEF FlattenSeq
<1>5. Newest(LogLen, <<>>) = <<>>
  BY LengthAssumption DEF Newest, AtLeast
<1>6. Ends(<<>>, <<>>) /\ <<>> \in Seq(Backends)
  BY DEF Ends
<1>7. QED
  BY <1>1, <1>2, <1>3, <1>4, <1>5, <1>6 DEF MonitorOK

(***************************************************************************)
(* The violation rates and the violation log, which drop what is old each  *)
(* at a length of its own, tell one story: what the flags stand for is, in *)
(* order, the newest of the log (SafetyMonitor.step).                      *)
(***************************************************************************)
THEOREM RatesMatch == Spec => []RatesMatchLog
<1>1. Init => MonitorOK(monitor)
  BY MonitorInit
<1>2. MonitorOK(monitor) /\ [Next]_vars => MonitorOK(monitor)'
  <2> SUFFICES ASSUME MonitorOK(monitor), [Next]_vars
               PROVE  MonitorOK(monitor)'
    OBVIOUS
  <2>1. CASE Decide
    <3>1. monitor' = Recorded(monitor, Violators(seen.load))
      BY <2>1 DEF Decide
    <3>2. Violators(seen.load) \subseteq Backends
      BY DEF Violators
    <3>3. MonitorOK(monitor')
      BY <3>1, <3>2, RecordedOK
    <3>4. QED
      BY <3>3 DEF MonitorOK
  <2>2. CASE UNCHANGED monitor
    BY <2>2 DEF MonitorOK
  <2>3. Decide \/ UNCHANGED monitor
    BY DEF Next, vars, Sample, Roll, Fill, Read, ReadLatencies, Restore, Rise, Shrink,
           Reload, HealthChange
  <2>4. QED
    BY <2>1, <2>2, <2>3
<1>3. MonitorOK(monitor) => RatesMatchLog
  BY MonitorMatches
<1>4. QED
  BY <1>1, <1>2, <1>3, PTL DEF Spec
=============================================================================
