---------------------------- MODULE VectorProofs ----------------------------
(***************************************************************************)
(* Lemmas about vectors, discounted sums and functions defined by a        *)
(* recursion, for ControlProofs and TrainingProofs.                        *)
(*                                                                         *)
(* The provers know nothing of recursion and of CHOOSE: Recursion says     *)
(* that a function defined step by step along 0 .. n exists, and each      *)
(* recursive function of the models is shown to be one. Sorted is a        *)
(* CHOOSE as well: SortExists inserts one component after the other, and   *)
(* SortedSorts says that the result is a rearrangement.                    *)
(***************************************************************************)
EXTENDS Vectors, Discounting, WellFoundedInduction, FiniteSetTheorems, TLAPS


(***************************************************************************)
(* Induction and recursion up to a bound.                                  *)
(***************************************************************************)

(* Numbers have a least one. *)
LEMMA Least ==
  ASSUME NEW S, S \subseteq Nat, S # {}
  PROVE  \E m \in S : \A j \in S : m <= j
<1>1. PICK m \in S : \A j \in S : ~(<<j, m>> \in OpToRel(<, Nat))
  BY NatLessThanWellFounded, WFMin
<1>2. \A j \in S : ~(j < m)
  BY <1>1, Zenon DEF OpToRel
<1>3. QED
  BY <1>2

(* Induction along 0 .. n, for a property given as the set it holds on. *)
LEMMA UpTo ==
  ASSUME NEW n \in Nat, NEW S, 0 \in S, \A k \in 1 .. n : k - 1 \in S => k \in S
  PROVE  \A k \in 0 .. n : k \in S
<1> DEFINE bad == (0 .. n) \ S
<1>1. SUFFICES ASSUME bad # {}
               PROVE  FALSE
  OBVIOUS
<1>2. bad \subseteq Nat
  OBVIOUS
<1> HIDE DEF bad
<1>3. PICK k \in bad : \A j \in bad : k <= j
  BY <1>1, <1>2, Least
<1>4. k \in 0 .. n /\ k \notin S
  BY DEF bad
<1>5. k \in 1 .. n /\ k - 1 \in 0 .. n /\ ~(k <= k - 1)
  BY <1>4
<1>6. k - 1 \in S
  BY <1>3, <1>5 DEF bad
<1>7. QED
  BY <1>4, <1>5, <1>6

(* f is the function on 0 .. n that starts with s0 and goes on with F. *)
Recurs(f, n, S, s0, F) ==
  /\ f \in [0 .. n -> S] /\ f[0] = s0
  /\ \A k \in 1 .. n : f[k] = F[k][f[k - 1]]

(* Such a function exists. *)
LEMMA Recursion ==
  ASSUME NEW n \in Nat, NEW S, NEW s0 \in S, NEW F \in [1 .. n -> [S -> S]]
  PROVE  \E f : Recurs(f, n, S, s0, F)
<1> DEFINE Solves(f, m) == Recurs(f, m, S, s0, F)
           solved == {m \in 0 .. n : \E f : Solves(f, m)}
<1>1. 0 \in solved
  <2> DEFINE g == [k \in 0 .. 0 |-> s0]
  <2>1. Solves(g, 0)
    <3>1. g \in [0 .. 0 -> S] /\ g[0] = s0 /\ 1 .. 0 = {}
      OBVIOUS
    <3>2. QED
      BY <3>1 DEF Recurs
  <2> HIDE DEF g, Solves
  <2>2. QED
    BY <2>1
<1>2. ASSUME NEW m \in 1 .. n, m - 1 \in solved
      PROVE  m \in solved
  <2>1. PICK f : Solves(f, m - 1)
    BY <1>2
  <2> DEFINE g == [k \in 0 .. m |-> IF k = m THEN F[m][f[m - 1]] ELSE f[k]]
  <2>2. f[m - 1] \in S /\ F[m] \in [S -> S]
    BY <2>1 DEF Recurs
  <2>3. g \in [0 .. m -> S] /\ g[0] = s0
    BY <2>1, <2>2 DEF Recurs
  <2>4. ASSUME NEW k \in 1 .. m
        PROVE  g[k] = F[k][g[k - 1]]
    <3>1. CASE k = m
      BY <3>1
    <3>2. CASE k # m
      <4>1. k \in 1 .. m - 1 /\ k - 1 \in 0 .. m /\ k - 1 # m
        BY <3>2
      <4>2. QED
        BY <2>1, <3>2, <4>1 DEF Recurs
    <3>3. QED
      BY <3>1, <3>2
  <2>5. Solves(g, m)
    BY <2>3, <2>4 DEF Recurs
  <2> HIDE DEF g, Solves
  <2>6. QED
    BY <2>5
<1>3. n \in solved
  <2> HIDE DEF solved
  <2>1. \A m \in 0 .. n : m \in solved
    BY <1>1, <1>2, UpTo
  <2>2. QED
    BY <2>1
<1>4. QED
  BY <1>3

(* f is the function on 1 .. n + 1 that ends with s0 and comes there with F. *)
RecursBack(f, n, S, s0, F) ==
  /\ f \in [1 .. n + 1 -> S] /\ f[n + 1] = s0
  /\ \A t \in 1 .. n : f[t] = F[t][f[t + 1]]

(* Such a function exists too. *)
LEMMA RecursionBack ==
  ASSUME NEW n \in Nat, NEW S, NEW s0 \in S, NEW F \in [1 .. n -> [S -> S]]
  PROVE  \E f : RecursBack(f, n, S, s0, F)
<1> DEFINE G == [d \in 1 .. n |-> F[n + 1 - d]]
<1>1. G \in [1 .. n -> [S -> S]]
  <2>1. \A d \in 1 .. n : n + 1 - d \in 1 .. n
    OBVIOUS
  <2>2. QED
    BY <2>1
<1>2. \A d \in 1 .. n : G[d] = F[n + 1 - d]
  OBVIOUS
<1> HIDE DEF G
<1>3. PICK s : Recurs(s, n, S, s0, G)
  BY ONLY n \in Nat, s0 \in S, <1>1, Recursion, Zenon
<1> DEFINE f == [t \in 1 .. n + 1 |-> s[n + 1 - t]]
<1>4. /\ s \in [0 .. n -> S] /\ s[0] = s0
      /\ \A d \in 1 .. n : s[d] = G[d][s[d - 1]]
  BY ONLY <1>3, Zenon DEF Recurs
<1>5. f \in [1 .. n + 1 -> S]
  <2>1. \A t \in 1 .. n + 1 : n + 1 - t \in 0 .. n
    OBVIOUS
  <2>2. QED
    BY <1>4, <2>1
<1>6. f[n + 1] = s0
  <2>1. n + 1 \in 1 .. n + 1 /\ n + 1 - (n + 1) = 0
    OBVIOUS
  <2>2. QED
    BY <1>4, <2>1
<1>7. \A t \in 1 .. n : f[t] = F[t][f[t + 1]]
  <2>1. SUFFICES ASSUME NEW t \in 1 .. n PROVE f[t] = F[t][f[t + 1]]
    OBVIOUS
  <2> DEFINE d == n + 1 - t
  <2>2. /\ d \in 1 .. n /\ n + 1 - (t + 1) = d - 1 /\ n + 1 - d = t
        /\ t \in 1 .. n + 1 /\ t + 1 \in 1 .. n + 1
    OBVIOUS
  <2>3. f[t] = s[d] /\ f[t + 1] = s[n + 1 - (t + 1)]
    BY <2>2
  <2> HIDE DEF d, f
  <2>4. s[d] = G[d][s[d - 1]] /\ G[d] = F[n + 1 - d]
    BY ONLY <1>2, <1>4, <2>2, Zenon
  <2>5. QED
    BY ONLY <2>2, <2>3, <2>4, Zenon
<1>8. QED
  BY <1>5, <1>6, <1>7, Zenon DEF RecursBack

(***************************************************************************)
(* Sums over the backends.                                                 *)
(***************************************************************************)

(* Sums is what its recursive definition says. *)
LEMMA SumsDef ==
  ASSUME NEW f \in [Backends -> Int]
  PROVE  /\ Sums(f) \in [0 .. N -> Int] /\ Sums(f)[0] = 0
         /\ \A k \in 1 .. N : Sums(f)[k] = Sums(f)[k - 1] + f[k - 1]
         /\ Total(f) \in Int
<1> USE NAssumption
<1> DEFINE Adds(s) == s = [k \in 0 .. N |-> IF k = 0 THEN 0 ELSE s[k - 1] + f[k - 1]]
           step == [k \in 1 .. N |-> [x \in Int |-> x + f[k - 1]]]
<1>1. step \in [1 .. N -> [Int -> Int]]
  BY DEF Backends
<1>2. PICK s : Recurs(s, N, Int, 0, step)
  <2> HIDE DEF step
  <2>1. QED
    <3>1. N \in Nat /\ 0 \in Int
      OBVIOUS
    <3>2. QED
      BY ONLY <1>1, <3>1, Recursion, Zenon
<1>3. Adds(s)
  <2>1. \A k \in 1 .. N : k - 1 \in 0 .. N /\ s[k - 1] \in Int
    BY <1>2 DEF Recurs
  <2>2. \A k \in 1 .. N : step[k][s[k - 1]] = s[k - 1] + f[k - 1]
    BY <2>1
  <2>3. \A k \in 1 .. N : s[k] = s[k - 1] + f[k - 1]
    BY <1>2, <2>2 DEF Recurs
  <2>4. QED
    BY <1>2, <2>3 DEF Recurs
<1>4. Adds(Sums(f))
  <2> HIDE DEF Adds
  <2>1. Sums(f) = CHOOSE t : Adds(t)
    BY Zenon DEF Sums, Adds
  <2>2. QED
    BY <1>3, <2>1, Zenon
<1> DEFINE t == Sums(f)
<1> HIDE DEF t
<1>5. t = [k \in 0 .. N |-> IF k = 0 THEN 0 ELSE t[k - 1] + f[k - 1]]
  BY <1>4 DEF t
<1>6. t[0] = 0 /\ \A k \in 1 .. N : t[k] = t[k - 1] + f[k - 1]
  <2>1. \A k \in 0 .. N : t[k] = IF k = 0 THEN 0 ELSE t[k - 1] + f[k - 1]
    BY ONLY <1>5, Zenon
  <2>2. 0 \in 0 .. N /\ \A k \in 1 .. N : k \in 0 .. N /\ k # 0
    OBVIOUS
  <2>3. QED
    BY <2>1, <2>2
<1> DEFINE ints == {k \in 0 .. N : t[k] \in Int}
<1>7. \A k \in 1 .. N : k - 1 \in ints => k \in ints
  BY <1>6 DEF Backends
<1>8. 0 \in ints
  BY <1>6
<1>9. \A k \in 0 .. N : k \in ints
  <2> HIDE DEF ints
  <2>1. QED
    BY <1>7, <1>8, UpTo
<1>10. t \in [0 .. N -> Int]
  <2>1. \A k \in 0 .. N : t[k] \in Int
    BY <1>9
  <2>2. DOMAIN t = 0 .. N /\ t = [k \in DOMAIN t |-> t[k]]
    BY <1>5
  <2>3. QED
    BY <2>1, <2>2
<1>11. QED
  BY <1>6, <1>10 DEF t, Total

(* Steps of a sum, in the form the next proofs use. *)
LEMMA SumsStep ==
  ASSUME NEW f \in [Backends -> Int], NEW k \in 1 .. N
  PROVE  /\ k - 1 \in 0 .. N /\ k - 1 \in Backends /\ f[k - 1] \in Int
         /\ Sums(f)[k - 1] \in Int /\ Sums(f)[k] \in Int
         /\ Sums(f)[k] = Sums(f)[k - 1] + f[k - 1]
<1>1. k - 1 \in 0 .. N /\ k \in 0 .. N /\ k - 1 \in Backends
  BY NAssumption DEF Backends
<1>2. QED
  BY <1>1, SumsDef

(* A sum grows with its summands, strictly if one of them does. *)
LEMMA SumsMonotone ==
  ASSUME NEW f \in [Backends -> Int], NEW g \in [Backends -> Int],
         \A b \in Backends : f[b] <= g[b]
  PROVE  /\ Total(f) <= Total(g)
         /\ (\E b \in Backends : f[b] < g[b]) => Total(f) < Total(g)
<1> DEFINE good == {k \in 0 .. N : /\ Sums(f)[k] <= Sums(g)[k]
                                   /\ \A b \in Backends : b < k /\ f[b] < g[b]
                                                            => Sums(f)[k] < Sums(g)[k]}
<1>1. 0 \in good
  <2>1. Sums(f)[0] = 0 /\ Sums(g)[0] = 0
    BY SumsDef
  <2>2. 0 \in 0 .. N /\ \A b \in Backends : ~(b < 0)
    BY NAssumption DEF Backends
  <2>3. QED
    BY <2>1, <2>2
<1>2. ASSUME NEW k \in 1 .. N, k - 1 \in good
      PROVE  k \in good
  <2>1. /\ k - 1 \in Backends /\ f[k - 1] \in Int /\ g[k - 1] \in Int
        /\ Sums(f)[k - 1] \in Int /\ Sums(g)[k - 1] \in Int
        /\ Sums(f)[k] = Sums(f)[k - 1] + f[k - 1]
        /\ Sums(g)[k] = Sums(g)[k - 1] + g[k - 1]
    BY SumsStep
  <2>2. f[k - 1] <= g[k - 1] /\ Sums(f)[k - 1] <= Sums(g)[k - 1]
    BY <1>2, <2>1
  <2>3. Sums(f)[k] <= Sums(g)[k]
    BY <2>1, <2>2
  <2>4. ASSUME NEW b \in Backends, b < k, f[b] < g[b]
        PROVE  Sums(f)[k] < Sums(g)[k]
    <3>1. CASE b = k - 1
      BY <2>1, <2>2, <2>4, <3>1
    <3>2. CASE b < k - 1
      <4>1. Sums(f)[k - 1] < Sums(g)[k - 1]
        BY <1>2, <2>4, <3>2
      <4>2. QED
        BY <2>1, <2>2, <4>1
    <3>3. QED
      BY <2>4, <3>1, <3>2, NAssumption DEF Backends
  <2>5. QED
    BY <2>3, <2>4
<1>3. \A k \in 0 .. N : k \in good
  <2> HIDE DEF good
  <2>1. QED
    BY <1>1, <1>2, UpTo, NAssumption
<1>4. N \in good /\ \A b \in Backends : b < N
  BY <1>3, NAssumption DEF Backends
<1>5. QED
  BY <1>4 DEF Total

(* Of two functions with one sum, ordered pointwise, none exceeds the other. *)
LEMMA SumsEqual ==
  ASSUME NEW f \in [Backends -> Int], NEW g \in [Backends -> Int],
         \A b \in Backends : f[b] <= g[b], Total(f) = Total(g)
  PROVE  \A b \in Backends : f[b] = g[b]
<1> SUFFICES ASSUME NEW b \in Backends, f[b] # g[b]
             PROVE  FALSE
  OBVIOUS
<1>1. f[b] < g[b]
  OBVIOUS
<1>2. Total(f) < Total(g)
  BY <1>1, SumsMonotone
<1>3. QED
  BY <1>2, SumsDef

(* The sum of two functions. *)
LEMMA SumsAdd ==
  ASSUME NEW f \in [Backends -> Int], NEW g \in [Backends -> Int],
         NEW h \in [Backends -> Int], \A b \in Backends : h[b] = f[b] + g[b]
  PROVE  Total(h) = Total(f) + Total(g)
<1> DEFINE good == {k \in 0 .. N : Sums(h)[k] = Sums(f)[k] + Sums(g)[k]}
<1>1. 0 \in good
  <2>1. Sums(f)[0] = 0 /\ Sums(g)[0] = 0 /\ Sums(h)[0] = 0
    BY SumsDef
  <2>2. QED
    BY <2>1, NAssumption
<1>2. ASSUME NEW k \in 1 .. N, k - 1 \in good
      PROVE  k \in good
  <2>1. /\ k - 1 \in Backends /\ f[k - 1] \in Int /\ g[k - 1] \in Int
        /\ Sums(f)[k - 1] \in Int /\ Sums(g)[k - 1] \in Int
        /\ Sums(f)[k] = Sums(f)[k - 1] + f[k - 1]
        /\ Sums(g)[k] = Sums(g)[k - 1] + g[k - 1]
        /\ Sums(h)[k] = Sums(h)[k - 1] + h[k - 1]
    BY SumsStep
  <2>2. Sums(h)[k - 1] = Sums(f)[k - 1] + Sums(g)[k - 1] /\ h[k - 1] = f[k - 1] + g[k - 1]
    BY <1>2, <2>1
  <2>3. QED
    BY <2>1, <2>2
<1>3. \A k \in 0 .. N : k \in good
  <2> HIDE DEF good
  <2>1. QED
    BY <1>1, <1>2, UpTo, NAssumption
<1>4. QED
  BY <1>3, NAssumption DEF Total

(* A function that is 0 but for one backend sums to its value there. *)
LEMMA SumsSingle ==
  ASSUME NEW f \in [Backends -> Int], NEW c \in Backends,
         \A b \in Backends : b # c => f[b] = 0
  PROVE  Total(f) = f[c]
<1> DEFINE good == {k \in 0 .. N : Sums(f)[k] = IF c < k THEN f[c] ELSE 0}
<1>1. 0 \in good
  <2>1. Sums(f)[0] = 0
    BY SumsDef
  <2>2. QED
    BY <2>1, NAssumption DEF Backends
<1>2. ASSUME NEW k \in 1 .. N, k - 1 \in good
      PROVE  k \in good
  <2>1. /\ k - 1 \in Backends /\ f[k - 1] \in Int /\ f[c] \in Int
        /\ Sums(f)[k - 1] \in Int
        /\ Sums(f)[k] = Sums(f)[k - 1] + f[k - 1]
    BY SumsStep
  <2>2. Sums(f)[k - 1] = IF c < k - 1 THEN f[c] ELSE 0
    BY <1>2
  <2>3. CASE c = k - 1
    BY <2>1, <2>2, <2>3
  <2>4. CASE c # k - 1
    BY <2>1, <2>2, <2>4 DEF Backends
  <2>5. QED
    BY <2>3, <2>4
<1>3. \A k \in 0 .. N : k \in good
  <2> HIDE DEF good
  <2>1. QED
    BY <1>1, <1>2, UpTo, NAssumption
<1>4. N \in good /\ c < N
  BY <1>3, NAssumption DEF Backends
<1>5. QED
  BY <1>4 DEF Total

(* A function that is 0 everywhere sums to 0; one that is never negative     *)
(* sums to more unless it is.                                                *)
LEMMA SumsZero ==
  ASSUME NEW f \in [Backends -> Int]
  PROVE  /\ (\A b \in Backends : f[b] = 0) => Total(f) = 0
         /\ (\A b \in Backends : f[b] >= 0) => Total(f) >= 0
         /\ (\A b \in Backends : f[b] >= 0) /\ (\E b \in Backends : f[b] > 0) => Total(f) > 0
<1> DEFINE zero == [b \in Backends |-> 0]
<1>1. zero \in [Backends -> Int] /\ 0 \in Backends /\ \A b \in Backends : zero[b] = 0
  BY NAssumption DEF Backends
<1> HIDE DEF zero
<1>2. Total(zero) = 0
  BY <1>1, SumsSingle
<1>3. ASSUME \A b \in Backends : f[b] = 0
      PROVE  Total(f) = 0
  BY <1>1, <1>3, SumsSingle
<1>4. ASSUME \A b \in Backends : f[b] >= 0
      PROVE  Total(f) >= 0 /\ ((\E b \in Backends : f[b] > 0) => Total(f) > 0)
  <2>1. \A b \in Backends : zero[b] <= f[b]
    BY <1>1, <1>4
  <2>2. Total(zero) <= Total(f) /\ ((\E b \in Backends : zero[b] < f[b]) => Total(zero) < Total(f))
    BY <1>1, <2>1, SumsMonotone
  <2>3. QED
    BY <1>1, <1>2, <2>2, SumsDef
<1>5. QED
  BY <1>3, <1>4

(***************************************************************************)
(* Multiples: the projection divides without a remainder.                  *)
(***************************************************************************)

Multiple(x, m) == \E z \in Int : x = m * z

LEMMA MultiplesAdd ==
  ASSUME NEW m \in Int, NEW x \in Int, NEW y \in Int, Multiple(x, m), Multiple(y, m)
  PROVE  Multiple(x + y, m) /\ Multiple(x - y, m)
<1>1. PICK i \in Int : x = m * i
  BY DEF Multiple
<1>2. PICK j \in Int : y = m * j
  BY DEF Multiple
<1>3. m * (i + j) = m * i + m * j /\ m * (i - j) = m * i - m * j
  OBVIOUS
<1>4. i + j \in Int /\ i - j \in Int /\ x + y = m * (i + j) /\ x - y = m * (i - j)
  BY <1>1, <1>2, <1>3
<1>5. QED
  BY <1>4, Zenon DEF Multiple

LEMMA MultiplesTimes ==
  ASSUME NEW m \in Int, NEW x \in Int, NEW c \in Int, Multiple(x, m)
  PROVE  Multiple(x * c, m)
<1>1. PICK i \in Int : x = m * i
  BY DEF Multiple
<1>2. (m * i) * c = m * (i * c)
  OBVIOUS
<1>3. i * c \in Int /\ x * c = m * (i * c)
  BY <1>1, <1>2
<1>4. QED
  BY <1>3, Zenon DEF Multiple

LEMMA MultiplesFollow ==
  ASSUME NEW m \in Int, NEW d \in Int, NEW x \in Int, Multiple(x, m), Multiple(m, d)
  PROVE  Multiple(x, d)
<1>1. PICK i \in Int : x = m * i
  BY DEF Multiple
<1>2. Multiple(m * i, d)
  BY MultiplesTimes
<1>3. QED
  BY <1>1, <1>2

LEMMA NoRemainder ==
  ASSUME NEW x \in Int, NEW m \in Nat \ {0}, x % m = 0
  PROVE  Multiple(x, m)
<1>1. x \div m \in Int /\ x = m * (x \div m) + (x % m)
  OBVIOUS
<1>2. x = m * (x \div m)
  BY <1>1
<1>3. QED
  BY <1>1, <1>2, Zenon DEF Multiple

(* A multiple of r * m divided by r. *)
LEMMA ExactQuotient ==
  ASSUME NEW r \in Nat \ {0}, NEW m \in Int, NEW x \in Int, Multiple(x, r * m)
  PROVE  /\ x \div r \in Int /\ Multiple(x \div r, m)
         /\ r * (x \div r) = x
<1>1. PICK i \in Int : x = (r * m) * i
  BY DEF Multiple
<1> DEFINE y == m * i
<1>2. y \in Int /\ x = r * y
  <2>1. (r * m) * i = r * (m * i)
    OBVIOUS
  <2>2. QED
    BY <1>1, <2>1
<1>3. Multiple(y, m)
  BY <1>1 DEF Multiple
<1> HIDE DEF y
<1>4. (r * y) \div r = y
  BY <1>2
<1>5. QED
  BY <1>2, <1>3, <1>4

(* A sum of multiples. *)
LEMMA SumsMultiple ==
  ASSUME NEW f \in [Backends -> Int], NEW m \in Int,
         \A b \in Backends : Multiple(f[b], m)
  PROVE  \A k \in 0 .. N : Multiple(Sums(f)[k], m)
<1> DEFINE good == {k \in 0 .. N : Multiple(Sums(f)[k], m)}
<1>1. 0 \in good
  <2>1. Sums(f)[0] = 0 /\ 0 \in 0 .. N
    BY SumsDef, NAssumption
  <2>2. Multiple(0, m)
    BY DEF Multiple
  <2>3. QED
    BY <2>1, <2>2
<1>2. ASSUME NEW k \in 1 .. N, k - 1 \in good
      PROVE  k \in good
  <2>1. /\ k - 1 \in Backends /\ f[k - 1] \in Int /\ Sums(f)[k - 1] \in Int
        /\ Sums(f)[k] = Sums(f)[k - 1] + f[k - 1]
    BY SumsStep
  <2>2. Multiple(f[k - 1], m) /\ Multiple(Sums(f)[k - 1], m)
    BY <1>2, <2>1
  <2>3. Multiple(Sums(f)[k - 1] + f[k - 1], m)
    BY <2>1, <2>2, MultiplesAdd
  <2>4. QED
    BY <2>1, <2>3
<1>3. \A k \in 0 .. N : k \in good
  <2> HIDE DEF good
  <2>1. QED
    BY <1>1, <1>2, UpTo, NAssumption
<1>4. QED
  BY <1>3

(***************************************************************************)
(* Sorting.                                                                *)
(***************************************************************************)

(* o takes every backend once. *)
Rearranges(o) ==
  /\ o \in [Backends -> Backends]
  /\ \A j, k \in Backends : o[j] = o[k] => j = k
  /\ \A b \in Backends : \E k \in Backends : o[k] = b

(* The order of the summands does not matter. *)
LEMMA SumsRearranged ==
  ASSUME NEW f \in [Backends -> Int], NEW o, Rearranges(o),
         NEW g \in [Backends -> Int], \A k \in Backends : g[k] = f[o[k]]
  PROVE  Total(g) = Total(f)
<1> DEFINE Met(k) == [b \in Backends |-> IF \E j \in Backends : j < k /\ o[j] = b
                                         THEN f[b] ELSE 0]
           good == {k \in 0 .. N : Sums(g)[k] = Total(Met(k))}
<1>1. \A k \in 0 .. N : Met(k) \in [Backends -> Int]
  OBVIOUS
<1>2. 0 \in good
  <2>1. \A b \in Backends : Met(0)[b] = 0
    BY NAssumption DEF Backends
  <2>2. Met(0) \in [Backends -> Int] /\ 0 \in 0 .. N
    BY NAssumption
  <2> HIDE DEF Met
  <2>3. Total(Met(0)) = 0
    BY <2>1, <2>2, SumsZero
  <2>4. Sums(g)[0] = 0
    BY SumsDef
  <2>5. QED
    BY <2>2, <2>3, <2>4
<1>3. ASSUME NEW k \in 1 .. N, k - 1 \in good
      PROVE  k \in good
  <2>1. /\ k - 1 \in Backends /\ Sums(g)[k - 1] \in Int
        /\ Sums(g)[k] = Sums(g)[k - 1] + g[k - 1]
    BY SumsStep
  <2> DEFINE c == o[k - 1]
             single == [b \in Backends |-> IF b = c THEN f[c] ELSE 0]
  <2>2. c \in Backends /\ g[k - 1] = f[c]
    BY <2>1 DEF Rearranges
  <2>3. single \in [Backends -> Int] /\ single[c] = f[c]
        /\ \A b \in Backends : b # c => single[b] = 0
    BY <2>2
  <2>4. ASSUME NEW b \in Backends
        PROVE  Met(k)[b] = Met(k - 1)[b] + single[b]
    <3>1. CASE b = c
      <4>1. ~ \E j \in Backends : j < k - 1 /\ o[j] = b
        BY <2>1, <3>1 DEF Rearranges, Backends
      <4>2. \E j \in Backends : j < k /\ o[j] = b
        BY <2>1, <3>1 DEF Backends
      <4>3. QED
        BY <2>3, <3>1, <4>1, <4>2
    <3>2. CASE b # c
      <4>1. (\E j \in Backends : j < k /\ o[j] = b) <=> (\E j \in Backends : j < k - 1 /\ o[j] = b)
        BY <2>1, <3>2 DEF Backends
      <4>2. QED
        BY <2>3, <3>2, <4>1
    <3>3. QED
      BY <3>1, <3>2
  <2>5. Met(k) \in [Backends -> Int] /\ Met(k - 1) \in [Backends -> Int]
    BY <1>1
  <2> HIDE DEF Met, single, c
  <2>6. Total(Met(k)) = Total(Met(k - 1)) + Total(single)
    BY <2>3, <2>4, <2>5, SumsAdd
  <2>7. Total(single) = f[c]
    BY <2>2, <2>3, SumsSingle
  <2>8. QED
    BY <1>3, <2>1, <2>2, <2>6, <2>7
<1>4. \A k \in 0 .. N : k \in good
  <2> HIDE DEF good
  <2>1. QED
    BY <1>2, <1>3, UpTo, NAssumption
<1>5. Met(N) = f
  <2>1. \A b \in Backends : \E j \in Backends : j < N /\ o[j] = b
    BY NAssumption DEF Rearranges, Backends
  <2>2. QED
    BY <2>1
<1>6. QED
  BY <1>4, <1>5, NAssumption DEF Total

(* o lists 0 .. n - 1, the largest component of v first. *)
SortsFirst(o, n, v) ==
  /\ o \in [0 .. n - 1 -> 0 .. n - 1]
  /\ \A b \in 0 .. n - 1 : \E k \in 0 .. n - 1 : o[k] = b
  /\ \A j, k \in 0 .. n - 1 : j < k => o[j] # o[k] /\ v[o[j]] >= v[o[k]]

(* Insertion of the next component into the list of the ones before it. *)
LEMMA SortsNext ==
  ASSUME NEW v \in [Backends -> Int], NEW n \in 1 .. N, NEW o, SortsFirst(o, n - 1, v)
  PROVE  \E p : SortsFirst(p, n, v)
<1> DEFINE new == n - 1
           smaller == {i \in 0 .. n - 1 : i = n - 1 \/ v[o[i]] < v[new]}
<1>1. smaller \subseteq Nat /\ n - 1 \in smaller
  OBVIOUS
<1>2. PICK at \in smaller : \A i \in smaller : at <= i
  <2> HIDE DEF smaller
  <2>1. QED
    BY <1>1, Least
<1>3. /\ at \in 0 .. n - 1 /\ (at = n - 1 \/ v[o[at]] < v[new])
      /\ \A i \in 0 .. n - 2 : i < at => v[o[i]] >= v[new]
  <2>1. \A i \in 0 .. n - 2 : o[i] \in 0 .. n - 2
    BY DEF SortsFirst
  <2>2. \A i \in 0 .. n - 1 : i \in Backends
    BY NAssumption DEF Backends
  <2>3. v[new] \in Int /\ \A i \in 0 .. n - 2 : v[o[i]] \in Int
    BY <2>1, <2>2
  <2>4. QED
    BY <1>2, <2>3
<1> HIDE DEF smaller
<1> DEFINE p == [k \in 0 .. n - 1 |-> IF k < at THEN o[k] ELSE IF k = at THEN new ELSE o[k - 1]]
<1>4. \A i \in 0 .. n - 2 : o[i] \in 0 .. n - 2
  BY DEF SortsFirst
<1>5. \A k \in 0 .. n - 1 : /\ k < at => p[k] = o[k] /\ k \in 0 .. n - 2
                            /\ k = at => p[k] = new
                            /\ k > at => p[k] = o[k - 1] /\ k - 1 \in 0 .. n - 2
  BY <1>3
<1>6. p \in [0 .. n - 1 -> 0 .. n - 1]
  BY <1>3, <1>4
<1> HIDE DEF p
<1>7. ASSUME NEW b \in 0 .. n - 1
      PROVE  \E k \in 0 .. n - 1 : p[k] = b
  <2>1. CASE b = new
    BY <1>3, <1>5, <2>1
  <2>2. CASE b # new
    <3>1. PICK k \in 0 .. n - 2 : o[k] = b
      BY <2>2 DEF SortsFirst
    <3>2. CASE k < at
      BY <1>5, <3>1, <3>2
    <3>3. CASE k >= at
      <4>1. k + 1 \in 0 .. n - 1 /\ k + 1 > at /\ (k + 1) - 1 = k
        BY <1>3, <3>3
      <4>2. p[k + 1] = o[k]
        BY <1>5, <4>1
      <4>3. QED
        BY <3>1, <4>1, <4>2
    <3>4. QED
      BY <1>3, <3>2, <3>3
  <2>3. QED
    BY <2>1, <2>2
<1>8. ASSUME NEW j \in 0 .. n - 1, NEW k \in 0 .. n - 1, j < k
      PROVE  p[j] # p[k] /\ v[p[j]] >= v[p[k]]
  <2>1. \A x, y \in 0 .. n - 2 : x < y => o[x] # o[y] /\ v[o[x]] >= v[o[y]]
    <3>1. 0 .. n - 2 = 0 .. (n - 1) - 1
      OBVIOUS
    <3>2. QED
      BY <3>1, Zenon DEF SortsFirst
  <2>2. \A i \in 0 .. n - 2 : v[o[i]] \in Int /\ o[i] # new
    BY <1>4, NAssumption DEF Backends
  <2>3. v[new] \in Int
    BY NAssumption DEF Backends
  <2> HIDE DEF new
  <2>4. CASE k < at
    BY <1>3, <1>5, <1>8, <2>1, <2>4
  <2>5. CASE k = at
    BY <1>3, <1>5, <1>8, <2>2, <2>5
  <2>6. CASE k > at /\ j < at
    <3>1. j < k - 1 /\ p[j] = o[j] /\ p[k] = o[k - 1] /\ j \in 0 .. n - 2 /\ k - 1 \in 0 .. n - 2
      BY <1>3, <1>5, <2>6
    <3>2. QED
      BY <2>1, <3>1
  <2>7. CASE k > at /\ j = at
    <3>1. p[j] = new /\ p[k] = o[k - 1] /\ k - 1 \in 0 .. n - 2 /\ at \in 0 .. n - 2
      BY <1>3, <1>5, <2>7
    <3>2. v[o[at]] < v[new]
      BY <1>3, <3>1
    <3>3. v[o[at]] >= v[o[k - 1]]
      BY <2>1, <2>2, <2>7, <3>1
    <3>4. QED
      BY <2>2, <2>3, <3>1, <3>2, <3>3
  <2>8. CASE k > at /\ j > at
    <3>1. j - 1 < k - 1 /\ p[j] = o[j - 1] /\ p[k] = o[k - 1]
          /\ j - 1 \in 0 .. n - 2 /\ k - 1 \in 0 .. n - 2
      BY <1>3, <1>5, <1>8, <2>8
    <3>2. QED
      BY <2>1, <3>1
  <2>9. QED
    BY <1>3, <1>8, <2>4, <2>5, <2>6, <2>7, <2>8
<1>9. SortsFirst(p, n, v)
  BY <1>6, <1>7, <1>8 DEF SortsFirst
<1>10. QED
  BY <1>9

(* Every vector can be sorted. *)
LEMMA SortExists ==
  ASSUME NEW v \in [Backends -> Int]
  PROVE  \E o : SortsFirst(o, N, v)
<1> DEFINE good == {n \in 0 .. N : \E o : SortsFirst(o, n, v)}
<1>1. 0 \in good
  <2> DEFINE none == [k \in 0 .. 0 - 1 |-> 0]
  <2>1. 0 .. 0 - 1 = {}
    OBVIOUS
  <2>2. none \in [0 .. 0 - 1 -> 0 .. 0 - 1]
    BY <2>1
  <2> HIDE DEF none
  <2>3. SortsFirst(none, 0, v)
    BY <2>1, <2>2 DEF SortsFirst
  <2>4. QED
    BY <2>3, NAssumption
<1>2. ASSUME NEW n \in 1 .. N, n - 1 \in good
      PROVE  n \in good
  BY <1>2, SortsNext
<1>3. \A n \in 0 .. N : n \in good
  <2> HIDE DEF good
  <2>1. QED
    BY <1>1, <1>2, UpTo, NAssumption
<1>4. QED
  BY <1>3, NAssumption

(* Sorted rearranges the components in descending order. *)
LEMMA SortedSorts ==
  ASSUME NEW v \in [Backends -> Int]
  PROVE  /\ Sorted(v) \in [Backends -> Int]
         /\ \E o : Rearranges(o) /\ \A k \in Backends : Sorted(v)[k] = v[o[k]]
         /\ \A j, k \in Backends : j < k => Sorted(v)[j] >= Sorted(v)[k]
<1> DEFINE pairs == {<<v[b], b>> : b \in Backends}
           Ranks(s) == /\ \A j, k \in Backends : j < k => s[j] # s[k] /\ s[j][1] >= s[k][1]
                       /\ \A b \in Backends : \E k \in Backends : s[k][2] = b
           ranked == CHOOSE s \in [Backends -> pairs] : Ranks(s)
<1>1. PICK p : SortsFirst(p, N, v)
  BY SortExists
<1>2. /\ p \in [Backends -> Backends]
      /\ \A b \in Backends : \E k \in Backends : p[k] = b
      /\ \A j, k \in Backends : j < k => p[j] # p[k] /\ v[p[j]] >= v[p[k]]
  BY <1>1 DEF SortsFirst, Backends
<1> DEFINE q == [k \in Backends |-> <<v[p[k]], p[k]>>]
<1>3. q \in [Backends -> pairs] /\ Ranks(q)
  BY <1>2
<1>4. ranked \in [Backends -> pairs] /\ Ranks(ranked)
  <2> HIDE DEF q, Ranks, pairs
  <2>1. QED
    BY <1>3, Zenon
<1>5. Sorted(v) = [k \in Backends |-> ranked[k][1]]
  BY Zenon DEF Sorted
<1> HIDE DEF ranked
<1> DEFINE o == [k \in Backends |-> ranked[k][2]]
<1>6. \A k \in Backends : ranked[k] = <<v[ranked[k][2]], ranked[k][2]>> /\ ranked[k][2] \in Backends
  BY <1>4
<1>7. \A k \in Backends : Sorted(v)[k] = v[o[k]] /\ o[k] \in Backends /\ ranked[k] = <<v[o[k]], o[k]>>
  BY <1>5, <1>6
<1>8. Sorted(v) \in [Backends -> Int]
  BY <1>5, <1>6
<1>9. o \in [Backends -> Backends]
  BY <1>6
<1>10. \A b \in Backends : \E k \in Backends : o[k] = b
  BY <1>4
<1>11. \A j, k \in Backends : j < k => o[j] # o[k] /\ Sorted(v)[j] >= Sorted(v)[k]
  <2>1. \A j, k \in Backends : j < k => ranked[j] # ranked[k] /\ ranked[j][1] >= ranked[k][1]
    BY <1>4
  <2>2. \A k \in Backends : Sorted(v)[k] = ranked[k][1]
    BY <1>5
  <2> HIDE DEF o
  <2>3. \A j, k \in Backends : j < k => o[j] # o[k]
    BY <1>7, <2>1, Zenon
  <2>4. QED
    BY <2>1, <2>2, <2>3
<1> HIDE DEF o, Ranks, pairs
<1>12. \A j, k \in Backends : o[j] = o[k] => j = k
  BY <1>11 DEF Backends
<1>13. Rearranges(o)
  BY <1>9, <1>10, <1>12 DEF Rearranges
<1>14. QED
  BY <1>7, <1>8, <1>11, <1>13

(* Products are ordered like their factors. *)
LEMMA ProductOrder ==
  ASSUME NEW r \in Nat \ {0}, NEW x \in Int, NEW y \in Int
  PROVE  /\ r * x > r * y => x > y
         /\ r * x <= r * y => x <= y
<1>1. ASSUME NEW a \in Int, NEW b \in Int, a < b
      PROVE  r * a < r * b
  <2>1. b - a \in Nat \ {0} /\ b = a + (b - a)
    BY <1>1
  <2>2. \A z \in Nat \ {0} : r * z > 0 /\ r * (a + z) = r * a + r * z
    OBVIOUS
  <2>3. r * b = r * a + r * (b - a) /\ r * (b - a) > 0
    BY <2>1, <2>2
  <2>4. QED
    BY <2>3
<1>2. x < y => r * x < r * y
  BY <1>1
<1>3. y < x => r * y < r * x
  BY <1>1
<1>4. r * x \in Int /\ r * y \in Int
  OBVIOUS
<1>5. x = y => r * x = r * y
  OBVIOUS
<1>6. QED
  BY <1>2, <1>3, <1>4, <1>5

-----------------------------------------------------------------------------
(***************************************************************************)
(* Powers and discounted sums.                                             *)
(***************************************************************************)

Powers(g, n) ==
  LET power[d \in 0 .. n] == IF d = 0 THEN 1 ELSE g * power[d - 1] IN power

(* The powers are what their recursive definition says. *)
LEMMA PowersDef ==
  ASSUME NEW g \in Int, NEW n \in Nat
  PROVE  /\ Powers(g, n) \in [0 .. n -> Int] /\ Powers(g, n)[0] = 1
         /\ \A k \in 1 .. n : Powers(g, n)[k] = g * Powers(g, n)[k - 1]
         /\ Power(g, n) = Powers(g, n)[n]
<1> DEFINE Multiplies(s) == s = [d \in 0 .. n |-> IF d = 0 THEN 1 ELSE g * s[d - 1]]
           step == [k \in 1 .. n |-> [x \in Int |-> g * x]]
<1>1. step \in [1 .. n -> [Int -> Int]]
  OBVIOUS
<1>2. PICK s : Recurs(s, n, Int, 1, step)
  <2> HIDE DEF step
  <2>1. 1 \in Int
    OBVIOUS
  <2>2. QED
    BY ONLY n \in Nat, <1>1, <2>1, Recursion, Zenon
<1>3. Multiplies(s)
  <2>1. \A k \in 1 .. n : k - 1 \in 0 .. n /\ s[k - 1] \in Int
    BY <1>2 DEF Recurs
  <2>2. \A k \in 1 .. n : step[k][s[k - 1]] = g * s[k - 1]
    BY <2>1
  <2>3. \A k \in 1 .. n : s[k] = g * s[k - 1]
    BY <1>2, <2>2 DEF Recurs
  <2>4. QED
    BY <1>2, <2>3 DEF Recurs
<1>4. Multiplies(Powers(g, n))
  <2> HIDE DEF Multiplies
  <2>1. Powers(g, n) = CHOOSE t : Multiplies(t)
    BY Zenon DEF Powers, Multiplies
  <2>2. QED
    BY <1>3, <2>1, Zenon
<1> DEFINE t == Powers(g, n)
<1> HIDE DEF t
<1>5. t = [d \in 0 .. n |-> IF d = 0 THEN 1 ELSE g * t[d - 1]]
  BY <1>4 DEF t
<1>6. t[0] = 1 /\ \A k \in 1 .. n : t[k] = g * t[k - 1]
  <2>1. \A k \in 0 .. n : t[k] = IF k = 0 THEN 1 ELSE g * t[k - 1]
    BY ONLY <1>5, Zenon
  <2>2. 0 \in 0 .. n /\ \A k \in 1 .. n : k \in 0 .. n /\ k # 0
    OBVIOUS
  <2>3. QED
    BY <2>1, <2>2
<1> DEFINE ints == {k \in 0 .. n : t[k] \in Int}
<1>7. 0 \in ints /\ \A k \in 1 .. n : k - 1 \in ints => k \in ints
  BY <1>6
<1>8. \A k \in 0 .. n : k \in ints
  <2> HIDE DEF ints
  <2>1. QED
    BY <1>7, UpTo
<1>9. t \in [0 .. n -> Int]
  <2>1. \A k \in 0 .. n : t[k] \in Int
    BY <1>8
  <2>2. DOMAIN t = 0 .. n /\ t = [k \in DOMAIN t |-> t[k]]
    BY <1>5
  <2>3. QED
    BY <2>1, <2>2
<1>10. Power(g, n) = t[n]
  BY Zenon DEF Power, Powers, t
<1>11. QED
  BY <1>6, <1>9, <1>10 DEF t

(* The next power is g times the one before it. *)
LEMMA PowerNext ==
  ASSUME NEW g \in Int, NEW n \in Nat
  PROVE  /\ Power(g, 0) = 1 /\ Power(g, n) \in Int
         /\ Power(g, n + 1) = g * Power(g, n)
<1> DEFINE p == Powers(g, n)
           q == Powers(g, n + 1)
<1>1. /\ p \in [0 .. n -> Int] /\ p[0] = 1
      /\ \A k \in 1 .. n : p[k] = g * p[k - 1]
      /\ Power(g, n) = p[n]
  BY PowersDef, Zenon
<1>2. n + 1 \in Nat
  OBVIOUS
<1>3. /\ q \in [0 .. n + 1 -> Int] /\ q[0] = 1
      /\ \A k \in 1 .. n + 1 : q[k] = g * q[k - 1]
      /\ Power(g, n + 1) = q[n + 1]
  BY <1>2, PowersDef, Zenon
<1>4. Power(g, 0) = 1
  BY PowersDef
<1> HIDE DEF p, q
<1> DEFINE same == {k \in 0 .. n : p[k] = q[k]}
<1>5. 0 \in same
  BY <1>1, <1>3
<1>6. \A k \in 1 .. n : k - 1 \in same => k \in same
  <2>1. SUFFICES ASSUME NEW k \in 1 .. n, k - 1 \in same PROVE k \in same
    OBVIOUS
  <2>2. k \in 1 .. n /\ k \in 1 .. n + 1 /\ k \in 0 .. n
    OBVIOUS
  <2>3. p[k] = g * p[k - 1] /\ q[k] = g * q[k - 1]
    BY ONLY <1>1, <1>3, <2>2, Zenon
  <2>4. p[k - 1] = q[k - 1]
    BY <2>1
  <2>5. p[k] = q[k]
    BY ONLY <2>3, <2>4, Zenon
  <2>6. QED
    BY <2>2, <2>5
<1>7. n \in same
  <2> HIDE DEF same
  <2>1. QED
    BY <1>5, <1>6, UpTo
<1>8. p[n] = q[n] /\ p[n] \in Int
  BY <1>1, <1>7
<1>9. q[n + 1] = g * q[n]
  BY <1>3
<1>10. QED
  BY ONLY <1>1, <1>3, <1>4, <1>8, <1>9, Zenon

(* Powers of a positive number are positive. *)
LEMMA PowerPositive ==
  ASSUME NEW g \in Nat \ {0}, NEW n \in Nat
  PROVE  Power(g, n) \in Nat \ {0}
<1> DEFINE positive == {k \in 0 .. n : Power(g, k) \in Nat \ {0}}
<1>1. 0 \in positive
  BY PowerNext
<1>2. \A k \in 1 .. n : k - 1 \in positive => k \in positive
  <2>1. SUFFICES ASSUME NEW k \in 1 .. n, k - 1 \in positive PROVE k \in positive
    OBVIOUS
  <2>2. k - 1 \in Nat /\ (k - 1) + 1 = k /\ Power(g, k - 1) \in Nat \ {0} /\ g \in Int
    BY <2>1
  <2>3. Power(g, (k - 1) + 1) = g * Power(g, k - 1)
    BY ONLY <2>2, PowerNext, Zenon
  <2>4. Power(g, k) = g * Power(g, k - 1)
    BY <2>2, <2>3
  <2>5. \A x \in Nat \ {0} : g * x \in Nat \ {0}
    OBVIOUS
  <2>6. QED
    BY <2>2, <2>4, <2>5
<1>3. n \in positive
  <2> HIDE DEF positive
  <2>1. QED
    BY <1>1, <1>2, UpTo
<1>4. QED
  BY <1>3

DiscountedSums(x, g, t, n) ==
  LET sum[d \in 0 .. n] ==
        IF d = 0 THEN 0 ELSE sum[d - 1] + Power(g, d - 1) * x[t + d - 1]
  IN  sum

(* x is a number at the n places from t on. *)
NumbersFrom(x, t, n) == \A k \in t .. t + n - 1 : x[k] \in Int

(* f are the sums of the terms of x from t on. *)
SumsUp(f, x, g, t, n) ==
  /\ f \in [0 .. n -> Int] /\ f[0] = 0
  /\ \A k \in 1 .. n : f[k] = f[k - 1] + Power(g, k - 1) * x[t + (k - 1)]

(* The discounted sums are what their recursive definition says. *)
LEMMA DiscountedDef ==
  ASSUME NEW x, NEW g \in Int, NEW t \in Int, NEW n \in Nat, NumbersFrom(x, t, n)
  PROVE  /\ SumsUp(DiscountedSums(x, g, t, n), x, g, t, n)
         /\ Discounted(x, g, t, n) = DiscountedSums(x, g, t, n)[n]
<1> DEFINE term == [k \in 1 .. n |-> Power(g, k - 1) * x[t + (k - 1)]]
           Adds(s) == s = [d \in 0 .. n |->
                             IF d = 0 THEN 0
                             ELSE s[d - 1] + Power(g, d - 1) * x[t + d - 1]]
           step == [k \in 1 .. n |-> [y \in Int |-> y + term[k]]]
<1>1. \A k \in 1 .. n : term[k] \in Int
  <2>1. SUFFICES ASSUME NEW k \in 1 .. n PROVE Power(g, k - 1) * x[t + (k - 1)] \in Int
    OBVIOUS
  <2>2. k - 1 \in Nat /\ t + (k - 1) \in t .. t + n - 1
    OBVIOUS
  <2>3. x[t + (k - 1)] \in Int
    BY <2>2 DEF NumbersFrom
  <2>4. Power(g, k - 1) \in Int
    BY <2>2, PowerNext
  <2>5. \A a, b \in Int : a * b \in Int
    OBVIOUS
  <2>6. QED
    BY <2>3, <2>4, <2>5
<1>2. \A k \in 1 .. n : term[k] = Power(g, k - 1) * x[t + (k - 1)]
  OBVIOUS
<1> HIDE DEF term
<1>3. step \in [1 .. n -> [Int -> Int]]
  BY <1>1
<1>4. PICK s : Recurs(s, n, Int, 0, step)
  <2> HIDE DEF step
  <2>1. 0 \in Int
    OBVIOUS
  <2>2. QED
    BY ONLY n \in Nat, <1>3, <2>1, Recursion, Zenon
<1>5. \A k \in 1 .. n : s[k] = s[k - 1] + term[k]
  <2>1. \A k \in 1 .. n : k - 1 \in 0 .. n /\ s[k - 1] \in Int
    BY <1>4 DEF Recurs
  <2>2. \A k \in 1 .. n : step[k][s[k - 1]] = s[k - 1] + term[k]
    BY <2>1
  <2>3. QED
    BY <1>4, <2>2 DEF Recurs
<1>6. Adds(s)
  <2> DEFINE body == [d \in 0 .. n |-> IF d = 0 THEN 0
                                       ELSE s[d - 1] + Power(g, d - 1) * x[t + d - 1]]
  <2>1. DOMAIN s = 0 .. n /\ s = [d \in DOMAIN s |-> s[d]] /\ s[0] = 0
    BY <1>4 DEF Recurs
  <2>2. \A d \in 0 .. n : s[d] = IF d = 0 THEN 0
                                 ELSE s[d - 1] + Power(g, d - 1) * x[t + (d - 1)]
    <3>1. SUFFICES ASSUME NEW d \in 0 .. n, d # 0
                   PROVE  s[d] = s[d - 1] + Power(g, d - 1) * x[t + (d - 1)]
      BY <2>1
    <3>2. d \in 1 .. n
      BY <3>1
    <3>3. QED
      BY ONLY <1>2, <1>5, <3>2, Zenon
  <2>3. QED
    BY ONLY <2>1, <2>2, Zenon
<1>7. Adds(DiscountedSums(x, g, t, n))
  <2> HIDE DEF Adds
  <2>1. DiscountedSums(x, g, t, n) = CHOOSE f : Adds(f)
    BY Zenon DEF DiscountedSums, Adds
  <2>2. QED
    BY <1>6, <2>1, Zenon
<1> DEFINE f == DiscountedSums(x, g, t, n)
<1> HIDE DEF f
<1>8. f = [d \in 0 .. n |->
             IF d = 0 THEN 0 ELSE f[d - 1] + Power(g, d - 1) * x[t + d - 1]]
  BY <1>7 DEF f
<1>9. f[0] = 0 /\ \A k \in 1 .. n : f[k] = f[k - 1] + term[k]
  <2>1. \A k \in 0 .. n : f[k] = IF k = 0 THEN 0
                                 ELSE f[k - 1] + Power(g, k - 1) * x[t + (k - 1)]
    BY ONLY <1>8, Zenon
  <2>2. 0 \in 0 .. n /\ \A k \in 1 .. n : k \in 0 .. n /\ k # 0
    OBVIOUS
  <2>3. QED
    BY ONLY <1>2, <2>1, <2>2, Zenon
<1> DEFINE ints == {k \in 0 .. n : f[k] \in Int}
<1>10. 0 \in ints /\ \A k \in 1 .. n : k - 1 \in ints => k \in ints
  BY <1>1, <1>9
<1>11. \A k \in 0 .. n : k \in ints
  <2> HIDE DEF ints
  <2>1. QED
    BY <1>10, UpTo
<1>12. f \in [0 .. n -> Int]
  <2>1. \A k \in 0 .. n : f[k] \in Int
    BY <1>11
  <2>2. DOMAIN f = 0 .. n /\ f = [k \in DOMAIN f |-> f[k]]
    BY ONLY <1>8, Zenon
  <2>3. QED
    BY <2>1, <2>2
<1>13. Discounted(x, g, t, n) = f[n]
  BY Zenon DEF Discounted, DiscountedSums, f
<1>14. \A k \in 1 .. n : f[k] = f[k - 1] + Power(g, k - 1) * x[t + (k - 1)]
  BY ONLY <1>2, <1>9, Zenon
<1>15. SumsUp(f, x, g, t, n)
  BY ONLY <1>9, <1>12, <1>14, Zenon DEF SumsUp
<1>16. QED
  BY ONLY <1>13, <1>15, Zenon DEF f

Unfolds(x, g, t, n) ==
  /\ x[t] \in Int /\ Discounted(x, g, t + 1, n) \in Int
  /\ Discounted(x, g, t, 0) = 0
  /\ Discounted(x, g, t, n + 1) = x[t] + g * Discounted(x, g, t + 1, n)

(* The sum from t on is its first term and g times the sum from t + 1 on. *)
LEMMA DiscountedFirst ==
  ASSUME NEW x, NEW g \in Int, NEW t \in Int, NEW n \in Nat, NumbersFrom(x, t, n + 1)
  PROVE  Unfolds(x, g, t, n)
<1>1. n + 1 \in Nat /\ t + 1 \in Int /\ 0 \in Nat
  OBVIOUS
<1>2. NumbersFrom(x, t + 1, n) /\ NumbersFrom(x, t, 0) /\ x[t] \in Int
  BY DEF NumbersFrom
<1> DEFINE f == DiscountedSums(x, g, t, n + 1)
           h == DiscountedSums(x, g, t + 1, n)
<1>3. SumsUp(f, x, g, t, n + 1) /\ Discounted(x, g, t, n + 1) = f[n + 1]
  BY ONLY g \in Int, t \in Int, <1>1, NumbersFrom(x, t, n + 1), DiscountedDef, Zenon DEF f
<1>4. SumsUp(h, x, g, t + 1, n) /\ Discounted(x, g, t + 1, n) = h[n]
  BY ONLY g \in Int, n \in Nat, <1>1, <1>2, DiscountedDef, Zenon DEF h
<1>5. Discounted(x, g, t, 0) = 0
  <2>1. /\ SumsUp(DiscountedSums(x, g, t, 0), x, g, t, 0)
        /\ Discounted(x, g, t, 0) = DiscountedSums(x, g, t, 0)[0]
    BY ONLY g \in Int, t \in Int, <1>1, <1>2, DiscountedDef, Zenon
  <2>2. QED
    BY ONLY <2>1, Zenon DEF SumsUp
<1> HIDE DEF f, h
<1>6. /\ f \in [0 .. n + 1 -> Int] /\ f[0] = 0
      /\ \A k \in 1 .. n + 1 : f[k] = f[k - 1] + Power(g, k - 1) * x[t + (k - 1)]
      /\ Discounted(x, g, t, n + 1) = f[n + 1]
  BY ONLY <1>3, Zenon DEF SumsUp
<1>7. /\ h \in [0 .. n -> Int] /\ h[0] = 0
      /\ \A k \in 1 .. n : h[k] = h[k - 1] + Power(g, k - 1) * x[t + 1 + (k - 1)]
      /\ Discounted(x, g, t + 1, n) = h[n]
  BY ONLY <1>4, Zenon DEF SumsUp
<1> DEFINE same == {k \in 0 .. n : f[k + 1] = x[t] + g * h[k]}
<1>8. 0 \in same
  <2>1. 1 \in 1 .. n + 1 /\ 1 - 1 = 0 /\ t + 0 = t /\ 0 + 1 = 1
    OBVIOUS
  <2>2. f[1] = f[0] + Power(g, 0) * x[t + 0]
    BY <1>6, <2>1
  <2>3. Power(g, 0) = 1
    BY PowerNext
  <2>4. f[1] = x[t]
    BY <1>2, <1>6, <2>1, <2>2, <2>3
  <2>5. f[0 + 1] = x[t] + g * h[0]
    BY <1>2, <1>7, <2>1, <2>4
  <2>6. QED
    BY <2>5
<1>9. \A k \in 1 .. n : k - 1 \in same => k \in same
  <2>1. SUFFICES ASSUME NEW k \in 1 .. n, k - 1 \in same PROVE k \in same
    OBVIOUS
  <2> DEFINE p == Power(g, k - 1)
             y == x[t + k]
  <2>2. /\ k \in 0 .. n /\ k + 1 \in 1 .. n + 1 /\ k \in 1 .. n + 1 /\ (k + 1) - 1 = k
        /\ k - 1 \in Nat /\ (k - 1) + 1 = k /\ t + 1 + (k - 1) = t + k /\ k - 1 \in 0 .. n
    OBVIOUS
  <2>3. f[k + 1] = f[k] + Power(g, k) * y
    BY ONLY <1>6, <2>2, Zenon
  <2>4. h[k] = h[k - 1] + p * y
    BY ONLY <1>7, <2>2, k \in 1 .. n, Zenon
  <2>5. f[k] = x[t] + g * h[k - 1]
    BY <2>1, <2>2
  <2>6. Power(g, k) = g * p /\ p \in Int
    <3>1. /\ Power(g, k - 1) \in Int
          /\ Power(g, (k - 1) + 1) = g * Power(g, k - 1)
      BY ONLY g \in Int, <2>2, PowerNext, Zenon
    <3>2. QED
      BY ONLY <2>2, <3>1, Zenon
  <2>7. y \in Int /\ h[k - 1] \in Int /\ h[k] \in Int
    <3>1. t + k \in t .. t + (n + 1) - 1
      OBVIOUS
    <3>2. y \in Int
      BY ONLY <3>1, NumbersFrom(x, t, n + 1), Zenon DEF NumbersFrom
    <3>3. QED
      BY <1>7, <2>2, <3>2
  <2> HIDE DEF p, y
  <2>9. (x[t] + g * h[k - 1]) + (g * p) * y = x[t] + g * (h[k - 1] + p * y)
    <3>1. \A a, b, c, e, d \in Int : (a + e * b) + (e * c) * d = a + e * (b + c * d)
      OBVIOUS
    <3>2. QED
      BY ONLY g \in Int, <1>2, <2>6, <2>7, <3>1
  <2>10. f[k + 1] = x[t] + g * h[k]
    BY ONLY <2>3, <2>4, <2>5, <2>6, <2>9, Zenon
  <2>11. QED
    BY <2>2, <2>10
<1>10. n \in same
  <2> HIDE DEF same
  <2>1. QED
    BY <1>8, <1>9, UpTo
<1>11. f[n + 1] = x[t] + g * h[n] /\ h[n] \in Int
  BY <1>7, <1>10
<1>12. QED
  BY ONLY <1>2, <1>6, <1>7, <1>5, <1>11, Zenon DEF Unfolds

(* r is computed from its end: n terms from t on, and tail beyond them. *)
Accumulates(r, x, g, t, n, tail) ==
  /\ r[t + n] = tail
  /\ \A k \in t .. t + n - 1 : r[k] = x[k] + g * r[k + 1]

(* A backward recursion yields the discounted sum. *)
LEMMA BackwardSum ==
  ASSUME NEW x, NEW r, NEW g \in Int, NEW t \in Int, NEW n \in Nat, NEW tail \in Int,
         NumbersFrom(x, t, n), Accumulates(r, x, g, t, n, tail)
  PROVE  r[t] = Discounted(x, g, t, n) + Power(g, n) * tail
<1> DEFINE right == {d \in 0 .. n : r[t + (n - d)] =
                       Discounted(x, g, t + (n - d), d) + Power(g, d) * tail}
<1>1. 0 \in right
  <2>1. t + (n - 0) = t + n /\ t + n \in Int /\ 0 \in Nat /\ 0 \in 0 .. n
    OBVIOUS
  <2>2. r[t + n] = tail
    BY DEF Accumulates
  <2>3. NumbersFrom(x, t + n, 0)
    BY DEF NumbersFrom
  <2>4. SumsUp(DiscountedSums(x, g, t + n, 0), x, g, t + n, 0)
        /\ Discounted(x, g, t + n, 0) = DiscountedSums(x, g, t + n, 0)[0]
    BY ONLY g \in Int, <2>1, <2>3, DiscountedDef, Zenon
  <2>5. Discounted(x, g, t + n, 0) = 0
    BY ONLY <2>4, Zenon DEF SumsUp
  <2>6. Power(g, 0) = 1
    BY PowerNext
  <2>7. tail = Discounted(x, g, t + n, 0) + Power(g, 0) * tail
    BY <2>5, <2>6
  <2>8. r[t + (n - 0)] = Discounted(x, g, t + (n - 0), 0) + Power(g, 0) * tail
    BY ONLY <2>1, <2>2, <2>7, Zenon
  <2>9. QED
    BY <2>1, <2>8
<1>2. \A d \in 1 .. n : d - 1 \in right => d \in right
  <2>1. SUFFICES ASSUME NEW d \in 1 .. n, d - 1 \in right PROVE d \in right
    OBVIOUS
  <2> DEFINE k == t + (n - d)
             e == d - 1
  <2>2. /\ k \in Int /\ e \in Nat /\ k \in t .. t + n - 1 /\ k + 1 = t + (n - e)
        /\ e + 1 = d /\ d \in 0 .. n
    OBVIOUS
  <2>3. r[k + 1] = Discounted(x, g, k + 1, e) + Power(g, e) * tail
    BY <2>1, <2>2
  <2>4. r[k] = x[k] + g * r[k + 1]
    <3> HIDE DEF k
    <3>1. QED
      BY <2>2, Zenon DEF Accumulates
  <2>5. NumbersFrom(x, k, e + 1)
    <3>1. k .. k + (e + 1) - 1 \subseteq t .. t + n - 1
      OBVIOUS
    <3> HIDE DEF k, e
    <3>2. QED
      BY <3>1 DEF NumbersFrom
  <2> HIDE DEF k, e
  <2>6. /\ x[k] \in Int /\ Discounted(x, g, k + 1, e) \in Int
        /\ Discounted(x, g, k, e + 1) = x[k] + g * Discounted(x, g, k + 1, e)
    <3>1. k \in Int /\ e \in Nat
      BY <2>2
    <3>2. QED
      BY ONLY g \in Int, <2>5, <3>1, DiscountedFirst, Zenon DEF Unfolds
  <2>7. Power(g, e) \in Int /\ Power(g, e + 1) = g * Power(g, e)
    BY ONLY g \in Int, <2>2, PowerNext, Zenon
  <2>8. \A a, b, c, p, y \in Int : a + c * (b + p * y) = (a + c * b) + (c * p) * y
    OBVIOUS
  <2>9. x[k] + g * (Discounted(x, g, k + 1, e) + Power(g, e) * tail)
          = (x[k] + g * Discounted(x, g, k + 1, e)) + (g * Power(g, e)) * tail
    BY ONLY g \in Int, tail \in Int, <2>6, <2>7, <2>8
  <2>10. r[k] = Discounted(x, g, k, e + 1) + Power(g, e + 1) * tail
    BY ONLY <2>3, <2>4, <2>6, <2>7, <2>9, Zenon
  <2>11. r[k] = Discounted(x, g, k, d) + Power(g, d) * tail
    BY ONLY <2>2, <2>10, Zenon
  <2>12. QED
    BY ONLY <2>2, <2>11, Zenon DEF right, k
<1>3. n \in right
  <2> HIDE DEF right
  <2>1. QED
    BY <1>1, <1>2, UpTo
<1>4. t + (n - n) = t
  OBVIOUS
<1>5. r[t + (n - n)] = Discounted(x, g, t + (n - n), n) + Power(g, n) * tail
  BY <1>3
<1>6. QED
  BY ONLY <1>4, <1>5, Zenon

(* The sum of equal components. *)
LEMMA SumsConstant ==
  ASSUME NEW c \in Int
  PROVE  Total([b \in Backends |-> c]) = N * c
<1> DEFINE f == [b \in Backends |-> c]
           good == {k \in 0 .. N : Sums(f)[k] = k * c}
<1>1. f \in [Backends -> Int] /\ \A b \in Backends : f[b] = c
  OBVIOUS
<1> HIDE DEF f
<1>2. /\ Sums(f) \in [0 .. N -> Int] /\ Sums(f)[0] = 0
      /\ \A k \in 1 .. N : Sums(f)[k] = Sums(f)[k - 1] + f[k - 1]
  BY ONLY <1>1, SumsDef, Zenon
<1>3. 0 \in good
  BY <1>2, NAssumption
<1>4. \A k \in 1 .. N : k - 1 \in good => k \in good
  <2>1. SUFFICES ASSUME NEW k \in 1 .. N, k - 1 \in good PROVE k \in good
    OBVIOUS
  <2>2. k \in 0 .. N /\ k - 1 \in Backends
    BY NAssumption DEF Backends
  <2>3. Sums(f)[k] = (k - 1) * c + c
    BY <1>1, <1>2, <2>1, <2>2
  <2>4. \A x, y \in Int : (x - 1) * y + y = x * y
    OBVIOUS
  <2>5. QED
    BY <2>2, <2>3, <2>4
<1>5. \A k \in 0 .. N : k \in good
  <2> HIDE DEF good
  <2>1. QED
    BY <1>3, <1>4, UpTo, NAssumption
<1>6. Sums(f)[N] = N * c
  BY <1>5, NAssumption
<1>7. QED
  BY <1>6 DEF Total, f

(* The sum of components up to c is at most N * c. *)
LEMMA SumsUpTo ==
  ASSUME NEW c \in Nat, NEW f \in [Backends -> 0 .. c]
  PROVE  Total(f) \in 0 .. N * c
<1> DEFINE all == [b \in Backends |-> c]
<1>1. f \in [Backends -> Int] /\ \A b \in Backends : f[b] >= 0
  OBVIOUS
<1>2. all \in [Backends -> Int] /\ \A b \in Backends : f[b] <= all[b]
  OBVIOUS
<1>3. Total(all) = N * c
  <2>1. c \in Int
    OBVIOUS
  <2>2. QED
    BY ONLY <2>1, SumsConstant, Zenon DEF all
<1> HIDE DEF all
<1>4. Total(f) \in Int /\ Total(f) >= 0 /\ Total(f) <= Total(all)
  BY <1>1, <1>2, SumsDef, SumsZero, SumsMonotone
<1>5. N * c \in Int
  BY NAssumption
<1>6. QED
  BY <1>3, <1>4, <1>5

(* A vector has a greatest component. *)
LEMMA Greatest ==
  ASSUME NEW c \in Nat, NEW f \in [Backends -> 0 .. c]
  PROVE  \E b \in Backends : \A d \in Backends : f[d] <= f[b]
<1> DEFINE below == {c - f[b] : b \in Backends}
<1>1. below \subseteq Nat /\ below # {}
  BY NAssumption DEF Backends
<1>2. PICK m \in below : \A j \in below : m <= j
  <2> HIDE DEF below
  <2>1. QED
    BY <1>1, Least
<1>3. PICK b \in Backends : m = c - f[b]
  BY DEF below
<1>4. \A d \in Backends : c - f[b] <= c - f[d]
  BY <1>2, <1>3
<1>5. QED
  BY <1>4

(* A bound on a number is one on its quotient. *)
LEMMA QuotientBounds ==
  ASSUME NEW r \in Nat \ {0}, NEW x \in Int, NEW c \in Int
  PROVE  /\ x \div r \in Int
         /\ x <= r * c => x \div r <= c
         /\ r * c <= x => c <= x \div r
<1> DEFINE q == x \div r
<1>1. q \in Int /\ r * q <= x /\ x < r * q + r
  OBVIOUS
<1> HIDE DEF q
<1>2. r * q + r = r * (q + 1) /\ r * q \in Int /\ r * c \in Int
  BY <1>1
<1>3. x <= r * c => q <= c
  <2>1. ASSUME x <= r * c
        PROVE  r * q <= r * c
    BY <1>1, <1>2, <2>1
  <2>2. QED
    BY <1>1, <2>1, ProductOrder
<1>4. ASSUME r * c <= x
      PROVE  c <= q
  <2>1. r * (q + 1) > r * c
    BY <1>1, <1>2, <1>4
  <2>2. q + 1 \in Int
    BY <1>1
  <2>3. q + 1 > c
    BY <2>1, <2>2, ProductOrder
  <2>4. QED
    BY <1>1, <2>3
<1>5. q \in Int /\ (x <= r * c => q <= c) /\ (r * c <= x => c <= q)
  BY ONLY <1>1, <1>3, <1>4, Zenon
<1>6. QED
  BY <1>5 DEF q
=============================================================================
