------------------------------- MODULE Spline -------------------------------
(***************************************************************************)
(* The basis functions of the KAN actor's layer (KANLayer in               *)
(* ml/ppo/train_ppo_kan.py): B-splines on a clamped knot vector, evaluated *)
(* by the Cox-de Boor recursion.                                           *)
(*                                                                         *)
(* The interval [-1, 1] is 0 .. GridSize * Unit here, Unit points to a     *)
(* grid step. A value at level k is an integer multiple of 1 / One[k], so  *)
(* the recursion is exact; the residual connection and the learned         *)
(* coefficients are left out.                                              *)
(***************************************************************************)
EXTENDS Integers, FiniteSets, FiniteSetsExt, Combinatorics

CONSTANTS
    GridSize,      \* kan_grid_size
    SplineOrder,   \* kan_spline_order
    Unit           \* points per grid step

ASSUME SplineAssumption == {GridSize, SplineOrder, Unit} \subseteq Nat \ {0}

VARIABLE edge      \* the last input of an edge and its basis functions there

Right == GridSize * Unit

\* The number of basis functions, and of coefficients of an edge.
NCoeff == GridSize + SplineOrder

\* The end points are repeated SplineOrder times; grid[0] is the first knot.
Grid == [i \in 0 .. GridSize + 2 * SplineOrder |->
           IF i <= SplineOrder THEN 0
           ELSE IF i >= GridSize + SplineOrder THEN Right
           ELSE (i - SplineOrder) * Unit]

\* What stands for 1.0 after level k: each level divides by up to k steps.
One[k \in 0 .. SplineOrder] == IF k = 0 THEN 1 ELSE One[k - 1] * Unit * factorial[k]

\* Mutant: the right end is put into the last interval of the knot vector.
LastProperTrailing == GridSize + 2 * SplineOrder - 1

\* The last interval that is not empty: the right end belongs to it.
LastProper == NCoeff - 1

\* Order 0: which interval x lies in.
Interval(x) ==
    [i \in 0 .. GridSize + 2 * SplineOrder - 1 |->
       IF \/ Grid[i] <= x /\ x < Grid[i + 1]
          \/ x = Right /\ i = LastProper
       THEN 1 ELSE 0]

\* One term of the recursion, offset / span * value; an empty span counts as 0.
Term(k, offset, span, value) ==
    IF span = 0 THEN 0
    ELSE offset * ((Unit * factorial[k]) \div span) * value

\* b_splines.
BSplines(x) ==
    LET basis[k \in 0 .. SplineOrder] ==
          IF k = 0 THEN Interval(x)
          ELSE [i \in 0 .. GridSize + 2 * SplineOrder - k - 1 |->
                  Term(k, x - Grid[i], Grid[i + k] - Grid[i], basis[k - 1][i])
                  + Term(k, Grid[i + k + 1] - x, Grid[i + k + 1] - Grid[i + 1],
                         basis[k - 1][i + 1])]
    IN  basis[SplineOrder]

\* forward: the input is clamped to the interval first.
Clamped(x) == IF x < 0 THEN 0 ELSE IF x > Right THEN Right ELSE x

Evaluated(x) == [at |-> Clamped(x), basis |-> BSplines(Clamped(x))]

SplineInit == edge = Evaluated(0)

\* An edge gets an input, inside the interval or one grid step outside.
Forward == \E x \in - Unit .. Right + Unit : edge' = Evaluated(x)

-----------------------------------------------------------------------------
\* The basis functions are the B-splines of the knot vector, at the knots and at
\* both ends too: NCoeff functions, none negative, each nothing outside its own
\* SplineOrder + 1 spans (half open, but for the last point), and Marsden's
\* identity holds: the products of (y - knot) are the coefficients of
\* (y - x)^SplineOrder, for every y. Where x lies at most SplineOrder + 1
\* functions may be positive and the identity for as many y fixes their values,
\* so no other family of functions passes.
BasisExact ==
    LET B == edge.basis
        x == edge.at
        active(i) == /\ Grid[i] <= x
                     /\ x < Grid[i + SplineOrder + 1] \/ Grid[i + SplineOrder + 1] = Right
        dual(i, y) == MapThenFoldSet(LAMBDA a, b : a * b, 1, LAMBDA j : y - Grid[i + j],
                                     LAMBDA S : CHOOSE j \in S : TRUE, 1 .. SplineOrder)
    IN  /\ DOMAIN B = 0 .. NCoeff - 1
        /\ \A i \in DOMAIN B : B[i] >= 0 /\ (B[i] > 0 => active(i))
        /\ \A y \in 0 .. SplineOrder :
             MapThenSumSet(LAMBDA i : dual(i, y) * B[i], DOMAIN B)
               = (y - x)^SplineOrder * One[SplineOrder]
=============================================================================
