--------------------------- MODULE TrainingProofs ---------------------------
(***************************************************************************)
(* Proofs about Training, for every set of workers and every size of the   *)
(* buffers, rollouts and episodes.                                         *)
(*                                                                         *)
(* GradientsKept is not inductive: it counts a gradient as handed over     *)
(* when its worker has left the lock, and the worker adds it parameter by  *)
(* parameter before that. GradInv follows the worker through the loop, and *)
(* says what the test "is there a gradient yet?" is still worth when the   *)
(* assignment acts on it.                                                  *)
(*                                                                         *)
(* The replay buffer stays contiguous because its newest transition ends   *)
(* where the agent stands (DqnInv), and PPO's rollouts end with an episode *)
(* because the length of its buffer and the environment's step count agree *)
(* modulo the length of an episode (PpoInv).                               *)
(*                                                                         *)
(* What the learners compute from a rollout is a recursion from its end:   *)
(* GAE and the n-step returns agree with their sums because every value is *)
(* the next one discounted, plus a term (GaeDef, ReturnsDef, and the       *)
(* lemmas of VectorProofs on backward recursion). The invariants Learned   *)
(* and PathsOK remember which rollout the results were computed from.      *)
(*                                                                         *)
(* The floors of the simulated reward hold because loads stay between 0    *)
(* and 120 (SimTypeOK), which bounds every other term. The safety filter   *)
(* is fair because each of its iterations is monotone in what it is given  *)
(* and takes more from the more loaded (IterationFair).                    *)
(***************************************************************************)
EXTENDS Training, VectorProofs

Inside(m) == m.pc \in {"look", "add"}

\* A worker's record; what its last rollout was is of no concern here.
WorkerWith(P) ==
    [pc : {"run", "lock", "look", "add", "step"},
     round : Nat \ {0}, n : 0 .. RateEpisode - 1, total : Nat,
     param : 1 .. Params, none : BOOLEAN, path : P]

IsWorker(m) == m \in WorkerWith({m.path})

\* The gradient that m hands over in this round is in that of parameter p.
HasAdded(m, p) == m.pc = "step" \/ (Inside(m) /\ p < m.param)

\* Worker w at m, when the shared network has the gradients g: what Look has
\* found still stands, a rollout starts with the first parameter, and every
\* gradient of w that should be in g is there.
WorkerKept(w, m, g) ==
    /\ m.pc = "add" /\ m.none => g[m.param] = NoGrad
    /\ ~Inside(m) => m.param = 1
    /\ \A p \in 1 .. Params : \A k \in 1 .. m.round :
          k < m.round \/ HasAdded(m, p) => <<w, k>> \in g[p]

GradInv ==
    /\ DOMAIN worker = Workers /\ worker \in [Workers -> {worker[w] : w \in Workers}]
    /\ grad \in [1 .. Params -> SUBSET (Workers \X Nat)]
    /\ lock \in Workers \cup {Nobody}
    /\ \A w \in Workers : /\ IsWorker(worker[w])
                          /\ Inside(worker[w]) <=> lock = w
                          /\ WorkerKept(w, worker[w], grad)

-----------------------------------------------------------------------------
\* Work of w alone: the others find their gradients where they were.
LEMMA OneWorkerMoves ==
    ASSUME GradInv, NEW w \in Workers,
           worker' \in [Workers -> {worker'[x] : x \in Workers}],
           \A x \in Workers \ {w} : worker'[x] = worker[x],
           IsWorker(worker'[w]),
           lock' \in Workers \cup {Nobody},
           Inside(worker'[w]) <=> lock' = w,
           \A x \in Workers \ {w} : lock' = x <=> lock = x,
           grad' \in [1 .. Params -> SUBSET (Workers \X Nat)],
           \A p \in 1 .. Params : grad[p] \subseteq grad'[p],
           grad' = grad \/ lock = w,
           WorkerKept(w, worker'[w], grad')
    PROVE  GradInv'
  <1>1. ASSUME NEW x \in Workers \ {w}
        PROVE  /\ IsWorker(worker'[x])
               /\ Inside(worker'[x]) <=> lock' = x
               /\ WorkerKept(x, worker'[x], grad')
    <2>1. /\ worker'[x] = worker[x]
          /\ IsWorker(worker[x]) /\ (Inside(worker[x]) <=> lock = x)
          /\ WorkerKept(x, worker[x], grad)
      BY DEF GradInv
    <2>2. worker[x].pc = "add" => grad' = grad
      BY <2>1 DEF Inside
    <2>3. WorkerKept(x, worker[x], grad')
      BY <2>1, <2>2 DEF WorkerKept, IsWorker
    <2> QED
      BY <2>1, <2>3
  <1> QED
    BY <1>1 DEF GradInv

LEMMA WorkerFields ==
    ASSUME NEW m, IsWorker(m)
    PROVE  /\ m.pc \in {"run", "lock", "look", "add", "step"}
           /\ m.round \in Nat \ {0} /\ m.n \in 0 .. RateEpisode - 1 /\ m.total \in Nat
           /\ m.param \in 1 .. Params /\ m.none \in BOOLEAN
           /\ \A p : m \in WorkerWith({m.path, p})
  BY DEF IsWorker, WorkerWith

LEMMA WorkerIs ==
    ASSUME NEW P, NEW m \in WorkerWith(P)
    PROVE  IsWorker(m)
  BY DEF IsWorker, WorkerWith

\* The records that the five steps make of a worker's.
Rolled(m, n, total, path) == [m EXCEPT !.pc = "lock", !.n = n, !.total = total, !.path = path]
Acquired(m) == [m EXCEPT !.pc = "look", !.path = NoPath]
Looked(m, none) == [m EXCEPT !.pc = "add", !.none = none]
Added(m, pc, param) == [m EXCEPT !.pc = pc, !.param = param]
Stepped(m, round) == [m EXCEPT !.pc = "run", !.round = round]

LEMMA RolledFields ==
    ASSUME NEW m, IsWorker(m), NEW n \in 0 .. RateEpisode - 1, NEW total \in Nat, NEW path
    PROVE  LET new == Rolled(m, n, total, path)
           IN  /\ IsWorker(new) /\ new.pc = "lock" /\ new.path = path
               /\ new.round = m.round /\ new.param = m.param
  <1> DEFINE new == Rolled(m, n, total, path)
             P == {m.path, path}
  <1>1. m \in WorkerWith(P)
    BY WorkerFields
  <1> HIDE DEF P
  <1>2. path \in P
    BY DEF P
  <1>3. /\ new \in WorkerWith(P)
        /\ new.pc = "lock" /\ new.path = path
        /\ new.round = m.round /\ new.param = m.param
    BY <1>1, <1>2 DEF WorkerWith, Rolled
  <1> QED
    BY <1>3, WorkerIs

LEMMA AcquiredFields ==
    ASSUME NEW m, IsWorker(m)
    PROVE  LET new == Acquired(m)
           IN  /\ IsWorker(new) /\ new.pc = "look" /\ new.path = NoPath
               /\ new.round = m.round /\ new.param = m.param
  <1> DEFINE new == Acquired(m)
             P == {m.path, NoPath}
  <1>1. m \in WorkerWith(P)
    BY WorkerFields
  <1> HIDE DEF P
  <1>2. NoPath \in P
    BY DEF P
  <1>3. /\ new \in WorkerWith(P)
        /\ new.pc = "look" /\ new.path = NoPath
        /\ new.round = m.round /\ new.param = m.param
    BY <1>1, <1>2 DEF WorkerWith, Acquired
  <1> QED
    BY <1>3, WorkerIs

LEMMA LookedFields ==
    ASSUME NEW m, IsWorker(m), NEW none \in BOOLEAN
    PROVE  LET new == Looked(m, none)
           IN  /\ IsWorker(new) /\ new.pc = "add" /\ new.none = none
               /\ new.round = m.round /\ new.param = m.param /\ new.path = m.path
  <1> DEFINE new == Looked(m, none)
             P == {m.path}
  <1>1. m \in WorkerWith(P)
    BY DEF IsWorker
  <1> HIDE DEF P
  <1>2. /\ new \in WorkerWith(P) /\ new.pc = "add" /\ new.none = none
        /\ new.round = m.round /\ new.param = m.param /\ new.path = m.path
    BY <1>1 DEF WorkerWith, Looked, P
  <1> QED
    BY <1>2, WorkerIs

LEMMA AddedFields ==
    ASSUME NEW m, IsWorker(m), NEW pc \in {"step", "look"},
           NEW param \in 1 .. Params
    PROVE  LET new == Added(m, pc, param)
           IN  /\ IsWorker(new) /\ new.pc = pc /\ new.param = param
               /\ new.round = m.round /\ new.path = m.path
  <1> DEFINE new == Added(m, pc, param)
             P == {m.path}
  <1>1. m \in WorkerWith(P)
    BY DEF IsWorker
  <1> HIDE DEF P
  <1>2. /\ new \in WorkerWith(P) /\ new.pc = pc /\ new.param = param
        /\ new.round = m.round /\ new.path = m.path
    BY <1>1 DEF WorkerWith, Added, P
  <1> QED
    BY <1>2, WorkerIs

LEMMA SteppedFields ==
    ASSUME NEW m, IsWorker(m), NEW round \in Nat \ {0}
    PROVE  LET new == Stepped(m, round)
           IN  /\ IsWorker(new) /\ new.pc = "run" /\ new.round = round
               /\ new.param = m.param /\ new.path = m.path
  <1> DEFINE new == Stepped(m, round)
             P == {m.path}
  <1>1. m \in WorkerWith(P)
    BY DEF IsWorker
  <1> HIDE DEF P
  <1>2. /\ new \in WorkerWith(P) /\ new.pc = "run" /\ new.round = round
        /\ new.param = m.param /\ new.path = m.path
    BY <1>1 DEF WorkerWith, Stepped, P
  <1> QED
    BY <1>2, WorkerIs

\* What a step changes in the record of the worker that takes it.
LEMMA MovedWorker ==
    ASSUME GradInv, NEW w \in Workers, NEW m, worker' = [worker EXCEPT ![w] = m]
    PROVE  /\ worker' \in [Workers -> {worker'[x] : x \in Workers}]
           /\ worker'[w] = m
           /\ \A x \in Workers \ {w} : worker'[x] = worker[x]
  BY DEF GradInv

\* What a rollout leaves, until apply_gradients has it.
PathOf(r, v) == [rewards |-> r, tail |-> v, returns |-> Returns(r, v)]

\* Only w moves, and has then this path.
PathAfter(w, path) ==
    worker'[w].path = path /\ \A x \in Workers \ {w} : worker'[x] = worker[x]

LEMMA RollKeeps ==
    ASSUME GradInv, NEW w \in Workers, Roll(w)
    PROVE  GradInv' /\ \E r \in Seq(RateRewards), v \in Int : PathAfter(w, PathOf(r, v))
  <1> DEFINE me == worker[w]
             len == IF RateEpisode - me.n < NStep THEN RateEpisode - me.n ELSE NStep
             n == IF me.n + len = RateEpisode THEN 0 ELSE me.n + len
             total == me.total + len
  <1>1. IsWorker(me) /\ me.pc = "run" /\ WorkerKept(w, me, grad) /\ lock # w
    BY DEF GradInv, Roll, Inside
  <1>2. me.n \in 0 .. RateEpisode - 1 /\ me.total \in Nat
    BY <1>1, WorkerFields
  <1>3. n \in 0 .. RateEpisode - 1 /\ total \in Nat
    <2> HIDE DEF me
    <2> QED
      BY <1>2, RateAssumption
  <1>4. PICK r \in [1 .. len -> RateRewards],
             v \in IF me.n + len = RateEpisode THEN {0} ELSE RateValues :
          worker' = [worker EXCEPT ![w].pc = "lock", ![w].n = n,
                                   ![w].total = total, ![w].path = PathOf(r, v)]
    BY Zenon DEF Roll, PathOf
  <1> DEFINE path == PathOf(r, v)
             new == Rolled(me, n, total, path)
  <1>5. worker' = [worker EXCEPT ![w] = new]
    BY <1>4 DEF Rolled
  <1>6. IsWorker(new) /\ new.pc = "lock" /\ new.round = me.round /\ new.param = me.param
        /\ new.path = path
    <2> HIDE DEF n, total, me, path
    <2> QED
      BY <1>1, <1>3, RolledFields
  <1>7. len \in Nat
    <2> HIDE DEF me
    <2> QED
      BY <1>2, RateAssumption
  <1> HIDE DEF n, total, new, len
  <1>8. r \in Seq(RateRewards) /\ v \in Int
    BY <1>7, RateAssumption
  <1>9. WorkerKept(w, new, grad) /\ ~Inside(new)
    BY <1>1, <1>6 DEF WorkerKept, Inside, HasAdded
  <1>10. /\ worker' \in [Workers -> {worker'[x] : x \in Workers}]
        /\ worker'[w] = new
        /\ \A x \in Workers \ {w} : worker'[x] = worker[x]
    BY <1>5, MovedWorker
  <1>11. lock' = lock /\ grad' = grad
    BY DEF Roll
  <1>12. GradInv'
    BY <1>1, <1>6, <1>9, <1>10, <1>11, OneWorkerMoves DEF GradInv
  <1>13. PathAfter(w, path)
    BY <1>6, <1>10 DEF PathAfter
  <1> HIDE DEF path
  <1> QED
    BY <1>12, <1>8, <1>13, Zenon DEF path

LEMMA AcquireKeeps ==
    ASSUME GradInv, NEW w \in Workers, Acquire(w)
    PROVE  GradInv' /\ PathAfter(w, NoPath)
  <1> DEFINE me == worker[w]
             new == Acquired(me)
  <1>1. IsWorker(me) /\ me.pc = "lock" /\ WorkerKept(w, me, grad)
    BY DEF GradInv, Acquire
  <1>2. worker' = [worker EXCEPT ![w] = new]
    BY DEF Acquire, Acquired
  <1>3. IsWorker(new) /\ new.pc = "look" /\ new.round = me.round /\ new.param = me.param
        /\ new.path = NoPath
    <2> HIDE DEF me
    <2> QED
      BY <1>1, AcquiredFields
  <1> HIDE DEF new
  <1>4. me.param = 1
    BY <1>1 DEF WorkerKept, Inside
  <1>5. WorkerKept(w, new, grad) /\ Inside(new)
    BY <1>1, <1>3, <1>4 DEF WorkerKept, Inside, HasAdded
  <1>6. /\ worker' \in [Workers -> {worker'[x] : x \in Workers}]
        /\ worker'[w] = new
        /\ \A x \in Workers \ {w} : worker'[x] = worker[x]
    BY <1>2, MovedWorker
  <1>7. lock' = w /\ lock = Nobody /\ grad' = grad
    BY DEF Acquire
  <1>8. \A x \in Workers \ {w} : lock' = x <=> lock = x
    BY <1>7, NobodyAssumption
  <1> QED
    BY <1>3, <1>5, <1>6, <1>7, <1>8, OneWorkerMoves DEF GradInv, PathAfter

LEMMA LookKeeps ==
    ASSUME GradInv, NEW w \in Workers, Look(w)
    PROVE  GradInv' /\ PathAfter(w, worker[w].path)
  <1> DEFINE me == worker[w]
             none == (grad[me.param] = NoGrad)
             new == Looked(me, none)
  <1>1. IsWorker(me) /\ me.pc = "look" /\ WorkerKept(w, me, grad) /\ lock = w
    BY DEF GradInv, Look, Inside
  <1>2. worker' = [worker EXCEPT ![w] = new]
    BY DEF Look, Looked
  <1>3. none \in BOOLEAN
    OBVIOUS
  <1>4. IsWorker(new) /\ new.pc = "add" /\ new.none = none
        /\ new.round = me.round /\ new.param = me.param /\ new.path = me.path
    <2> HIDE DEF me, none
    <2> QED
      BY <1>1, <1>3, LookedFields, Zenon
  <1> HIDE DEF new
  <1>5. new.none => grad[new.param] = NoGrad
    BY <1>4
  <1> HIDE DEF none
  <1>6. WorkerKept(w, new, grad) /\ Inside(new)
    BY <1>1, <1>4, <1>5 DEF WorkerKept, Inside, HasAdded
  <1>7. /\ worker' \in [Workers -> {worker'[x] : x \in Workers}]
        /\ worker'[w] = new
        /\ \A x \in Workers \ {w} : worker'[x] = worker[x]
    BY <1>2, MovedWorker
  <1>8. lock' = lock /\ grad' = grad
    BY DEF Look
  <1> QED
    BY <1>1, <1>4, <1>6, <1>7, <1>8, OneWorkerMoves DEF GradInv, PathAfter

LEMMA AddKeeps ==
    ASSUME GradInv, NEW w \in Workers, Add(w)
    PROVE  GradInv' /\ PathAfter(w, worker[w].path)
  <1> DEFINE me == worker[w]
             last == me.param = Params
             pc == IF last THEN "step" ELSE "look"
             param == IF last THEN 1 ELSE me.param + 1
             new == Added(me, pc, param)
  <1>1. IsWorker(me) /\ me.pc = "add" /\ WorkerKept(w, me, grad) /\ lock = w
    BY DEF GradInv, Add, Inside
  <1>2. me.param \in 1 .. Params /\ me.round \in Nat \ {0}
    BY <1>1, WorkerFields
  <1>3. pc \in {"step", "look"} /\ param \in 1 .. Params
    <2> HIDE DEF me
    <2> QED
      BY <1>2, RateAssumption
  <1>4. worker' = [worker EXCEPT ![w] = new]
    BY DEF Add, Added
  <1>5. IsWorker(new) /\ new.pc = pc /\ new.param = param /\ new.round = me.round
        /\ new.path = me.path
    <2> HIDE DEF me, pc, param
    <2> QED
      BY <1>1, <1>3, AddedFields
  <1>6. \A x \in Workers \ {w} : lock' = x <=> lock = x
    BY <1>1, NobodyAssumption DEF Add
  <1>7. /\ lock' \in Workers \cup {Nobody}
        /\ Inside(new) <=> lock' = w
    BY <1>1, <1>5, NobodyAssumption DEF Add, Inside
  <1>8. /\ grad \in [1 .. Params -> SUBSET (Workers \X Nat)]
        /\ grad' = [grad EXCEPT ![me.param] = IF me.none THEN {<<w, me.round>>}
                                             ELSE @ \cup {<<w, me.round>>}]
        /\ me.none => grad[me.param] = {}
    BY <1>1 DEF Add, GradInv, WorkerKept, NoGrad
  <1> HIDE DEF me, new
  <1>9. /\ grad' \in [1 .. Params -> SUBSET (Workers \X Nat)]
        /\ \A p \in 1 .. Params : grad[p] \subseteq grad'[p]
        /\ <<w, me.round>> \in grad'[me.param]
    BY <1>2, <1>8
  <1>10. WorkerKept(w, new, grad')
    <2>1. new.pc # "add" /\ (~Inside(new) => new.param = 1)
      BY <1>5 DEF Inside
    <2>2. ASSUME NEW p \in 1 .. Params, NEW k \in 1 .. new.round,
                 k < new.round \/ HasAdded(new, p)
          PROVE  <<w, k>> \in grad'[p]
      <3>1. p = me.param \/ p < me.param \/ k < me.round
        BY <1>2, <1>5, <2>2 DEF HasAdded, Inside
      <3>2. CASE p = me.param /\ k = me.round
        BY <3>2, <1>9
      <3>3. CASE k < me.round \/ p < me.param
        <4>1. k < me.round \/ HasAdded(me, p)
          BY <3>3, <1>1 DEF HasAdded, Inside
        <4>2. <<w, k>> \in grad[p]
          BY <4>1, <1>1, <1>5 DEF WorkerKept
        <4> QED
          BY <4>2, <1>9
      <3> QED
        BY <3>1, <3>2, <3>3, <1>2, <1>5
    <2> QED
      BY <2>1, <2>2 DEF WorkerKept
  <1>11. /\ worker' \in [Workers -> {worker'[x] : x \in Workers}]
         /\ worker'[w] = new
         /\ \A x \in Workers \ {w} : worker'[x] = worker[x]
    BY <1>4, MovedWorker
  <1> QED
    BY <1>1, <1>5, <1>6, <1>7, <1>9, <1>10, <1>11, OneWorkerMoves DEF PathAfter, me

LEMMA StepKeeps ==
    ASSUME GradInv, NEW w \in Workers, Step(w)
    PROVE  GradInv' /\ PathAfter(w, worker[w].path)
  <1> DEFINE me == worker[w]
             round == me.round + 1
             new == Stepped(me, round)
  <1>1. IsWorker(me) /\ me.pc = "step" /\ WorkerKept(w, me, grad) /\ lock # w
    BY DEF GradInv, Step, Inside
  <1>2. me.round \in Nat \ {0}
    BY <1>1, WorkerFields
  <1>3. round \in Nat \ {0}
    <2> HIDE DEF me
    <2> QED
      BY <1>2
  <1>4. worker' = [worker EXCEPT ![w] = new]
    BY DEF Step, Stepped
  <1>5. IsWorker(new) /\ new.pc = "run" /\ new.round = round /\ new.param = me.param
        /\ new.path = me.path
    <2> HIDE DEF me, round
    <2> QED
      BY <1>1, <1>3, SteppedFields
  <1> HIDE DEF new, me
  <1>6. WorkerKept(w, new, grad) /\ ~Inside(new)
    <2>1. me.param = 1
      BY <1>1 DEF WorkerKept, Inside
    <2>2. ASSUME NEW p \in 1 .. Params, NEW k \in 1 .. new.round, k < new.round
          PROVE  <<w, k>> \in grad[p]
      <3>1. k \in 1 .. me.round
        BY <2>2, <1>2, <1>5
      <3> QED
        BY <3>1, <1>1 DEF WorkerKept, HasAdded
    <2> QED
      BY <2>1, <2>2, <1>5 DEF WorkerKept, HasAdded, Inside
  <1>7. /\ worker' \in [Workers -> {worker'[x] : x \in Workers}]
        /\ worker'[w] = new
        /\ \A x \in Workers \ {w} : worker'[x] = worker[x]
    BY <1>4, MovedWorker
  <1>8. lock' = lock /\ grad' = grad
    BY DEF Step
  <1> QED
    BY <1>1, <1>5, <1>6, <1>7, <1>8, OneWorkerMoves DEF GradInv, PathAfter, me

-----------------------------------------------------------------------------
LEMMA GradInit ==
    ASSUME RateInit
    PROVE  GradInv
  <1> USE RateAssumption
  <1>1. ASSUME NEW w \in Workers
        PROVE  IsWorker(worker[w]) /\ worker[w].pc = "run" /\ worker[w].round = 1
               /\ worker[w].param = 1
    BY DEF RateInit, IsWorker, WorkerWith
  <1>2. ASSUME NEW w \in Workers
        PROVE  WorkerKept(w, worker[w], grad) /\ ~Inside(worker[w]) /\ lock # w
    BY <1>1, NobodyAssumption DEF RateInit, WorkerKept, HasAdded, Inside
  <1>3. DOMAIN worker = Workers /\ worker \in [Workers -> {worker[w] : w \in Workers}]
    BY DEF RateInit
  <1>4. grad \in [1 .. Params -> SUBSET (Workers \X Nat)] /\ lock = Nobody
    BY DEF RateInit, NoGrad
  <1> QED
    BY <1>1, <1>2, <1>3, <1>4 DEF GradInv

\* Only the A3C workers touch the shared network.
LEMMA GradStays ==
    ASSUME GradInv, UNCHANGED <<worker, lock, grad>>
    PROVE  GradInv'
  BY DEF GradInv

\* A worker inside apply_gradients holds the lock, what it has seen of .grad is
\* still true, and every gradient is where its worker has put it
\* (A3CGlobalActor.apply_gradients).
THEOREM GradInvariant == Spec => []GradInv
  <1>1. Init => GradInv
    BY GradInit DEF Init
  <1>2. GradInv /\ [Next]_vars => GradInv'
    <2> SUFFICES ASSUME GradInv, [Next]_vars
                 PROVE  GradInv'
      OBVIOUS
    <2>1. CASE TrainA3C
      <3>1. PICK w \in Workers : Work(w)
        BY <2>1 DEF TrainA3C
      <3> QED
        BY <3>1, RollKeeps, AcquireKeeps, LookKeeps, AddKeeps, StepKeeps DEF Work
    <2>2. CASE Simulate \/ TrainPpo \/ EvaluateKan
      BY <2>2, GradStays DEF Simulate, TrainPpo, EvaluateKan, rateVars
    <2>3. CASE TrainDqn
      BY <2>3, GradStays DEF TrainDqn, Learn
    <2>4. CASE ExportOnnx \/ WriteAuditLog \/ Checkpoint \/ SaveRate
      BY <2>4, GradStays DEF ExportOnnx, WriteAuditLog, Checkpoint, SaveRate, rateVars
    <2>5. CASE UNCHANGED vars
      BY <2>5, GradStays DEF vars, rateVars
    <2> QED
      BY <2>1, <2>2, <2>3, <2>4, <2>5 DEF Next
  <1> QED
    BY <1>1, <1>2, PTL DEF Spec

\* No gradient a worker has handed over is missing from the shared network:
\* "if the gradient is None, set it, else add to it" loses none, whichever
\* workers come first (A3CGlobalActor.apply_gradients).
THEOREM GradTheorem == Spec => []GradientsKept
  <1>1. GradInv => GradientsKept
    <2> SUFFICES ASSUME GradInv, NEW w \in Workers, NEW p \in 1 .. Params,
                        NEW k \in 1 .. worker[w].round,
                        k < worker[w].round \/ worker[w].pc = "step"
                 PROVE  <<w, k>> \in grad[p]
      BY DEF GradientsKept
    <2> QED
      BY DEF GradInv, WorkerKept, HasAdded
  <1> QED
    BY <1>1, GradInvariant, PTL

-----------------------------------------------------------------------------
(***************************************************************************)
(* The DQN loop. The newest transition in the buffer ends where the agent  *)
(* stands, or it was the last of its episode; the target network was       *)
(* synchronised at the last multiple of SyncEvery.                         *)
(***************************************************************************)
Obs(last) == [n : 0 .. last, limit : MinRps .. MaxRps]
Transition == [from : Obs(RateEpisode - 1), to : Obs(RateEpisode), done : BOOLEAN]

\* What the agent sees after a transition.
Follows(e) == IF e.done THEN Reset ELSE e.to

\* The transitions of r follow one another.
Linked(r) ==
    \A k \in 1 .. Len(r) : /\ r[k].done <=> r[k].to.n = RateEpisode
                           /\ k > 1 => r[k].from = Follows(r[k - 1])

\* r is the buffer of an agent that now stands at obs.
Chained(r, obs) ==
    /\ r \in Seq(Transition)
    /\ Len(r) <= ReplayCapacity
    /\ Linked(r)
    /\ Len(r) > 0 => obs = Follows(r[Len(r)])

\* target is the last multiple of SyncEvery up to updates.
Synced(target, updates) ==
    /\ target \in Nat /\ updates \in Nat
    /\ target % SyncEvery = 0
    /\ updates - target \in 0 .. SyncEvery - 1

DqnInv ==
    /\ dqn.obs \in Obs(RateEpisode - 1)
    /\ Chained(dqn.replay, dqn.obs)
    /\ Synced(dqn.target, dqn.updates)

LEMMA NextMultiple ==
    ASSUME NEW t \in Nat, NEW s \in Nat \ {0}, t % s = 0
    PROVE  (t + s) % s = 0
  <1> DEFINE p == t \div s
             q == (t + s) \div s
             r == (t + s) % s
  <1>1. p \in Nat /\ q \in Nat /\ r \in 0 .. s - 1 /\ t = s * p /\ t + s = s * q + r
    OBVIOUS
  <1> HIDE DEF p, q, r
  <1>2. s * (p + 1) = s * p + s
    BY <1>1
  <1>3. CASE q <= p
    <2>1. s * q <= s * p
      BY <1>1, <1>3
    <2> QED
      BY <2>1, <1>1
  <1>4. CASE p + 1 <= q
    <2>1. s * (p + 1) <= s * q
      BY <1>1, <1>4
    <2>2. r = 0
      BY <2>1, <1>1, <1>2
    <2> QED
      BY <2>2 DEF r
  <1> QED
    BY <1>1, <1>3, <1>4

\* The target network is synchronised whenever SyncEvery updates have passed.
LEMMA SyncKeeps ==
    ASSUME NEW target, NEW updates, Synced(target, updates),
           NEW new \in {updates, updates + 1}
    PROVE  Synced(IF new > updates /\ new % SyncEvery = 0 THEN new ELSE target, new)
  <1> USE RateAssumption
  <1>1. target \in Nat /\ updates \in Nat /\ target % SyncEvery = 0
        /\ updates - target \in 0 .. SyncEvery - 1
    BY DEF Synced
  <1>2. CASE new > updates /\ new % SyncEvery = 0
    BY <1>1, <1>2 DEF Synced
  <1>3. CASE new = updates
    BY <1>1, <1>3 DEF Synced
  <1>4. CASE new = updates + 1 /\ new % SyncEvery # 0
    <2>1. new # target + SyncEvery
      BY <1>1, <1>4, NextMultiple
    <2> QED
      BY <1>1, <1>4, <2>1 DEF Synced
  <1> QED
    BY <1>1, <1>2, <1>3, <1>4

\* A tenth up or down stays between the bounds.
LEMMA AdjustBounded ==
    ASSUME NEW limit \in MinRps .. MaxRps, NEW action \in 0 .. 2
    PROVE  Adjust(limit, action) \in MinRps .. MaxRps
  BY RateAssumption DEF Adjust

LEMMA PushKeeps ==
    ASSUME NEW r, NEW obs, Chained(r, obs), NEW e \in Transition,
           e.from = obs, e.done <=> e.to.n = RateEpisode
    PROVE  Chained(Push(r, e), Follows(e))
  <1> USE RateAssumption
  <1> DEFINE all == Append(r, e)
             t == Tail(all)
  <1>1. /\ all \in Seq(Transition) /\ Len(all) = Len(r) + 1
        /\ \A k \in 1 .. Len(r) : all[k] = r[k]
        /\ all[Len(all)] = e
        /\ Len(r) \in Nat /\ Len(r) <= ReplayCapacity
    BY DEF Chained
  <1>2. /\ t \in Seq(Transition) /\ Len(t) = Len(all) - 1
        /\ \A k \in 1 .. Len(t) : t[k] = all[k + 1]
    BY <1>1
  <1>3. Push(r, e) = IF Len(all) > ReplayCapacity THEN t ELSE all
    BY DEF Push
  <1> HIDE DEF all, t
  <1>4. Linked(all)
    <2> SUFFICES ASSUME NEW k \in 1 .. Len(all)
                 PROVE  /\ all[k].done <=> all[k].to.n = RateEpisode
                        /\ k > 1 => all[k].from = Follows(all[k - 1])
      BY DEF Linked
    <2>1. CASE k \in 1 .. Len(r)
      <3>1. all[k] = r[k] /\ (k > 1 => all[k - 1] = r[k - 1])
        BY <1>1, <2>1
      <3> QED
        BY <2>1, <3>1 DEF Chained, Linked
    <2>2. CASE k = Len(all)
      <3>1. all[k] = e /\ (k > 1 => k - 1 = Len(r) /\ Len(r) > 0 /\ all[k - 1] = r[Len(r)])
        BY <1>1, <2>2
      <3> QED
        BY <3>1 DEF Chained
    <2> QED
      BY <1>1, <2>1, <2>2
  <1>5. Linked(t)
    <2> SUFFICES ASSUME NEW k \in 1 .. Len(t)
                 PROVE  /\ t[k].done <=> t[k].to.n = RateEpisode
                        /\ k > 1 => t[k].from = Follows(t[k - 1])
      BY DEF Linked
    <2>1. /\ k + 1 \in 1 .. Len(all) /\ t[k] = all[k + 1]
          /\ k > 1 => t[k - 1] = all[k]
          /\ k + 1 > 1 /\ (k + 1) - 1 = k
      <3>1. k + 1 \in 1 .. Len(all) /\ t[k] = all[k + 1] /\ (k + 1) - 1 = k /\ k + 1 > 1
        BY <1>1, <1>2
      <3>2. ASSUME k > 1
            PROVE  t[k - 1] = all[k]
        <4>1. k - 1 \in 1 .. Len(t) /\ (k - 1) + 1 = k
          BY <3>2, <1>1, <1>2
        <4>2. t[k - 1] = all[(k - 1) + 1]
          BY <4>1, <1>2
        <4> QED
          BY <4>1, <4>2
      <3> QED
        BY <3>1, <3>2
    <2> QED
      BY <1>4, <2>1 DEF Linked
  <1>6. CASE Len(all) <= ReplayCapacity
    <2>1. Push(r, e) = all
      BY <1>1, <1>3, <1>6
    <2> QED
      BY <1>1, <1>4, <1>6, <2>1 DEF Chained
  <1>7. CASE Len(all) > ReplayCapacity
    <2>1. Push(r, e) = t
      BY <1>3, <1>7
    <2>2. Len(t) <= ReplayCapacity /\ (Len(t) > 0 => t[Len(t)] = e)
      BY <1>1, <1>2
    <2> QED
      BY <1>2, <1>5, <2>1, <2>2 DEF Chained
  <1> QED
    BY <1>1, <1>6, <1>7

LEMMA LearnKeeps ==
    ASSUME DqnInv, Learn
    PROVE  DqnInv'
  <1> USE RateAssumption
  <1>1. PICK action \in 0 .. 2 :
          LET after == EnvStepped(dqn.obs, action)
              done == after.n >= RateEpisode
              replay == Push(dqn.replay, [from |-> dqn.obs, to |-> after, done |-> done])
              updates == dqn.updates + (IF Len(replay) < BatchSize THEN 0 ELSE 1)
          IN  dqn' = [obs |-> IF done THEN Reset ELSE after,
                      replay |-> replay,
                      updates |-> updates,
                      target |-> IF updates > dqn.updates /\ updates % SyncEvery = 0
                                 THEN updates ELSE dqn.target,
                      steps |-> dqn.steps + 1]
    BY Zenon DEF Learn
  <1> DEFINE obs == dqn.obs
             after == EnvStepped(obs, action)
             done == after.n >= RateEpisode
             e == [from |-> obs, to |-> after, done |-> done]
             replay == Push(dqn.replay, e)
             updates == dqn.updates + (IF Len(replay) < BatchSize THEN 0 ELSE 1)
             target == IF updates > dqn.updates /\ updates % SyncEvery = 0
                       THEN updates ELSE dqn.target
  <1>2. /\ dqn'.obs = IF done THEN Reset ELSE after
        /\ dqn'.replay = replay /\ dqn'.updates = updates /\ dqn'.target = target
    BY <1>1, Zenon
  <1>3. obs \in Obs(RateEpisode - 1)
    BY DEF DqnInv
  <1>4. /\ after \in Obs(RateEpisode)
        /\ done <=> after.n = RateEpisode
        /\ ~done => after \in Obs(RateEpisode - 1)
    <2> HIDE DEF obs
    <2>1. /\ obs.n \in 0 .. RateEpisode - 1 /\ obs.limit \in MinRps .. MaxRps
      BY <1>3 DEF Obs
    <2>2. Adjust(obs.limit, action) \in MinRps .. MaxRps
      BY <2>1, AdjustBounded
    <2> QED
      BY <2>1, <2>2 DEF EnvStepped, Observe, Obs
  <1>5. Reset \in Obs(RateEpisode - 1)
    BY DEF Reset, Observe, Obs
  <1> HIDE DEF obs, after
  <1>6. /\ e \in Transition /\ e.from = obs /\ e.to = after
        /\ e.done <=> done
        /\ e.done <=> e.to.n = RateEpisode
    <2>1. e.from = obs /\ e.to = after
      OBVIOUS
    <2>2. done \in BOOLEAN /\ e.done = done
      <3>1. done \in BOOLEAN
        OBVIOUS
      <3>2. e.done = done
        <4> HIDE DEF done
        <4> QED
          BY Zenon
      <3> QED
        BY <3>1, <3>2
    <2>3. e \in Transition
      <3> HIDE DEF done
      <3> QED
        BY <1>3, <1>4, <2>2 DEF Transition
    <2>4. e.done <=> e.to.n = RateEpisode
      <3> HIDE DEF e, done
      <3> QED
        BY <1>4, <2>1, <2>2
    <2> QED
      BY <2>1, <2>2, <2>3, <2>4, Zenon
  <1> HIDE DEF e
  <1>7. Chained(replay, IF done THEN Reset ELSE after)
    <2>1. Chained(dqn.replay, obs)
      BY DEF DqnInv, obs
    <2>2. Chained(replay, Follows(e))
      BY <2>1, <1>6, PushKeeps
    <2> QED
      BY <2>2, <1>6 DEF Follows
  <1> HIDE DEF replay
  <1>8. Synced(target, updates)
    <2>1. updates \in {dqn.updates, dqn.updates + 1} /\ Synced(dqn.target, dqn.updates)
      BY DEF DqnInv, Synced
    <2> QED
      BY <2>1, SyncKeeps, Zenon
  <1> HIDE DEF done, updates, target
  <1> QED
    BY <1>2, <1>4, <1>5, <1>7, <1>8 DEF DqnInv

LEMMA DqnInit ==
    ASSUME RateInit
    PROVE  DqnInv
  BY RateAssumption DEF RateInit, DqnInv, Chained, Linked, Synced, Obs, Reset, Observe

\* The rate limiter's DQN agent learns from contiguous history, its limit stays
\* between the bounds, its buffer within its capacity, and its target network
\* less than SyncEvery updates behind (ReplayBuffer.push, RateLimitEnv.step,
\* DQNServiceAgent.update and the loop of train()).
THEOREM DqnTheorem == Spec => [](ReplayChained /\ RateTypeOK)
  <1>1. Init => DqnInv
    BY DqnInit DEF Init
  <1>2. DqnInv /\ [Next]_vars => DqnInv'
    <2> SUFFICES ASSUME DqnInv, [Next]_vars
                 PROVE  DqnInv'
      OBVIOUS
    <2>1. CASE TrainDqn
      BY <2>1, LearnKeeps DEF TrainDqn
    <2>2. CASE UNCHANGED dqn
      BY <2>2 DEF DqnInv
    <2>3. CASE TrainA3C
      <3>1. UNCHANGED dqn
        BY <2>3, Zenon DEF TrainA3C, Work, Roll, Acquire, Look, Add, Step
      <3> QED
        BY <3>1, <2>2
    <2>4. ASSUME UNCHANGED rateVars
          PROVE  UNCHANGED dqn
      BY <2>4 DEF rateVars
    <2>5. CASE Simulate \/ TrainPpo \/ EvaluateKan \/ UNCHANGED vars
      BY <2>2, <2>4, <2>5 DEF Simulate, TrainPpo, EvaluateKan, vars
    <2>6. CASE ExportOnnx \/ WriteAuditLog \/ Checkpoint \/ SaveRate
      BY <2>2, <2>4, <2>6 DEF ExportOnnx, WriteAuditLog, Checkpoint, SaveRate
    <2> QED
      BY <2>1, <2>3, <2>5, <2>6 DEF Next
  <1>3. GradInv /\ DqnInv => ReplayChained /\ RateTypeOK
    <2> SUFFICES ASSUME GradInv, DqnInv
                 PROVE  ReplayChained /\ RateTypeOK
      OBVIOUS
    <2>1. ReplayChained
      BY DEF DqnInv, Chained, Linked, Follows, ReplayChained
    <2>2. \A w \in Workers : /\ worker[w].pc \in {"run", "lock", "look", "add", "step"}
                             /\ worker[w].param \in 1 .. Params
                             /\ worker[w].n \in 0 .. RateEpisode - 1
      BY WorkerFields DEF GradInv
    <2>3. dqn.obs.limit \in MinRps .. MaxRps
      BY DEF DqnInv, Obs
    <2> QED
      BY <2>1, <2>2, <2>3 DEF GradInv, DqnInv, Chained, Synced, RateTypeOK
  <1> QED
    BY <1>1, <1>2, <1>3, GradInvariant, PTL DEF Spec

-----------------------------------------------------------------------------
(***************************************************************************)
(* The PPO loop. It counts its steps by the entries of the buffer, the     *)
(* environment counts its own; the two stay in step, so that an episode    *)
(* ends exactly at every PpoEpisode-th entry, and a full buffer ends with  *)
(* the end of an episode.                                                  *)
(***************************************************************************)
InStep(b, c, pol) ==
    /\ b \in Seq([reward : Rewards, value : Values, done : BOOLEAN, policy : Nat])
    /\ Len(b) <= RolloutSteps
    /\ c = Len(b) % PpoEpisode
    /\ \A t \in 1 .. Len(b) : /\ b[t].done <=> t % PpoEpisode = 0
                              /\ b[t].policy = pol

\* What an update learns from ends with the end of an episode.
EndsEpisode(b) == Len(b) > 0 /\ b[Len(b)].done

PpoInv ==
    /\ policy \in Nat
    /\ InStep(buffer, ppoCount, policy)
    /\ learned = Unlearned \/ EndsEpisode(learned.from)

\* A remainder is counted up, and starts again.
LEMMA RemainderCounts ==
    ASSUME NEW n \in Nat, NEW s \in Nat \ {0}
    PROVE  /\ n % s \in 0 .. s - 1
           /\ (n % s) + 1 < s => (n + 1) % s = (n % s) + 1
           /\ (n % s) + 1 >= s => (n + 1) % s = 0
  <1> DEFINE p == n \div s
             q == (n + 1) \div s
             a == n % s
             b == (n + 1) % s
  <1>1. /\ p \in Nat /\ q \in Nat /\ a \in 0 .. s - 1 /\ b \in 0 .. s - 1
        /\ n = s * p + a /\ n + 1 = s * q + b
    OBVIOUS
  <1> HIDE DEF p, q, a, b
  <1>2. s * (p + 1) = s * p + s /\ s * p \in Nat /\ s * q \in Nat
    BY <1>1
  <1>3. CASE q < p
    <2>1. s * (q + 1) <= s * p /\ s * (q + 1) = s * q + s
      BY <1>1, <1>3
    <2> QED
      BY <2>1, <1>1, <1>2
  <1>4. CASE q = p
    <2>1. s * q = s * p
      BY <1>4
    <2>2. b = a + 1
      BY <2>1, <1>1, <1>2
    <2> QED
      BY <2>2, <1>1 DEF a, b
  <1>5. CASE q > p
    <2>1. s * (p + 1) <= s * q
      BY <1>1, <1>5
    <2>2. b = 0 /\ a + 1 = s
      BY <2>1, <1>1, <1>2
    <2> QED
      BY <2>2, <1>1 DEF a, b
  <1> QED
    BY <1>1, <1>3, <1>4, <1>5

LEMMA CollectKeeps ==
    ASSUME PpoInv, Collect
    PROVE  PpoInv'
  <1> USE RolloutAssumption
  <1>1. PICK r \in Rewards, v \in Values :
          /\ buffer' = Append(buffer, [reward |-> r, value |-> v,
                                       done |-> Done(ppoCount + 1), policy |-> policy])
          /\ ppoCount' = IF Done(ppoCount + 1) THEN 0 ELSE ppoCount + 1
    BY Zenon DEF Collect
  <1>2. /\ Len(buffer) < RolloutSteps /\ policy' = policy
        /\ learned' = Unlearned
    BY DEF Collect
  <1> DEFINE n == Len(buffer)
             done == Done(ppoCount + 1)
             e == [reward |-> r, value |-> v, done |-> done, policy |-> policy]
  <1>3. n \in Nat /\ ppoCount = n % PpoEpisode /\ policy \in Nat
    BY DEF PpoInv, InStep
  <1>4. /\ done \in BOOLEAN
        /\ done <=> (n + 1) % PpoEpisode = 0
        /\ ppoCount' = (n + 1) % PpoEpisode
    <2>1. ppoCount \in 0 .. PpoEpisode - 1
      BY <1>3, RemainderCounts
    <2>2. done \in BOOLEAN /\ (done <=> ppoCount + 1 >= PpoEpisode)
      BY DEF Done
    <2> HIDE DEF n, done
    <2>3. CASE ppoCount + 1 >= PpoEpisode
      <3>1. (n + 1) % PpoEpisode = 0
        BY <2>3, <1>3, RemainderCounts
      <3> QED
        BY <3>1, <2>2, <2>3, <1>1 DEF done
    <2>4. CASE ppoCount + 1 < PpoEpisode
      <3>1. (n + 1) % PpoEpisode = ppoCount + 1
        BY <2>4, <1>3, RemainderCounts
      <3> QED
        BY <3>1, <2>1, <2>2, <2>4, <1>1 DEF done
    <2> QED
      BY <2>1, <2>3, <2>4
  <1> HIDE DEF done
  <1>5. /\ e \in [reward : Rewards, value : Values, done : BOOLEAN, policy : Nat]
        /\ e.done <=> done
        /\ e.policy = policy
    BY <1>3, <1>4
  <1> HIDE DEF e
  <1>6. /\ buffer' \in Seq([reward : Rewards, value : Values, done : BOOLEAN, policy : Nat])
        /\ Len(buffer') = n + 1
        /\ \A t \in 1 .. n : buffer'[t] = buffer[t]
        /\ buffer'[n + 1] = e
    BY <1>1, <1>5 DEF PpoInv, InStep, e, done
  <1>7. ASSUME NEW t \in 1 .. n + 1
        PROVE  /\ buffer'[t].done <=> t % PpoEpisode = 0
               /\ buffer'[t].policy = policy
    <2>1. CASE t \in 1 .. n
      BY <2>1, <1>6 DEF PpoInv, InStep
    <2>2. CASE t = n + 1
      BY <2>2, <1>4, <1>5, <1>6
    <2> QED
      BY <1>3, <2>1, <2>2
  <1>8. n + 1 <= RolloutSteps
    BY <1>2, <1>3
  <1> HIDE DEF n
  <1>9. InStep(buffer', ppoCount', policy')
    BY <1>2, <1>4, <1>6, <1>7, <1>8 DEF InStep
  <1> QED
    BY <1>2, <1>3, <1>9 DEF PpoInv

LEMMA UpdateKeeps ==
    ASSUME PpoInv, Update
    PROVE  PpoInv'
  <1> USE RolloutAssumption
  <1>1. /\ Len(buffer) = RolloutSteps /\ learned'.from = buffer
        /\ policy' = policy + 1 /\ buffer' = <<>> /\ ppoCount' = ppoCount
    BY DEF Update, Clear
  <1>2. RolloutSteps % PpoEpisode = 0 /\ 0 % PpoEpisode = 0
    OBVIOUS
  <1>3. EndsEpisode(learned'.from)
    BY <1>1, <1>2 DEF PpoInv, InStep, EndsEpisode
  <1>4. InStep(buffer', ppoCount', policy')
    BY <1>1, <1>2 DEF PpoInv, InStep
  <1> QED
    BY <1>1, <1>3, <1>4 DEF PpoInv

LEMMA PpoInitKept ==
    ASSUME PpoInit
    PROVE  PpoInv
  BY RolloutAssumption DEF PpoInit, PpoInv, InStep, Clear

LEMMA PpoStep ==
    ASSUME PpoInv, [Next]_vars
    PROVE  PpoInv'
  <1>1. CASE TrainPpo
    BY <1>1, CollectKeeps, UpdateKeeps DEF TrainPpo
  <1>2. CASE UNCHANGED ppoVars
    BY <1>2 DEF PpoInv, ppoVars
  <1>3. CASE Simulate \/ EvaluateKan \/ TrainDqn \/ TrainA3C \/ UNCHANGED vars
    BY <1>2, <1>3, Zenon DEF Simulate, EvaluateKan, TrainDqn, TrainA3C, vars
  <1>4. CASE ExportOnnx \/ WriteAuditLog \/ Checkpoint \/ SaveRate
    BY <1>2, <1>4, Zenon DEF ExportOnnx, WriteAuditLog, Checkpoint, SaveRate
  <1> QED
    BY <1>1, <1>3, <1>4 DEF Next

\* PPO learns only from what its current policy did, and a full buffer ends
\* with the end of an episode, so passing last_value = 0.0 to compute_gae loses
\* nothing, however the run is divided into rollouts and updates (RolloutBuffer,
\* PPOTrainer.update and the loop of train()).
THEOREM PpoTheorem ==
    Spec => []( OnPolicy /\ (learned = Unlearned \/ EndsEpisode(learned.from)) )
  <1>1. Init => PpoInv
    BY PpoInitKept DEF Init
  <1>2. PpoInv /\ [Next]_vars => PpoInv'
    BY PpoStep
  <1>3. PpoInv => OnPolicy /\ (learned = Unlearned \/ EndsEpisode(learned.from))
    BY DEF PpoInv, InStep, OnPolicy
  <1> QED
    BY <1>1, <1>2, <1>3, PTL DEF Spec

-----------------------------------------------------------------------------
(***************************************************************************)
(* Advantages. compute_gae goes backwards through the buffer and starts    *)
(* afresh at the end of an episode; the definition goes forwards to that   *)
(* end. The end is there because the buffer ends with one.                 *)
(***************************************************************************)
Entry == [reward : Rewards, value : Values, done : BOOLEAN, policy : Nat]

GaeOf(b) ==
    LET gae[t \in 1 .. Len(b) + 1] ==
          IF t > Len(b) THEN 0
          ELSE Delta(b, t) + (IF b[t].done THEN 0 ELSE Gamma * Lambda * gae[t + 1])
    IN  gae

LEMMA DeltaInt ==
    ASSUME NEW b \in Seq(Entry), NEW t \in 1 .. Len(b)
    PROVE  Delta(b, t) \in Int
  <1> USE RolloutAssumption
  <1>1. b[t] \in Entry /\ (t # Len(b) => b[t + 1] \in Entry)
    OBVIOUS
  <1>2. /\ b[t].reward \in Int /\ b[t].value \in Int /\ b[t].done \in BOOLEAN
        /\ t # Len(b) => b[t + 1].value \in Int
    BY <1>1 DEF Entry
  <1>3. ASSUME NEW x \in Int
        PROVE  Gamma * x \in Int
    OBVIOUS
  <1>4. (IF b[t].done \/ t = Len(b) THEN 0 ELSE Gamma * b[t + 1].value) \in Int
    BY <1>2, <1>3
  <1> QED
    BY <1>2, <1>4 DEF Delta

\* The value before time t, which depends on the one after it.
Before(b, t, y) == Delta(b, t) + (IF b[t].done THEN 0 ELSE Gamma * Lambda * y)

\* The recursion of compute_gae is well defined.
LEMMA GaeDef ==
    ASSUME NEW b \in Seq(Entry)
    PROVE  /\ \A t \in 1 .. Len(b) + 1 : GaeOf(b)[t] \in Int
           /\ GaeOf(b)[Len(b) + 1] = 0
           /\ \A t \in 1 .. Len(b) : GaeOf(b)[t] = Before(b, t, GaeOf(b)[t + 1])
  <1> DEFINE n == Len(b)
             step == [t \in 1 .. n |-> [y \in Int |-> Before(b, t, y)]]
             Solves(f) == f = [t \in 1 .. n + 1 |->
                                 IF t > n THEN 0 ELSE Before(b, t, f[t + 1])]
  <1>1. n \in Nat /\ 0 \in Int
    OBVIOUS
  <1>2. ASSUME NEW t \in 1 .. n, NEW y \in Int
        PROVE  Before(b, t, y) \in Int
    <2>1. Delta(b, t) \in Int
      BY <1>2, DeltaInt
    <2>2. Gamma * Lambda * y \in Int
      <3>1. \A p, q, r \in Int : p * q * r \in Int
        OBVIOUS
      <3> QED
        BY <3>1, <1>2, RolloutAssumption
    <2> QED
      BY <2>1, <2>2 DEF Before
  <1>3. step \in [1 .. n -> [Int -> Int]]
    BY <1>2
  <1>4. \A t \in 1 .. n : \A y \in Int : step[t][y] = Before(b, t, y)
    OBVIOUS
  <1> HIDE DEF step, n
  <1>5. PICK s : RecursBack(s, n, Int, 0, step)
    BY ONLY <1>1, <1>3, RecursionBack, Zenon
  <1>6. /\ s \in [1 .. n + 1 -> Int] /\ s[n + 1] = 0
        /\ \A t \in 1 .. n : s[t + 1] \in Int /\ s[t] = step[t][s[t + 1]]
    <2>1. /\ s \in [1 .. n + 1 -> Int] /\ s[n + 1] = 0
          /\ \A t \in 1 .. n : s[t] = step[t][s[t + 1]]
      BY ONLY <1>5, Zenon DEF RecursBack
    <2>2. \A t \in 1 .. n : t + 1 \in 1 .. n + 1
      BY <1>1
    <2> QED
      BY <2>1, <2>2
  <1>7. \A t \in 1 .. n : s[t] = Before(b, t, s[t + 1])
    BY ONLY <1>4, <1>6, Zenon
  <1>8. Solves(s)
    <2>1. DOMAIN s = 1 .. n + 1 /\ s = [t \in DOMAIN s |-> s[t]]
      BY <1>6
    <2>2. \A t \in 1 .. n + 1 : s[t] = IF t > n THEN 0 ELSE Before(b, t, s[t + 1])
      <3>1. \A t \in 1 .. n + 1 : IF t > n THEN t = n + 1 ELSE t \in 1 .. n
        BY <1>1
      <3> QED
        BY ONLY <1>6, <1>7, <3>1, Zenon
    <2> QED
      BY ONLY <2>1, <2>2, Zenon
  <1> DEFINE gae == GaeOf(b)
  <1>9. Solves(gae)
    <2>1. gae = CHOOSE f : Solves(f)
      BY Zenon DEF GaeOf, Before, n
    <2> HIDE DEF Solves, gae
    <2> QED
      BY ONLY <1>8, <2>1, Zenon
  <1> HIDE DEF gae
  <1>10. \A t \in 1 .. n + 1 : gae[t] = IF t > n THEN 0 ELSE Before(b, t, gae[t + 1])
    BY ONLY <1>9, Zenon
  <1>11. gae[n + 1] = 0 /\ \A t \in 1 .. n : gae[t] = Before(b, t, gae[t + 1])
    <2>1. /\ n + 1 \in 1 .. n + 1 /\ n + 1 > n
          /\ \A t \in 1 .. n : t \in 1 .. n + 1 /\ ~(t > n)
      BY <1>1
    <2> QED
      BY ONLY <1>10, <2>1, Zenon
  <1> DEFINE ints == {d \in 0 .. n : gae[n + 1 - d] \in Int}
  <1>12. 0 \in ints
    BY <1>1, <1>11
  <1>13. \A d \in 1 .. n : d - 1 \in ints => d \in ints
    <2> SUFFICES ASSUME NEW d \in 1 .. n, d - 1 \in ints
                 PROVE  d \in ints
      OBVIOUS
    <2> DEFINE t == n + 1 - d
    <2>1. t \in 1 .. n /\ n + 1 - (d - 1) = t + 1 /\ d \in 0 .. n
      BY <1>1
    <2>2. gae[t + 1] \in Int
      BY <2>1
    <2>3. gae[t] \in Int
      BY ONLY <2>1, <2>2, <1>2, <1>11, Zenon
    <2> QED
      BY <2>1, <2>3
  <1>14. \A d \in 0 .. n : d \in ints
    <2> HIDE DEF ints
    <2> QED
      BY <1>1, <1>12, <1>13, UpTo
  <1>15. \A t \in 1 .. n + 1 : gae[t] \in Int
    <2> SUFFICES ASSUME NEW t \in 1 .. n + 1
                 PROVE  gae[t] \in Int
      OBVIOUS
    <2>1. n + 1 - t \in 0 .. n /\ n + 1 - (n + 1 - t) = t
      BY <1>1
    <2>2. n + 1 - t \in ints
      BY <1>14, <2>1
    <2> QED
      BY <2>1, <2>2
  <1> QED
    BY ONLY <1>11, <1>15, Zenon DEF gae, n

\* The episode that entry t belongs to ends in the buffer.
LEMMA LastOfEpisode ==
    ASSUME NEW b \in Seq(Entry), EndsEpisode(b), NEW t \in 1 .. Len(b)
    PROVE  \E last \in t .. Len(b) : b[last].done /\ \A k \in t .. last - 1 : ~b[k].done
  <1> DEFINE ends == {k \in t .. Len(b) : b[k].done}
  <1>1. Len(b) \in ends
    BY DEF EndsEpisode
  <1>2. ends \subseteq Nat /\ ends # {}
    BY <1>1
  <1> HIDE DEF ends
  <1>3. PICK last \in ends : \A k \in ends : last <= k
    BY <1>2, Least
  <1>4. last \in t .. Len(b) /\ b[last].done
    BY DEF ends
  <1>5. ASSUME NEW k \in t .. last - 1, b[k].done
        PROVE  FALSE
    <2>1. k \in t .. Len(b) /\ ~(last <= k)
      BY <1>4
    <2>2. k \in ends
      BY <1>5, <2>1 DEF ends
    <2> QED
      BY <1>3, <2>1, <2>2
  <1> QED
    BY <1>4, <1>5

\* Within an episode the backward recursion is the discounted sum of the errors.
LEMMA GaeDiscounts ==
    ASSUME NEW b \in Seq(Entry), NEW t \in 1 .. Len(b), NEW last \in t .. Len(b),
           b[last].done, \A k \in t .. last - 1 : ~b[k].done
    PROVE  ComputeGae(b)[t] = DiscountedErrors(b, t, last)
  <1> USE RolloutAssumption
  <1> DEFINE n == Len(b)
             gae == GaeOf(b)
             x == [k \in DOMAIN b |-> Delta(b, k)]
             r == [k \in t .. last + 1 |-> IF k = last + 1 THEN 0 ELSE gae[k]]
             m == last - t + 1
             g == Gamma * Lambda
  <1>1. n \in Nat /\ DOMAIN b = 1 .. n /\ t \in Int /\ last \in 1 .. n /\ m \in Nat
        /\ t + m = last + 1 /\ g \in Int /\ 0 \in Int
    OBVIOUS
  <1>2. ComputeGae(b)[t] = gae[t]
    BY Zenon DEF ComputeGae, GaeOf
  <1>3. /\ \A k \in 1 .. n + 1 : gae[k] \in Int
        /\ \A k \in 1 .. n : gae[k] = Before(b, k, gae[k + 1])
    BY GaeDef, Zenon
  <1>4. \A k \in 1 .. n : x[k] = Delta(b, k) /\ x[k] \in Int
    BY <1>1, DeltaInt
  <1> HIDE DEF x, gae, n
  <1>5. NumbersFrom(x, t, m)
    <2>1. \A k \in t .. t + m - 1 : k \in 1 .. n
      BY <1>1
    <2> HIDE DEF m
    <2> QED
      BY ONLY <1>4, <2>1, Zenon DEF NumbersFrom
  <1>6. Accumulates(r, x, g, t, m, 0)
    <2>1. last + 1 \in t .. last + 1
      BY <1>1
    <2>2. r[t + m] = 0
      BY ONLY <1>1, <2>1, Zenon
    <2>3. ASSUME NEW k \in t .. t + m - 1
          PROVE  r[k] = x[k] + g * r[k + 1]
      <3>1. k \in 1 .. n /\ k \in t .. last /\ k + 1 \in t .. last + 1 /\ k + 1 \in 1 .. n + 1
            /\ k # last + 1 /\ k \in t .. last + 1
        BY <1>1
      <3>2. r[k] = Before(b, k, gae[k + 1])
        <4>1. r[k] = gae[k]
          BY <3>1
        <4> HIDE DEF r
        <4> QED
          BY <1>3, <3>1, <4>1
      <3>3. CASE k = last
        <4>1. r[k + 1] = 0
          BY <3>1, <3>3
        <4>2. Before(b, k, gae[k + 1]) = Delta(b, k) + 0
          BY <3>3, Zenon DEF Before
        <4>3. g * 0 = 0
          BY <1>1
        <4> HIDE DEF r, g
        <4> QED
          BY <1>4, <3>1, <3>2, <4>1, <4>2, <4>3
      <3>4. CASE k # last
        <4>1. k \in t .. last - 1 /\ k + 1 # last + 1
          BY <3>1, <3>4, <1>1
        <4>2. r[k + 1] = gae[k + 1]
          BY <3>1, <4>1
        <4>3. ~b[k].done
          BY <4>1
        <4>4. Before(b, k, gae[k + 1]) = Delta(b, k) + g * gae[k + 1]
          BY <4>3, Zenon DEF Before
        <4> HIDE DEF r, g
        <4> QED
          BY ONLY <1>4, <3>1, <3>2, <4>2, <4>4, Zenon
      <3> QED
        BY <3>3, <3>4
    <2> HIDE DEF r, m, g
    <2> QED
      BY <2>2, <2>3 DEF Accumulates
  <1>7. r[t] = gae[t]
    <2>1. t \in t .. last + 1 /\ t # last + 1
      BY <1>1
    <2> QED
      BY <2>1
  <1>8. r[t] = Discounted(x, g, t, m) + Power(g, m) * 0
    <2> HIDE DEF r, m, g
    <2>1. t \in Int /\ m \in Nat /\ g \in Int /\ 0 \in Int
      BY <1>1
    <2> QED
      BY ONLY <2>1, <1>5, <1>6, BackwardSum, SMT
  <1>9. Power(g, m) \in Int
    <2> HIDE DEF m, g
    <2> QED
      BY <1>1, PowerNext
  <1>10. Discounted(x, g, t, m) \in Int
    <2> HIDE DEF m, g
    <2>1. /\ SumsUp(DiscountedSums(x, g, t, m), x, g, t, m)
          /\ Discounted(x, g, t, m) = DiscountedSums(x, g, t, m)[m]
      BY ONLY <1>1, <1>5, DiscountedDef, Zenon
    <2>2. m \in 0 .. m
      BY <1>1
    <2> QED
      BY <2>1, <2>2 DEF SumsUp
  <1>11. r[t] = Discounted(x, g, t, m)
    <2> HIDE DEF r, m, g
    <2> QED
      BY <1>8, <1>9, <1>10
  <1>12. DiscountedErrors(b, t, last) = Discounted(x, g, t, m)
    BY Zenon DEF DiscountedErrors, x
  <1> QED
    BY ONLY <1>2, <1>7, <1>11, <1>12, Zenon

\* What the last update learnt from, and that its advantages are of it.
Learned(l) ==
    l = Unlearned \/ /\ l.from \in Seq(Entry) /\ EndsEpisode(l.from)
                     /\ l.advantages = ComputeGae(l.from)

LEMMA LearnedStep ==
    ASSUME PpoInv, Learned(learned), [Next]_vars
    PROVE  Learned(learned')
  <1>1. CASE Collect
    BY <1>1 DEF Collect, Learned
  <1>2. CASE Update
    <2>1. /\ Len(buffer) = RolloutSteps
          /\ learned' = [from |-> buffer, advantages |-> ComputeGae(buffer)]
      BY <1>2 DEF Update
    <2>2. buffer \in Seq(Entry)
      BY DEF PpoInv, InStep, Entry
    <2>3. EndsEpisode(buffer)
      BY <2>1, RolloutAssumption DEF PpoInv, InStep, EndsEpisode
    <2>4. learned'.from = buffer /\ learned'.advantages = ComputeGae(buffer)
      BY ONLY <2>1
    <2> QED
      BY ONLY <2>2, <2>3, <2>4, Zenon DEF Learned
  <1>3. CASE UNCHANGED ppoVars
    BY <1>3 DEF ppoVars
  <1>4. CASE Simulate \/ EvaluateKan \/ TrainDqn \/ TrainA3C \/ UNCHANGED vars
    BY <1>3, <1>4, Zenon DEF Simulate, EvaluateKan, TrainDqn, TrainA3C, vars
  <1>5. CASE ExportOnnx \/ WriteAuditLog \/ Checkpoint \/ SaveRate
    BY <1>3, <1>5, Zenon DEF ExportOnnx, WriteAuditLog, Checkpoint, SaveRate
  <1> QED
    BY <1>1, <1>2, <1>4, <1>5, Zenon DEF Next, TrainPpo

\* The backward recursion of compute_gae yields, for every entry of a full
\* buffer, the discounted errors up to the end of its episode, and that end is
\* in the buffer (RolloutBuffer.compute_gae and the loop of train()).
THEOREM AdvantagesTheorem == Spec => []AdvantagesRight
  <1>1. Init => PpoInv /\ Learned(learned)
    BY PpoInitKept DEF Init, PpoInit, Learned
  <1>2. PpoInv /\ Learned(learned) /\ [Next]_vars => (PpoInv /\ Learned(learned))'
    BY PpoStep, LearnedStep
  <1>3. Learned(learned) => AdvantagesRight
    <2> DEFINE b == learned.from
    <2> SUFFICES ASSUME Learned(learned), NEW t \in DOMAIN b
                 PROVE  \E last \in t .. Len(b) :
                          /\ b[last].done /\ \A k \in t .. last - 1 : ~b[k].done
                          /\ learned.advantages[t] = DiscountedErrors(b, t, last)
      BY DEF AdvantagesRight
    <2>1. CASE learned = Unlearned
      <3>1. DOMAIN b = {}
        BY <2>1 DEF Unlearned
      <3> QED
        BY <3>1
    <2>2. CASE /\ b \in Seq(Entry) /\ EndsEpisode(b)
               /\ learned.advantages = ComputeGae(b)
      <3>1. t \in 1 .. Len(b)
        BY <2>2
      <3> HIDE DEF b
      <3>2. PICK last \in t .. Len(b) : b[last].done /\ \A k \in t .. last - 1 : ~b[k].done
        BY <2>2, <3>1, LastOfEpisode
      <3>3. ComputeGae(b)[t] = DiscountedErrors(b, t, last)
        BY ONLY <2>2, <3>1, <3>2, GaeDiscounts, Zenon
      <3> QED
        BY <2>2, <3>2, <3>3
    <2> QED
      BY <2>1, <2>2 DEF Learned
  <1> QED
    BY <1>1, <1>2, <1>3, PTL DEF Spec

-----------------------------------------------------------------------------
(***************************************************************************)
(* Returns.                                                                *)
(***************************************************************************)
ReturnsOf(rewards, tail) ==
    LET R[t \in 1 .. Len(rewards) + 1] ==
          IF t > Len(rewards) THEN tail ELSE rewards[t] + Discount * R[t + 1]
    IN  R

\* The recursion of the worker is well defined.
LEMMA ReturnsDef ==
    ASSUME NEW r \in Seq(RateRewards), NEW v \in Int
    PROVE  /\ ReturnsOf(r, v)[Len(r) + 1] = v
           /\ \A t \in 1 .. Len(r) :
                ReturnsOf(r, v)[t] = r[t] + Discount * ReturnsOf(r, v)[t + 1]
  <1> USE RateAssumption
  <1> DEFINE n == Len(r)
             step == [t \in 1 .. n |-> [y \in Int |-> r[t] + Discount * y]]
             Solves(f) == f = [t \in 1 .. n + 1 |->
                                 IF t > n THEN v ELSE r[t] + Discount * f[t + 1]]
  <1>1. n \in Nat /\ v \in Int /\ \A t \in 1 .. n : r[t] \in Int
    <2>1. n \in Nat /\ v \in Int /\ \A t \in 1 .. n : r[t] \in RateRewards
      OBVIOUS
    <2> HIDE DEF n
    <2> QED
      BY <2>1
  <1>2. step \in [1 .. n -> [Int -> Int]]
    <2>1. ASSUME NEW t \in 1 .. n, NEW y \in Int
          PROVE  r[t] + Discount * y \in Int
      <3>1. \A a, b, c \in Int : a + b * c \in Int
        OBVIOUS
      <3> QED
        BY <1>1, <3>1
    <2> QED
      BY <2>1
  <1>3. \A t \in 1 .. n : \A y \in Int : step[t][y] = r[t] + Discount * y
    OBVIOUS
  <1> HIDE DEF step, n
  <1>4. PICK s : RecursBack(s, n, Int, v, step)
    BY ONLY <1>1, <1>2, RecursionBack, Zenon
  <1>5. /\ s \in [1 .. n + 1 -> Int] /\ s[n + 1] = v
        /\ \A t \in 1 .. n : s[t] = step[t][s[t + 1]]
    BY ONLY <1>4, Zenon DEF RecursBack
  <1>6. \A t \in 1 .. n : s[t] = r[t] + Discount * s[t + 1]
    <2>1. \A t \in 1 .. n : t + 1 \in 1 .. n + 1
      BY <1>1
    <2>2. \A t \in 1 .. n : s[t + 1] \in Int
      BY <1>5, <2>1
    <2> QED
      BY ONLY <1>3, <1>5, <2>2, Zenon
  <1>7. Solves(s)
    <2>1. DOMAIN s = 1 .. n + 1 /\ s = [t \in DOMAIN s |-> s[t]]
      BY <1>5
    <2>2. \A t \in 1 .. n + 1 : s[t] = IF t > n THEN v ELSE r[t] + Discount * s[t + 1]
      <3>1. \A t \in 1 .. n + 1 : IF t > n THEN t = n + 1 ELSE t \in 1 .. n
        BY <1>1
      <3> QED
        BY ONLY <1>5, <1>6, <3>1, Zenon
    <2> QED
      BY ONLY <2>1, <2>2, Zenon
  <1> DEFINE R == ReturnsOf(r, v)
  <1>8. Solves(R)
    <2>1. R = CHOOSE f : Solves(f)
      BY Zenon DEF ReturnsOf, n
    <2> HIDE DEF Solves, R
    <2> QED
      BY ONLY <1>7, <2>1, Zenon
  <1> HIDE DEF R
  <1>9. \A t \in 1 .. n + 1 : R[t] = IF t > n THEN v ELSE r[t] + Discount * R[t + 1]
    BY ONLY <1>8, Zenon
  <1>10. /\ n + 1 \in 1 .. n + 1 /\ n + 1 > n
         /\ \A t \in 1 .. n : t \in 1 .. n + 1 /\ ~(t > n)
    BY <1>1
  <1> QED
    BY ONLY <1>9, <1>10, Zenon DEF R, n

\* Of every path, the returns are the discounted rewards and the tail.
LEMMA ReturnsDiscount ==
    ASSUME NEW r \in Seq(RateRewards), NEW v \in Int, NEW t \in 1 .. Len(r)
    PROVE  Returns(r, v)[t] = Discounted(r, Discount, t, Len(r) - t + 1)
                                + Power(Discount, Len(r) - t + 1) * v
  <1> USE RateAssumption
  <1> DEFINE n == Len(r)
             m == n - t + 1
             R == ReturnsOf(r, v)
  <1>1. n \in Nat /\ t \in Int /\ m \in Nat /\ t + m = n + 1
    OBVIOUS
  <1>2. Returns(r, v)[t] = R[t]
    BY Zenon DEF Returns, ReturnsOf
  <1>3. R[n + 1] = v /\ \A k \in 1 .. n : R[k] = r[k] + Discount * R[k + 1]
    BY ReturnsDef, Zenon
  <1>4. \A k \in t .. t + m - 1 : k \in 1 .. n /\ r[k] \in Int
    <2>1. \A k \in 1 .. n : r[k] \in RateRewards
      OBVIOUS
    <2>2. \A k \in t .. t + m - 1 : k \in 1 .. n
      BY <1>1
    <2> HIDE DEF n, m
    <2> QED
      BY <2>1, <2>2
  <1>5. NumbersFrom(r, t, m)
    BY <1>4 DEF NumbersFrom
  <1> HIDE DEF R, m, n
  <1>6. Accumulates(R, r, Discount, t, m, v)
    <2>1. R[t + m] = v
      BY ONLY <1>1, <1>3, Zenon
    <2> QED
      BY ONLY <2>1, <1>3, <1>4, Zenon DEF Accumulates
  <1>7. Discount \in Int
    OBVIOUS
  <1>8. R[t] = Discounted(r, Discount, t, m) + Power(Discount, m) * v
    <2>1. t \in Int /\ m \in Nat /\ v \in Int
      BY <1>1
    <2> QED
      BY ONLY <2>1, <1>5, <1>6, <1>7, BackwardSum, SMT
  <1> QED
    BY ONLY <1>2, <1>8, Zenon DEF m, n

\* What a worker holds of its last rollout.
PathsOK ==
    \A w \in Workers :
        worker[w].path = NoPath
        \/ \E r \in Seq(RateRewards), v \in Int : worker[w].path = PathOf(r, v)

LEMMA PathsStep ==
    ASSUME GradInv, PathsOK, [Next]_vars
    PROVE  PathsOK'
  <1>1. CASE TrainA3C
    <2>1. PICK w \in Workers : Work(w)
      BY <1>1 DEF TrainA3C
    <2>2. \E path : /\ PathAfter(w, path)
                    /\ \/ path \in {NoPath, worker[w].path}
                       \/ \E r \in Seq(RateRewards), v \in Int : path = PathOf(r, v)
      BY <2>1, RollKeeps, AcquireKeeps, LookKeeps, AddKeeps, StepKeeps, Zenon DEF Work
    <2> QED
      BY <2>2, Zenon DEF PathAfter, PathsOK
  <1>2. CASE UNCHANGED worker
    BY <1>2, Zenon DEF PathsOK
  <1>3. CASE Simulate \/ TrainPpo \/ EvaluateKan
    BY <1>2, <1>3 DEF Simulate, TrainPpo, EvaluateKan, rateVars
  <1>4. CASE TrainDqn
    BY <1>2, <1>4 DEF TrainDqn, Learn
  <1>5. CASE ExportOnnx \/ WriteAuditLog \/ Checkpoint \/ SaveRate
    BY <1>2, <1>5 DEF ExportOnnx, WriteAuditLog, Checkpoint, SaveRate, rateVars
  <1>6. CASE UNCHANGED vars
    BY <1>2, <1>6 DEF vars, rateVars
  <1> QED
    BY <1>1, <1>3, <1>4, <1>5, <1>6 DEF Next

\* The returns that an A3C worker computes backwards are the discounted rewards
\* of the rollout and, beyond them, the value it ended with (A3CWorker.run).
THEOREM ReturnsTheorem == Spec => []ReturnsRight
  <1>1. Init => PathsOK
    BY DEF Init, RateInit, PathsOK
  <1>2. PathsOK => ReturnsRight
    <2> SUFFICES ASSUME PathsOK, NEW w \in Workers,
                        NEW t \in 1 .. Len(worker[w].path.rewards)
                 PROVE  LET path == worker[w].path
                            n == Len(path.rewards)
                        IN  path.returns[t] =
                              Discounted(path.rewards, Discount, t, n - t + 1)
                              + Power(Discount, n - t + 1) * path.tail
      BY Zenon DEF ReturnsRight
    <2>1. CASE worker[w].path = NoPath
      <3>1. 1 .. Len(worker[w].path.rewards) = {}
        BY <2>1 DEF NoPath
      <3> QED
        BY <3>1
    <2>2. ASSUME NEW r \in Seq(RateRewards), NEW v \in Int,
                 worker[w].path = PathOf(r, v)
          PROVE  LET path == worker[w].path
                     n == Len(path.rewards)
                 IN  path.returns[t] =
                       Discounted(path.rewards, Discount, t, n - t + 1)
                       + Power(Discount, n - t + 1) * path.tail
      <3> DEFINE path == worker[w].path
      <3>1. path.rewards = r /\ path.tail = v /\ path.returns = Returns(r, v)
        BY <2>2 DEF PathOf
      <3>2. t \in 1 .. Len(r)
        BY <3>1
      <3> HIDE DEF path
      <3>3. path.returns[t] = Discounted(r, Discount, t, Len(r) - t + 1)
                                + Power(Discount, Len(r) - t + 1) * v
        <4>1. Returns(r, v)[t] = Discounted(r, Discount, t, Len(r) - t + 1)
                                   + Power(Discount, Len(r) - t + 1) * v
          BY ONLY r \in Seq(RateRewards), v \in Int, <3>2, ReturnsDiscount, SMT
        <4> QED
          BY ONLY <3>1, <4>1, Zenon
      <3> QED
        BY ONLY <3>1, <3>3, Zenon DEF path
    <2> QED
      BY <2>1, <2>2, Zenon DEF PathsOK
  <1> QED
    BY <1>1, <1>2, PathsStep, GradInvariant, PTL DEF Spec

-----------------------------------------------------------------------------
(***************************************************************************)
(* The simulated environment.                                              *)
(***************************************************************************)

\* Queues stay between empty and 1.2 times capacity, whatever arrives.
LEMMA QueuesType ==
    ASSUME NEW load \in [Backends -> Int], NEW arrivals \in [Backends -> Int]
    PROVE  Queues(load, arrivals) \in [Backends -> 0 .. 120]
  <1>1. ASSUME NEW b \in Backends
        PROVE  AtMost(120, AtLeast(0, load[b] + arrivals[b] - ServiceRate)) \in 0 .. 120
    <2>1. load[b] + arrivals[b] - ServiceRate \in Int
      BY DEF ServiceRate
    <2>2. \A x \in Int : AtMost(120, AtLeast(0, x)) \in 0 .. 120
      BY DEF AtMost, AtLeast
    <2> QED
      BY <2>1, <2>2
  <1> QED
    BY <1>1 DEF Queues

LEMMA ArrivalsType ==
    ASSUME NEW w \in [Backends -> Nat], NEW rps \in Nat
    PROVE  Arrivals(w, rps) \in [Backends -> Nat]
  <1> DEFINE total == Total(w)
  <1>1. total \in Nat
    <2>1. w \in [Backends -> Int] /\ \A b \in Backends : w[b] >= 0
      OBVIOUS
    <2>2. total \in Int
      BY <2>1, SumsDef
    <2>3. total >= 0
      BY <2>1, SumsZero
    <2> QED
      BY <2>2, <2>3
  <1>2. rps \div N \in Nat
    BY NAssumption
  <1> HIDE DEF total
  <1>3. total # 0 => rps \div total \in Nat
    BY <1>1
  <1>4. \A x, y \in Nat : x * y \in Nat
    OBVIOUS
  <1>5. ASSUME NEW b \in Backends
        PROVE  (IF total = 0 THEN rps \div N ELSE w[b] * (rps \div total)) \in Nat
    BY <1>2, <1>3, <1>4
  <1> QED
    BY <1>5 DEF Arrivals, total

\* The total of a vector without negative components.
LEMMA TotalNat ==
    ASSUME NEW f \in [Backends -> Nat]
    PROVE  Total(f) \in Nat
  <1>1. f \in [Backends -> Int] /\ \A b \in Backends : f[b] >= 0
    OBVIOUS
  <1>2. Total(f) \in Int /\ Total(f) >= 0
    BY <1>1, SumsDef, SumsZero
  <1> QED
    BY <1>2

LEMMA RejectedType ==
    ASSUME NEW load \in [Backends -> Int], NEW arrivals \in [Backends -> Int]
    PROVE  Rejected(load, arrivals) \in Nat
  <1> DEFINE f == [b \in Backends |-> AtLeast(0, arrivals[b] - AtLeast(0, 100 - load[b]))]
  <1>1. ASSUME NEW b \in Backends
        PROVE  AtLeast(0, arrivals[b] - AtLeast(0, 100 - load[b])) \in Nat
    BY DEF AtLeast
  <1>2. f \in [Backends -> Nat]
    BY <1>1
  <1> HIDE DEF f
  <1>3. Total(f) \in Nat
    BY <1>2, TotalNat
  <1> QED
    BY <1>3 DEF Rejected, f

LEMMA ScalePositive == Scale \in Nat \ {0}
  <1>1. 10 \in Nat \ {0} /\ EpisodeLen \in Nat
    BY SimAssumption
  <1>2. Power(10, EpisodeLen) \in Nat \ {0}
    BY ONLY <1>1, PowerPositive
  <1> QED
    BY <1>2 DEF Scale

LEMMA SmoothedType ==
    ASSUME NEW old \in Nat, NEW amount \in Nat
    PROVE  Smoothed(old, amount) \in Nat
  <1>1. Scale \in Nat
    BY ScalePositive
  <1>2. Scale * amount \in Nat
    <2>1. \A x, y \in Nat : x * y \in Nat
      OBVIOUS
    <2> QED
      BY <1>1, <2>1
  <1>3. \A x \in Nat : (9 * old + x) \div 10 \in Nat
    OBVIOUS
  <1> QED
    BY <1>2, <1>3 DEF Smoothed

\* A step of the environment is well typed.
LEMMA OutcomeType ==
    ASSUME SimTypeOK, NEW w \in Weights, NEW rps \in Rates, NEW noise
    PROVE  /\ Outcome(w, rps, noise).loads \in [Backends -> 0 .. 120]
           /\ Outcome(w, rps, noise).admitted \in Nat
           /\ Outcome(w, rps, noise).rejected \in Nat
  <1> DEFINE arrivals == Arrivals(w, rps)
             load == Queues(loads, arrivals)
             out == Outcome(w, rps, noise)
  <1>1. w \in [Backends -> Nat] /\ rps \in Nat
    BY SimAssumption
  <1>2. arrivals \in [Backends -> Nat]
    BY <1>1, ArrivalsType
  <1> HIDE DEF arrivals
  <1>3. arrivals \in [Backends -> Int] /\ loads \in [Backends -> Int]
    BY <1>2 DEF SimTypeOK
  <1>4. load \in [Backends -> 0 .. 120]
    BY <1>3, QueuesType
  <1> HIDE DEF load
  <1>5. load \in [Backends -> Int]
    BY <1>4
  <1>6. Smoothed(admitted, Total(arrivals)) \in Nat
    <2>1. Total(arrivals) \in Nat
      BY <1>2, TotalNat
    <2> QED
      BY <2>1, SmoothedType DEF SimTypeOK
  <1>7. Smoothed(rejected, Rejected(load, arrivals)) \in Nat
    <2>1. Rejected(load, arrivals) \in Nat
      BY <1>3, <1>5, RejectedType
    <2> QED
      BY <2>1, SmoothedType DEF SimTypeOK
  <1>8. /\ out.loads = load
        /\ out.admitted = Smoothed(admitted, Total(arrivals))
        /\ out.rejected = Smoothed(rejected, Rejected(load, arrivals))
    BY Zenon DEF Outcome, load, arrivals
  <1> QED
    BY ONLY <1>4, <1>6, <1>7, <1>8, Zenon

LEMMA SimStepType ==
    ASSUME SimTypeOK, [Next]_vars
    PROVE  SimTypeOK'
  <1>1. CASE SimStep
    <2>1. PICK w \in Weights, rps \in Rates :
            /\ loads' = Outcome(w, rps, 0).loads
            /\ admitted' = Outcome(w, rps, 0).admitted
            /\ rejected' = Outcome(w, rps, 0).rejected
      BY <1>1, Zenon DEF SimStep
    <2>2. /\ Outcome(w, rps, 0).loads \in [Backends -> 0 .. 120]
          /\ Outcome(w, rps, 0).admitted \in Nat
          /\ Outcome(w, rps, 0).rejected \in Nat
      BY OutcomeType
    <2>3. loads' \in [Backends -> 0 .. 120] /\ admitted' \in Nat /\ rejected' \in Nat
      BY ONLY <2>1, <2>2, Zenon
    <2>4. count' \in 0 .. EpisodeLen
      BY <1>1, SimAssumption DEF SimStep, SimTypeOK
    <2> QED
      BY <2>3, <2>4 DEF SimTypeOK
  <1>2. CASE SimReset
    <2>1. loads' \in [Backends -> 0 .. 30] /\ count' = 0 /\ admitted' = 0 /\ rejected' = 0
      BY <1>2, SimAssumption DEF SimReset
    <2>2. loads' \in [Backends -> 0 .. 120]
      BY <2>1
    <2> QED
      BY <2>1, <2>2, SimAssumption DEF SimTypeOK
  <1>3. CASE UNCHANGED simVars
    BY <1>3 DEF simVars, SimTypeOK
  <1>4. CASE TrainPpo \/ EvaluateKan \/ TrainDqn \/ TrainA3C \/ UNCHANGED vars
    BY <1>3, <1>4, Zenon DEF TrainPpo, EvaluateKan, TrainDqn, TrainA3C, vars
  <1>5. CASE ExportOnnx \/ WriteAuditLog \/ Checkpoint \/ SaveRate
    BY <1>3, <1>5, Zenon DEF ExportOnnx, WriteAuditLog, Checkpoint, SaveRate
  <1> QED
    BY <1>1, <1>2, <1>4, <1>5, Zenon DEF Next, Simulate

LEMMA SimInitType == Init => SimTypeOK
  <1> SUFFICES ASSUME Init PROVE SimTypeOK
    OBVIOUS
  <1>1. loads \in [Backends -> 0 .. 30] /\ count = 0 /\ admitted = 0 /\ rejected = 0
    BY SimAssumption DEF Init, SimInit
  <1> QED
    BY <1>1, SimAssumption DEF SimTypeOK

-----------------------------------------------------------------------------
(***************************************************************************)
(* The hard floors of the reward. A step over the load floor loses what no *)
(* other term of the reward can give back: latency, variance and the other *)
(* floors are bounded by what the loads can be.                            *)
(***************************************************************************)

\* The greatest component of a vector, and where it is.
LEMMA PeakIs ==
    ASSUME NEW c \in Nat, NEW f \in [Backends -> 0 .. c]
    PROVE  /\ Peak(f) \in 0 .. c
           /\ \A b \in Backends : f[b] <= Peak(f)
  <1> DEFINE all == {f[b] : b \in DOMAIN f}
             peak == Peak(f)
  <1>1. PICK b \in Backends : \A d \in Backends : f[d] <= f[b]
    BY Greatest
  <1>2. f[b] \in all /\ \A y \in all : f[b] >= y
    BY <1>1
  <1>3. peak = CHOOSE x \in all : \A y \in all : x >= y
    BY Zenon DEF Peak, Max, all
  <1>4. peak \in all /\ \A y \in all : peak >= y
    <2> HIDE DEF all, peak
    <2> QED
      BY <1>2, <1>3
  <1> HIDE DEF peak
  <1>5. peak \in 0 .. c /\ \A d \in Backends : f[d] <= peak
    BY <1>4
  <1> QED
    BY <1>5 DEF peak

\* Loads with a small peak are small.
LEMMA PeakBounds ==
    ASSUME NEW c \in Nat, NEW f \in [Backends -> 0 .. c], NEW d \in Nat, Peak(f) <= d
    PROVE  f \in [Backends -> 0 .. d]
  <1>1. Peak(f) \in 0 .. c /\ \A b \in Backends : f[b] <= Peak(f)
    BY PeakIs
  <1>2. \A b \in Backends : f[b] \in 0 .. d
    BY <1>1
  <1> QED
    BY <1>2

LEMMA LatencyBounds ==
    ASSUME NEW d \in Nat, NEW load \in [Backends -> 0 .. d]
    PROVE  Latency(load) \in 0 .. 10 * d
  <1> DEFINE f == [b \in Backends |->
                     IF b \in Deceptive /\ load[b] > 60 THEN 10 * load[b] ELSE load[b]]
  <1>1. \A b \in Backends : f[b] \in 0 .. 10 * d
    OBVIOUS
  <1>2. f \in [Backends -> 0 .. 10 * d] /\ 10 * d \in Nat
    BY <1>1
  <1>3. Latency(load) = Peak(f)
    BY DEF Latency
  <1> HIDE DEF f
  <1>4. Peak(f) \in 0 .. 10 * d
    BY <1>2, PeakIs
  <1> QED
    BY <1>3, <1>4

LEMMA SquareBounds ==
    ASSUME NEW m \in Nat, NEW x \in 0 .. m
    PROVE  x * x \in 0 .. m * m
  <1>1. \A y, z \in Nat : y * z \in Nat
    OBVIOUS
  <1>2. x * x \in Nat /\ x * m \in Nat /\ m * m \in Nat
    BY <1>1
  <1>3. CASE x = 0
    BY <1>2, <1>3
  <1>4. CASE x # 0
    <2>1. x \in Nat \ {0} /\ m \in Nat \ {0} /\ x \in Int /\ m \in Int
      BY <1>4
    <2>2. x * x > x * m => x > m
      BY ONLY <2>1, ProductOrder, Zenon
    <2>3. m * x > m * m => x > m
      BY ONLY <2>1, ProductOrder, Zenon
    <2>4. m * x = x * m
      OBVIOUS
    <2> QED
      BY <1>2, <2>2, <2>3, <2>4
  <1> QED
    BY <1>3, <1>4

\* The variance, computed as the mean of the squares less the square of the
\* mean, stays between the squares of the bounds.
LEMMA VarianceBounds ==
    ASSUME NEW d \in Nat, NEW load \in [Backends -> 0 .. d]
    PROVE  Variance(load) \in -(d * d) .. d * d
  <1> DEFINE squares == [b \in Backends |-> load[b] * load[b]]
             s == Total(squares)
             t == Total(load)
             q == d * d
             r == N * N
  <1>1. q \in Nat /\ r \in Nat \ {0} /\ N \in Nat \ {0}
    <2>1. \A y, z \in Nat : y * z \in Nat
      OBVIOUS
    <2>2. \A y, z \in Nat \ {0} : y * z \in Nat \ {0}
      OBVIOUS
    <2> QED
      BY <2>1, <2>2, NAssumption
  <1>2. squares \in [Backends -> 0 .. q]
    <2>1. \A b \in Backends : load[b] \in 0 .. d
      OBVIOUS
    <2>2. \A b \in Backends : load[b] * load[b] \in 0 .. q
      BY <2>1, SquareBounds
    <2> QED
      BY <2>2
  <1> HIDE DEF squares
  <1>3. s \in 0 .. N * q
    <2> HIDE DEF q
    <2> QED
      BY <1>1, <1>2, SumsUpTo
  <1>4. t \in 0 .. N * d
    BY SumsUpTo
  <1>5. N * d \in Nat /\ N * q \in Nat
    <2>1. \A y, z \in Nat : y * z \in Nat
      OBVIOUS
    <2> QED
      BY <1>1, <2>1
  <1> HIDE DEF s, t
  <1>6. t * t \in 0 .. (N * d) * (N * d)
    BY ONLY <1>4, <1>5, SquareBounds, SMT
  <1>7. (N * d) * (N * d) = r * q
    <2>1. \A a, b \in Nat : (a * b) * (a * b) = (a * a) * (b * b)
      OBVIOUS
    <2> QED
      BY <2>1, <1>1
  <1>8. N * s \in 0 .. r * q
    <2>1. N * s \in Nat
      <3>1. \A y, z \in Nat : y * z \in Nat
        OBVIOUS
      <3> QED
        BY <3>1, <1>1, <1>3
    <2>2. N * (N * q) = r * q
      <3> HIDE DEF q
      <3>1. \A a, b \in Nat : a * (a * b) = (a * a) * b
        OBVIOUS
      <3> QED
        BY <3>1, <1>1
    <2>3. N * s > N * (N * q) => s > N * q
      <3>1. s \in Int /\ N * q \in Int
        BY <1>3, <1>5
      <3> QED
        BY ONLY <1>1, <3>1, ProductOrder, Zenon
    <2>4. N * (N * q) \in Nat
      <3>1. \A y, z \in Nat : y * z \in Nat
        OBVIOUS
      <3> QED
        BY <3>1, <1>1, <1>5
    <2> HIDE DEF r, q
    <2> QED
      BY <1>3, <1>5, <2>1, <2>2, <2>3, <2>4
  <1> DEFINE x == N * s - t * t
             v == x \div r
  <1>9. /\ x \in Int /\ x <= r * q /\ r * (-q) <= x
        /\ q \in Int /\ -q \in Int
    <2> HIDE DEF r, q
    <2>1. r * (-q) = -(r * q) /\ r * q \in Int
      <3>1. \A a, b \in Int : a * (-b) = -(a * b) /\ a * b \in Int
        OBVIOUS
      <3> QED
        BY <3>1, <1>1
    <2> QED
      BY <1>1, <1>6, <1>7, <1>8, <2>1
  <1> HIDE DEF x, r, q
  <1>10. v \in Int /\ v <= q
    <2>1. x \div r \in Int /\ (x <= r * q => x \div r <= q)
      BY ONLY <1>1, <1>9, QuotientBounds, SMT
    <2> QED
      BY <1>9, <2>1
  <1>11. -q <= v
    <2>1. r * (-q) <= x => -q <= x \div r
      BY ONLY <1>1, <1>9, QuotientBounds, SMT
    <2> QED
      BY <1>9, <2>1
  <1>12. Variance(load) = v
    BY Zenon DEF Variance, v, x, r, s, t, squares
  <1> HIDE DEF v
  <1>13. Variance(load) \in -q .. q
    BY <1>1, <1>10, <1>11, <1>12
  <1> QED
    BY <1>13 DEF q

\* The most that the penalty for rejections can take; what a step over the
\* floor loses at least, and what one below loses at most.
MostHacking == 210000
LeastLoss == 985600
MostLoss == 978525

Between(x, lo, hi) == x \in Int /\ lo <= x /\ x <= hi

LEMMA HackingBounds ==
    ASSUME NEW adm \in Nat, NEW rej \in Nat
    PROVE  Between(HackingPenalty(adm, rej), 0, MostHacking)
  <1> DEFINE r == AtLeast(Scale, adm + rej)
             rate == (1000 * rej) \div r
  <1>1. r \in Nat \ {0} /\ rej <= r
    <2>1. Scale \in Nat \ {0}
      BY ScalePositive
    <2> QED
      BY <2>1 DEF AtLeast
  <1> HIDE DEF r
  <1>2. 1000 * rej \in Int /\ 1000 * rej <= r * 1000 /\ r * 0 <= 1000 * rej
        /\ 1000 \in Int /\ 0 \in Int
    BY <1>1
  <1>3. rate \in Int /\ rate <= 1000 /\ 0 <= rate
    <2>1. /\ (1000 * rej) \div r \in Int
          /\ 1000 * rej <= r * 1000 => (1000 * rej) \div r <= 1000
      BY ONLY <1>1, <1>2, QuotientBounds, SMT
    <2>2. r * 0 <= 1000 * rej => 0 <= (1000 * rej) \div r
      BY ONLY <1>1, <1>2, QuotientBounds, SMT
    <2> QED
      BY ONLY <1>2, <2>1, <2>2, SMT DEF rate
  <1> DEFINE excess == AtLeast(0, rate - RejectionRateWarn)
  <1>4. HackingPenalty(adm, rej) = 300 * excess
    BY Zenon DEF HackingPenalty, excess, rate, r
  <1>5. Between(excess, 0, 700)
    <2> HIDE DEF rate
    <2> QED
      BY <1>3, SMT DEF AtLeast, RejectionRateWarn, Between
  <1> HIDE DEF excess
  <1>6. Between(300 * excess, 0, MostHacking)
    BY <1>5, SMT DEF MostHacking, Between
  <1> QED
    BY ONLY <1>4, <1>6, Zenon

\* A reward that is put together as step does, of parts within their bounds.
Composed(rew, base, pe, p99, va, e, p, hp) ==
    /\ base \in Int /\ pe \in Int
    /\ Between(p99, 0, 6200) /\ Between(va, -14400, 14400) /\ Between(hp, 0, MostHacking)
    /\ Between(e, 0, 500000) /\ Between(p, 0, 200000)
    /\ rew = base - 10 * p99 - va - (IF pe > 100 THEN 1000 ELSE 0)
              - ((IF pe > 95 THEN 1000000 ELSE 0) + e + p) - hp
    /\ pe <= 95 => Between(p99, 0, 5950) /\ Between(va, -9025, 9025)

Separated(rew, base, pe) ==
    /\ rew \in Int
    /\ pe > 95 => rew <= base - LeastLoss
    /\ pe <= 95 => rew >= base - MostLoss

\* The floor for the load is steeper than all else together.
LEMMA RewardParts ==
    ASSUME NEW rew, NEW base, NEW pe, NEW p99, NEW va, NEW e, NEW p, NEW hp,
           Composed(rew, base, pe, p99, va, e, p, hp)
    PROVE  Separated(rew, base, pe)
  BY SMT DEF Composed, Separated, Between, MostHacking, LeastLoss, MostLoss

\* What a step gives for given traffic, with its load over the floor and with
\* its load below.
Rewarded(out, rps) ==
    Peak(out.loads) \in Int /\ Separated(out.reward, rps \div 10, Peak(out.loads))

LEMMA RewardBounds ==
    ASSUME SimTypeOK, NEW w \in Weights, NEW rps \in Rates, NEW noise \in Noises
    PROVE  Rewarded(Outcome(w, rps, noise), rps)
  <1> DEFINE arrivals == Arrivals(w, rps)
             load == Queues(loads, arrivals)
             p99 == Latency(load) + noise
             adm == Smoothed(admitted, Total(arrivals))
             rej == Smoothed(rejected, Rejected(load, arrivals))
             out == Outcome(w, rps, noise)
             fl == Floors(load, p99)
             hp == HackingPenalty(adm, rej)
             va == Variance(load)
             pe == Peak(load)
             er == ErrorSum(load)
             lim == HardFloor.error * N
             e == IF er > lim THEN 500000 ELSE 0
             p == IF p99 > 500 THEN 200000 ELSE 0
  <1>1. /\ out.loads = load /\ out.admitted = adm /\ out.rejected = rej
        /\ out.reward = (rps \div 10) - 10 * p99 - va
                         - (IF pe > 100 THEN 1000 ELSE 0) - fl - hp
    BY Zenon DEF Outcome
  <1>2. load \in [Backends -> 0 .. 120] /\ adm \in Nat /\ rej \in Nat
    <2>1. /\ out.loads \in [Backends -> 0 .. 120]
          /\ out.admitted \in Nat /\ out.rejected \in Nat
      BY OutcomeType
    <2> QED
      BY ONLY <1>1, <2>1, Zenon
  <1>3. fl = (IF pe > 95 THEN 1000000 ELSE 0) + e + p
    <2> HIDE DEF load, adm, rej
    <2> QED
      BY SMT DEF Floors, HardFloor
  <1> HIDE DEF load, adm, rej, er, lim
  <1>4. Between(e, 0, 500000) /\ Between(p, 0, 200000)
    BY SMT DEF Between
  <1> HIDE DEF e, p
  <1>5. pe \in Int
    <2>1. Peak(load) \in 0 .. 120
      BY <1>2, PeakIs
    <2> QED
      BY <2>1
  <1>6. Between(hp, 0, MostHacking)
    BY <1>2, HackingBounds
  <1>7. Between(noise, 0, 5000) /\ rps \in Nat
    BY SimAssumption DEF Between
  <1>8. rps \div 10 \in Int
    BY <1>7
  <1>9. \A d \in Nat : load \in [Backends -> 0 .. d]
          => Between(p99, 0, 10 * d + 5000) /\ Between(va, -(d * d), d * d)
    <2> SUFFICES ASSUME NEW d \in Nat, load \in [Backends -> 0 .. d]
                 PROVE  Between(p99, 0, 10 * d + 5000) /\ Between(va, -(d * d), d * d)
      OBVIOUS
    <2>1. Latency(load) \in 0 .. 10 * d
      BY LatencyBounds
    <2>2. va \in -(d * d) .. d * d
      BY VarianceBounds
    <2>3. Between(p99, 0, 10 * d + 5000)
      <3> DEFINE l == Latency(load)
      <3> HIDE DEF l
      <3>1. \A x \in 0 .. 10 * d : \A y \in Int :
               0 <= y /\ y <= 5000 => 0 <= x + y /\ x + y <= 10 * d + 5000 /\ x + y \in Int
        OBVIOUS
      <3>2. l \in 0 .. 10 * d
        BY <2>1 DEF l
      <3> QED
        BY <1>7, <3>1, <3>2 DEF Between, l
    <2> DEFINE q == d * d
    <2>4. q \in Int
      OBVIOUS
    <2> HIDE DEF va, q
    <2>5. Between(va, -q, q)
      <3>1. va \in -q .. q
        BY ONLY <2>2, Zenon DEF q
      <3> QED
        BY <2>4, <3>1 DEF Between
    <2> QED
      BY <2>3, <2>5 DEF q
  <1> HIDE DEF p99, va
  <1> DEFINE Bounded(d) == Between(p99, 0, 10 * d + 5000) /\ Between(va, -(d * d), d * d)
  <1> HIDE DEF Bounded
  <1>10. \A d \in Nat : load \in [Backends -> 0 .. d] => Bounded(d)
    BY <1>9, Zenon DEF Bounded
  <1>11. Between(p99, 0, 6200) /\ Between(va, -14400, 14400)
    <2>1. Bounded(120)
      BY <1>2, <1>10
    <2> QED
      BY ONLY <2>1, SMT DEF Bounded, Between
  <1>12. pe <= 95 => Between(p99, 0, 5950) /\ Between(va, -9025, 9025)
    <2> SUFFICES ASSUME pe <= 95
                 PROVE  Between(p99, 0, 5950) /\ Between(va, -9025, 9025)
      OBVIOUS
    <2>1. load \in [Backends -> 0 .. 95]
      BY <1>2, PeakBounds
    <2>2. Bounded(95)
      BY <1>10, <2>1
    <2> QED
      BY ONLY <2>2, SMT DEF Bounded, Between
  <1> DEFINE rew == out.reward
             base == rps \div 10
  <1>13. rew = base - 10 * p99 - va - (IF pe > 100 THEN 1000 ELSE 0) - fl - hp /\ base \in Int
    <2> HIDE DEF out, fl, hp, pe
    <2> QED
      BY ONLY <1>1, <1>8, SMT DEF rew, base
  <1>14. Peak(out.loads) = pe
    BY <1>1, Zenon
  <1> HIDE DEF rew, base, pe, fl, hp
  <1>15. Composed(rew, base, pe, p99, va, e, p, hp)
    BY ONLY <1>3, <1>4, <1>5, <1>6, <1>11, <1>12, <1>13, SMT DEF Composed
  <1>16. Separated(rew, base, pe)
    BY ONLY <1>15, RewardParts, Zenon
  <1> HIDE DEF out
  <1>17. Rewarded(out, rps)
    BY ONLY <1>5, <1>14, <1>16, Zenon DEF rew, base, Rewarded
  <1> QED
    BY <1>17, Zenon DEF out

LEMMA FloorHolds ==
    ASSUME SimTypeOK
    PROVE  FloorNotTraded
  <1> DEFINE Outcomes(rps) == {Outcome(c[1], rps, c[2]) : c \in Weights \X Noises}
  <1> SUFFICES ASSUME NEW rps \in Rates,
                      NEW over \in Outcomes(rps), NEW under \in Outcomes(rps),
                      Peak(over.loads) > 95, Peak(under.loads) <= 95
               PROVE  over.reward < under.reward
    BY DEF FloorNotTraded
  <1>1. Rewarded(over, rps) /\ Rewarded(under, rps)
    <2>1. ASSUME NEW c \in Weights \X Noises
          PROVE  Rewarded(Outcome(c[1], rps, c[2]), rps)
      <3>1. c[1] \in Weights /\ c[2] \in Noises
        OBVIOUS
      <3> QED
        BY ONLY SimTypeOK, rps \in Rates, <3>1, RewardBounds, Zenon
    <2>2. /\ \E c \in Weights \X Noises : over = Outcome(c[1], rps, c[2])
          /\ \E c \in Weights \X Noises : under = Outcome(c[1], rps, c[2])
      OBVIOUS
    <2> QED
      BY ONLY <2>1, <2>2, Zenon
  <1>2. rps \div 10 \in Int
    BY SimAssumption
  <1> QED
    BY <1>1, <1>2, SMT DEF Rewarded, Separated, LeastLoss, MostLoss

\* Whatever the loads an episode has led to, the traffic and the noise: a step
\* that drives a backend over the load floor is rewarded less than any step
\* with that traffic that does not (LBSimEnv.step).
THEOREM FloorTheorem == Spec => []FloorNotTraded
  <1> QED
    BY SimInitType, SimStepType, FloorHolds, PTL DEF Spec

-----------------------------------------------------------------------------
(***************************************************************************)
(* The training-time safety filter. Each of its iterations takes from the  *)
(* weight of a backend what grows with the backend's load and, by itself,  *)
(* is less than the weight; the threshold is the same for all.             *)
(***************************************************************************)
IntVectors == [Backends -> Int]

\* simplex_project lowers every component by the same threshold.
LEMMA SimplexProjectShape ==
    ASSUME NEW v \in IntVectors
    PROVE  \E theta \in Int : SimplexProject(v) = [b \in Backends |-> AtLeast(0, v[b] - theta)]
  <1> USE RolloutAssumption, NAssumption
  <1> DEFINE u == Sorted(v)
             positive == {k \in 1 .. N : k * u[k - 1] > Sums(u)[k] - Grain}
             rho == Cardinality(positive)
             theta == (Sums(u)[rho] - Grain) \div rho
  <1>1. u \in [Backends -> Int]
    BY SortedSorts DEF IntVectors
  <1> HIDE DEF u
  <1>2. /\ Sums(u) \in [0 .. N -> Int] /\ Sums(u)[0] = 0
        /\ \A k \in 1 .. N : Sums(u)[k] = Sums(u)[k - 1] + u[k - 1]
    BY ONLY <1>1, SumsDef, Zenon
  <1>3. 1 \in positive
    <2>1. 1 \in 1 .. N /\ 1 - 1 = 0 /\ 0 \in Backends
      BY DEF Backends
    <2>2. u[0] \in Int /\ Sums(u)[1] = u[0]
      BY <1>1, <1>2, <2>1
    <2>3. 1 * u[1 - 1] > Sums(u)[1] - Grain
      BY <2>1, <2>2
    <2> QED
      BY <2>1, <2>3
  <1>4. positive \subseteq 1 .. N
    OBVIOUS
  <1> HIDE DEF positive
  <1>5. rho \in 1 .. N
    <2>1. IsFiniteSet(1 .. N) /\ Cardinality(1 .. N) = N
      <3>1. 1 \in Int /\ N \in Int /\ ~(1 > N) /\ N - 1 + 1 = N
        OBVIOUS
      <3>2. IsFiniteSet(1 .. N) /\ Cardinality(1 .. N) = IF 1 > N THEN 0 ELSE N - 1 + 1
        BY ONLY <3>1, FS_Interval, Zenon
      <3> QED
        BY ONLY <3>1, <3>2, Zenon
    <2>2. IsFiniteSet(positive) /\ Cardinality(positive) <= N
      <3>1. positive \in SUBSET (1 .. N)
        BY <1>4
      <3> QED
        BY ONLY <2>1, <3>1, FS_Subset
    <2>3. rho \in Nat
      BY <2>2, FS_CardinalityType
    <2>4. rho # 0
      BY <1>3, <2>2, FS_EmptySet
    <2> QED
      BY <2>2, <2>3, <2>4
  <1> HIDE DEF rho
  <1>6. Sums(u)[rho] \in Int
    BY <1>2, <1>5
  <1>7. theta \in Int
    <2> DEFINE s == Sums(u)[rho]
    <2>1. s \in Int /\ rho \in Nat \ {0} /\ Grain \in Int
      BY <1>5, <1>6
    <2> HIDE DEF s
    <2>2. (s - Grain) \div rho \in Int
      BY <2>1
    <2> QED
      BY <2>2 DEF s
  <1>8. SimplexProject(v) = [b \in Backends |-> AtLeast(0, v[b] - theta)]
    BY Zenon DEF SimplexProject, u, positive, rho
  <1> QED
    BY <1>7, <1>8

\* Lowered(w, r, l) is what a gradient step makes of a weight w whose raw value
\* is r, where the cap is exceeded by l + w.
Lowered(w, r, l) == w - (4 * (w - r) + AtLeast(0, l + w)) \div 40

LEMMA LoweredInOrder ==
    ASSUME NEW w \in Int, NEW x \in Int, w <= x, NEW r \in Int,
           NEW l \in Int, NEW m \in Int, l >= m
    PROVE  Lowered(w, r, l) <= Lowered(x, r, m)
  <1> DEFINE c == 4 * (w - r) + AtLeast(0, l + w)
             d == 4 * (x - r) + AtLeast(0, m + x)
             p == c \div 40
             q == d \div 40
  <1>1. c \in Int /\ d \in Int /\ d - c <= 5 * (x - w)
    BY DEF AtLeast
  <1> HIDE DEF c, d
  <1>2. p \in Int /\ q \in Int /\ 40 * p <= c /\ c < 40 * p + 40 /\ 40 * q <= d
    BY <1>1
  <1> HIDE DEF p, q
  <1>3. w - p <= x - q
    BY <1>1, <1>2
  <1> QED
    BY <1>2, <1>3 DEF Lowered, c, d, p, q

\* Of two backends that the policy treats alike the more loaded has no more.
Fair(w, raw, load) ==
    \A b, c \in Backends : raw[b] = raw[c] /\ load[b] >= load[c] => w[b] <= w[c]

\* What an iteration of cbf_project makes of the weights w.
Filtered(raw, load, w) ==
    IF \A b \in Backends : Excess(load, w, b) = 0 THEN w
    ELSE SimplexProject([b \in Backends |-> w[b] - (4 * (w[b] - raw[b])
                                                    + Excess(load, w, b)) \div 40])

LEMMA IterationFair ==
    ASSUME NEW raw \in IntVectors, NEW load \in IntVectors, NEW w \in IntVectors
    PROVE  /\ Filtered(raw, load, w) \in IntVectors
           /\ Fair(w, raw, load) => Fair(Filtered(raw, load, w), raw, load)
  <1> USE RolloutAssumption
  <1> DEFINE unit == Grain \div 100
             over(b) == unit * (load[b] - 80)
             v == [b \in Backends |-> w[b] - (4 * (w[b] - raw[b])
                                              + Excess(load, w, b)) \div 40]
  <1>1. unit \in Nat
    OBVIOUS
  <1> HIDE DEF unit
  <1>2. ASSUME NEW b \in Backends
        PROVE  /\ w[b] \in Int /\ raw[b] \in Int /\ load[b] \in Int /\ over(b) \in Int
               /\ v[b] = Lowered(w[b], raw[b], over(b)) /\ v[b] \in Int
    <2>1. w[b] \in Int /\ raw[b] \in Int /\ load[b] \in Int
      BY DEF IntVectors
    <2>2. over(b) \in Int
      <3>1. \A x, y \in Int : x * (y - 80) \in Int
        OBVIOUS
      <3> QED
        BY <1>1, <2>1, <3>1
    <2>3. v[b] = w[b] - (4 * (w[b] - raw[b]) + AtLeast(0, over(b) + w[b])) \div 40
      BY Zenon DEF Excess, unit
    <2> HIDE DEF over, v
    <2>4. v[b] = Lowered(w[b], raw[b], over(b))
      BY <2>3, Zenon DEF Lowered
    <2>5. Lowered(w[b], raw[b], over(b)) \in Int
      <3>1. \A x, y, z \in Int : Lowered(x, y, z) \in Int
        BY DEF Lowered, AtLeast
      <3> QED
        BY ONLY <2>1, <2>2, <3>1, Zenon
    <2> QED
      BY <2>1, <2>2, <2>4, <2>5 DEF over
  <1>3. v \in IntVectors
    BY <1>2 DEF IntVectors
  <1>4. PICK theta \in Int :
          SimplexProject(v) = [b \in Backends |-> AtLeast(0, v[b] - theta)]
    <2> HIDE DEF v
    <2> QED
      BY <1>3, SimplexProjectShape
  <1> DEFINE z == SimplexProject(v)
  <1> HIDE DEF v, over
  <1>5. \A b \in Backends : z[b] = AtLeast(0, v[b] - theta)
    BY <1>4
  <1>6. z \in IntVectors
    <2>1. \A b \in Backends : AtLeast(0, v[b] - theta) \in Int
      BY <1>2 DEF AtLeast
    <2> QED
      BY <1>4, <2>1 DEF IntVectors
  <1>7. ASSUME Fair(w, raw, load)
        PROVE  Fair(z, raw, load)
    <2> SUFFICES ASSUME NEW b \in Backends, NEW c \in Backends,
                        raw[b] = raw[c], load[b] >= load[c]
                 PROVE  z[b] <= z[c]
      BY DEF Fair
    <2>1. w[b] <= w[c]
      BY <1>7 DEF Fair
    <2>2. over(b) >= over(c)
      <3>1. \A x, y \in Int : x >= y => unit * (x - 80) >= unit * (y - 80)
        <4>1. ASSUME NEW x \in Int, NEW y \in Int, x >= y
              PROVE  unit * (x - 80) >= unit * (y - 80)
          <5>1. unit * (x - 80) = unit * (y - 80) + unit * (x - y)
            BY <1>1
          <5>2. unit * (x - y) \in Nat
            <6>1. x - y \in Nat
              BY <4>1
            <6>2. \A p, q \in Nat : p * q \in Nat
              OBVIOUS
            <6> QED
              BY <1>1, <6>1, <6>2
          <5>3. unit * (y - 80) \in Int
            BY <1>1
          <5> QED
            BY <5>1, <5>2, <5>3
        <4> QED
          BY <4>1
      <3> QED
        BY <1>2, <3>1 DEF over
    <2>3. Lowered(w[b], raw[b], over(b)) <= Lowered(w[c], raw[b], over(c))
      BY <1>2, <2>1, <2>2, LoweredInOrder
    <2>4. v[b] <= v[c]
      BY ONLY <1>2, <2>3, raw[b] = raw[c], b \in Backends, c \in Backends, Zenon
    <2>5. z[b] = AtLeast(0, v[b] - theta) /\ z[c] = AtLeast(0, v[c] - theta)
      BY <1>5
    <2>6. v[b] \in Int /\ v[c] \in Int
      BY <1>2
    <2> HIDE DEF z
    <2> QED
      BY <2>4, <2>5, <2>6 DEF AtLeast
  <1>8. Filtered(raw, load, w) = w \/ Filtered(raw, load, w) = z
    BY Zenon DEF Filtered, v
  <1> HIDE DEF z
  <1> QED
    BY <1>6, <1>7, <1>8

CbfSteps(raw, load) ==
    LET step[k \in 0 .. CbfIter] ==
          IF k = 0 THEN raw
          ELSE LET w == step[k - 1]
               IN  IF \A b \in Backends : Excess(load, w, b) = 0 THEN w
                   ELSE SimplexProject(
                          [b \in Backends |-> w[b] - (4 * (w[b] - raw[b])
                                                       + Excess(load, w, b)) \div 40])
    IN  step

\* However many iterations the filter takes, its result is fair to the load.
LEMMA CbfProjectFair ==
    ASSUME NEW raw \in IntVectors, NEW load \in IntVectors
    PROVE  CbfProject(raw, load) \in IntVectors /\ Fair(CbfProject(raw, load), raw, load)
  <1> DEFINE n == CbfIter
             step == [k \in 1 .. n |-> [w \in IntVectors |-> Filtered(raw, load, w)]]
             Solves(f) == f = [k \in 0 .. n |->
                                 IF k = 0 THEN raw ELSE Filtered(raw, load, f[k - 1])]
  <1>1. n \in Nat
    BY RolloutAssumption
  <1>2. \A w \in IntVectors : Filtered(raw, load, w) \in IntVectors
    BY IterationFair
  <1>3. step \in [1 .. n -> [IntVectors -> IntVectors]]
    BY <1>2
  <1>4. \A k \in 1 .. n : \A w \in IntVectors : step[k][w] = Filtered(raw, load, w)
    OBVIOUS
  <1> HIDE DEF step, n
  <1>5. PICK s : Recurs(s, n, IntVectors, raw, step)
    BY ONLY raw \in IntVectors, <1>1, <1>3, Recursion, Zenon
  <1>6. /\ s \in [0 .. n -> IntVectors] /\ s[0] = raw
        /\ \A k \in 1 .. n : s[k - 1] \in IntVectors /\ s[k] = Filtered(raw, load, s[k - 1])
    <2>1. /\ s \in [0 .. n -> IntVectors] /\ s[0] = raw
          /\ \A k \in 1 .. n : s[k] = step[k][s[k - 1]]
      BY ONLY <1>5, Zenon DEF Recurs
    <2>2. \A k \in 1 .. n : k - 1 \in 0 .. n
      BY <1>1
    <2>3. \A k \in 1 .. n : s[k - 1] \in IntVectors
      BY <2>1, <2>2
    <2> QED
      BY ONLY <1>4, <2>1, <2>3, Zenon
  <1>7. Solves(s)
    <2>1. DOMAIN s = 0 .. n /\ s = [k \in DOMAIN s |-> s[k]]
      BY <1>6
    <2>2. \A k \in 0 .. n : s[k] = IF k = 0 THEN raw ELSE Filtered(raw, load, s[k - 1])
      <3>1. \A k \in 0 .. n : k = 0 \/ k \in 1 .. n
        BY <1>1
      <3> QED
        BY ONLY <1>6, <3>1, Zenon
    <2> QED
      BY ONLY <2>1, <2>2, Zenon
  <1> DEFINE t == CbfSteps(raw, load)
  <1>8. Solves(t)
    <2>1. t = CHOOSE f : Solves(f)
      BY Zenon DEF CbfSteps, Filtered, n
    <2> HIDE DEF Solves, t
    <2> QED
      BY ONLY <1>7, <2>1, Zenon
  <1> HIDE DEF t
  <1>9. t[0] = raw /\ \A k \in 1 .. n : t[k] = Filtered(raw, load, t[k - 1])
    <2>1. \A k \in 0 .. n : t[k] = IF k = 0 THEN raw ELSE Filtered(raw, load, t[k - 1])
      BY ONLY <1>8, Zenon
    <2>2. 0 \in 0 .. n /\ \A k \in 1 .. n : k \in 0 .. n /\ k # 0
      BY <1>1
    <2> QED
      BY ONLY <2>1, <2>2, Zenon
  <1> DEFINE good == {k \in 0 .. n : t[k] \in IntVectors /\ Fair(t[k], raw, load)}
  <1>10. 0 \in good
    <2>1. Fair(raw, raw, load)
      BY DEF Fair, IntVectors
    <2>2. 0 \in 0 .. n
      BY <1>1
    <2> QED
      BY <1>9, <2>1, <2>2
  <1>11. \A k \in 1 .. n : k - 1 \in good => k \in good
    <2> SUFFICES ASSUME NEW k \in 1 .. n, k - 1 \in good
                 PROVE  k \in good
      OBVIOUS
    <2> DEFINE w == t[k - 1]
    <2>1. k \in 0 .. n
      BY <1>1
    <2>2. w \in IntVectors /\ Fair(w, raw, load) /\ t[k] = Filtered(raw, load, w)
      BY <1>9
    <2> HIDE DEF w
    <2>3. Filtered(raw, load, w) \in IntVectors /\ Fair(Filtered(raw, load, w), raw, load)
      BY ONLY raw \in IntVectors, load \in IntVectors, <2>2, IterationFair, Zenon
    <2>4. t[k] \in IntVectors /\ Fair(t[k], raw, load)
      BY ONLY <2>2, <2>3, Zenon
    <2> QED
      BY <2>1, <2>4
  <1>12. n \in good
    <2> HIDE DEF good
    <2>1. \A k \in 0 .. n : k \in good
      BY <1>1, <1>10, <1>11, UpTo
    <2> QED
      BY <1>1, <2>1
  <1>13. t[n] \in IntVectors /\ Fair(t[n], raw, load)
    BY <1>12
  <1>14. CbfProject(raw, load) = t[n]
    BY Zenon DEF CbfProject, CbfSteps, t, n
  <1> QED
    BY ONLY <1>13, <1>14, Zenon

\* What the filter did last, and that the environment it is used in is well
\* typed.
FilterInv ==
    /\ ppoLoads \in [Backends -> 0 .. 120]
    /\ steps \in Nat
    /\ Fair(filtered.safe, filtered.raw, filtered.load)

LEMMA FilterInit ==
    ASSUME Init
    PROVE  FilterInv
  <1>1. /\ ppoLoads \in [Backends -> 0 .. 30] /\ steps = 0 /\ filtered = NoAction
    BY SimAssumption DEF Init, PpoInit, EnvReset
  <1>2. ppoLoads \in [Backends -> 0 .. 120]
    BY <1>1
  <1>3. Fair(filtered.safe, filtered.raw, filtered.load)
    BY <1>1 DEF NoAction, Fair
  <1> QED
    BY <1>1, <1>2, <1>3 DEF FilterInv

LEMMA FilterCollect ==
    ASSUME FilterInv, Collect
    PROVE  FilterInv'
  <1>1. PICK a \in Actions, rps \in Rates :
          /\ filtered' = [raw |-> a, load |-> ppoLoads, safe |-> CbfProject(a, ppoLoads)]
          /\ \/ ppoLoads' \in StartLoads
             \/ ppoLoads' = EnvStep(ppoLoads, CbfProject(a, ppoLoads), rps)
    BY Zenon DEF Collect, SelectAction, EnvReset
  <1>2. a \in IntVectors /\ ppoLoads \in IntVectors /\ rps \in Nat
    <2>1. a \in [Backends -> 0 .. Grain] /\ Grain \in Nat
      BY RolloutAssumption
    <2>2. ppoLoads \in [Backends -> 0 .. 120] /\ rps \in Nat
      BY SimAssumption DEF FilterInv
    <2> QED
      BY <2>1, <2>2 DEF IntVectors
  <1> DEFINE safe == CbfProject(a, ppoLoads)
  <1>3. safe \in IntVectors /\ Fair(safe, a, ppoLoads)
    BY <1>2, CbfProjectFair
  <1> HIDE DEF safe
  <1>4. filtered'.safe = safe /\ filtered'.raw = a /\ filtered'.load = ppoLoads
    BY <1>1 DEF safe
  <1>5. ppoLoads' \in [Backends -> 0 .. 120]
    <2>1. CASE ppoLoads' \in StartLoads
      <3>1. ppoLoads' \in [Backends -> 0 .. 30]
        BY <2>1, SimAssumption
      <3> QED
        BY <3>1
    <2>2. CASE ppoLoads' = EnvStep(ppoLoads, safe, rps)
      <3> DEFINE arrivals == [b \in Backends |-> (safe[b] * rps) \div Grain]
      <3>1. ASSUME NEW b \in Backends
            PROVE  (safe[b] * rps) \div Grain \in Int
        <4>1. safe[b] \in Int /\ rps \in Int
          BY <1>2, <1>3 DEF IntVectors
        <4>2. \A x, y \in Int : x * y \in Int
          OBVIOUS
        <4>3. \A x \in Int : x \div Grain \in Int
          BY RolloutAssumption
        <4> QED
          BY <4>1, <4>2, <4>3
      <3>2. arrivals \in [Backends -> Int]
        BY <3>1
      <3> HIDE DEF arrivals
      <3>3. Queues(ppoLoads, arrivals) \in [Backends -> 0 .. 120]
        BY <1>2, <3>2, QueuesType DEF IntVectors
      <3> QED
        BY <2>2, <3>3, Zenon DEF EnvStep, arrivals
    <2> QED
      BY <1>1, <2>1, <2>2 DEF safe
  <1>6. steps' \in Nat
    BY DEF Collect, FilterInv
  <1> QED
    BY ONLY <1>3, <1>4, <1>5, <1>6, Zenon DEF FilterInv

LEMMA FilterStep ==
    ASSUME FilterInv, [Next]_vars
    PROVE  FilterInv'
  <1>1. CASE Update
    <2>1. UNCHANGED <<ppoLoads, steps>> /\ filtered' = NoAction
      BY <1>1 DEF Update
    <2>2. Fair(filtered'.safe, filtered'.raw, filtered'.load)
      BY <2>1 DEF NoAction, Fair
    <2> QED
      BY <2>1, <2>2 DEF FilterInv
  <1>2. CASE UNCHANGED ppoVars
    BY <1>2 DEF ppoVars, FilterInv
  <1>3. CASE Simulate \/ EvaluateKan \/ TrainDqn \/ TrainA3C \/ UNCHANGED vars
    BY <1>2, <1>3, Zenon DEF Simulate, EvaluateKan, TrainDqn, TrainA3C, vars
  <1>4. CASE ExportOnnx \/ WriteAuditLog \/ Checkpoint \/ SaveRate
    BY <1>2, <1>4, Zenon DEF ExportOnnx, WriteAuditLog, Checkpoint, SaveRate
  <1> QED
    BY <1>1, <1>3, <1>4, FilterCollect, Zenon DEF Next, TrainPpo

\* However many iterations the filter takes, and for whatever weights and
\* loads: of two backends that the policy treats alike, the more loaded one
\* does not get more (cbf_project, simplex_project).
THEOREM FairnessTheorem == Spec => []FairToLoad
  <1>1. FilterInv => FairToLoad
    BY DEF FilterInv, Fair, FairToLoad
  <1> QED
    BY <1>1, FilterInit, FilterStep, PTL DEF Spec

\* What the learners learn from is what happened: PPO's buffer is of the
\* current policy, DQN's is contiguous history, A3C's returns are right, and
\* loads, limits and buffers keep to their bounds (the loops of the three
\* training programs and of the environments they run in).
THEOREM TrainingTheorem == Spec => []TrainingInv
  <1>1. Init => PpoInv /\ SimTypeOK /\ FilterInv
    BY PpoInitKept, SimInitType, FilterInit DEF Init
  <1>2. PpoInv /\ SimTypeOK /\ FilterInv /\ [Next]_vars => (PpoInv /\ SimTypeOK /\ FilterInv)'
    BY PpoStep, SimStepType, FilterStep
  <1>3. PpoInv /\ FilterInv => PpoTypeOK /\ OnPolicy
    <2> SUFFICES ASSUME PpoInv, FilterInv
                 PROVE  PpoTypeOK /\ OnPolicy
      OBVIOUS
    <2>1. ppoCount \in Nat
      <3>1. Len(buffer) \in Nat /\ ppoCount = Len(buffer) % PpoEpisode
        BY DEF PpoInv, InStep
      <3> QED
        BY <3>1, RolloutAssumption, RemainderCounts
    <2>2. Len(buffer) <= RolloutSteps /\ policy \in Nat /\ OnPolicy
      BY DEF PpoInv, InStep, OnPolicy
    <2> QED
      BY ONLY <2>1, <2>2, FilterInv, Zenon DEF FilterInv, PpoTypeOK
  <1>4. SimTypeOK /\ PpoTypeOK /\ OnPolicy /\ ReplayChained /\ RateTypeOK /\ ReturnsRight
          => TrainingInv
    BY DEF TrainingInv, TrainingTypeOK
  <1> QED
    BY <1>1, <1>2, <1>3, <1>4, DqnTheorem, ReturnsTheorem, PTL DEF Spec
=============================================================================
