------------------------------ MODULE Rollout ------------------------------
(***************************************************************************)
(* PPO training (ml/ppo/train_ppo_kan.py): the loop that collects          *)
(* transitions from its own simulated environment, passes every action     *)
(* through the training-time safety filter (cbf_project), and updates the  *)
(* policy from the advantages of a full buffer.                            *)
(*                                                                         *)
(* Networks are left out: an action is any of Actions, the critic's value  *)
(* any of Values. A reward contains noise, so it is any of Rewards. The    *)
(* discount factors are integers: advantages are polynomials in them. A    *)
(* weight of 1.0 is Grain.                                                 *)
(***************************************************************************)
EXTENDS SimEnv, Sequences

CONSTANTS
    RolloutSteps,   \* PPOConfig.rollout_steps
    PpoEpisode,     \* steps after which the environment says done: 2048
    PpoTotal,       \* PPOConfig.total_steps
    Gamma, Lambda,  \* PPOConfig.gamma, PPOConfig.lam
    Rewards, Values, Actions,
    Grain,          \* granularity of weights
    CbfIter         \* max_iter of cbf_project

ASSUME RolloutAssumption ==
    /\ PpoEpisode \in Nat \ {0} /\ RolloutSteps \in Nat \ {0}
    /\ RolloutSteps % PpoEpisode = 0
    /\ PpoTotal \in Nat /\ CbfIter \in Nat
    /\ Gamma \in Int /\ Lambda \in Int
    /\ Rewards \subseteq Int /\ Values \subseteq Int
    /\ Grain \in Nat \ {0}
    /\ Actions \subseteq [Backends -> 0 .. Grain]

VARIABLES
    ppoLoads,       \* LBSimEnv.loads
    ppoCount,       \* LBSimEnv.step_count
    buffer,         \* RolloutBuffer, one record per entry of its lists
    steps,          \* total_steps
    policy,         \* how often the policy was updated
    filtered,       \* the last action, the loads it was meant for, the result
    learned         \* what the last update worked with

ppoVars == <<ppoLoads, ppoCount, buffer, steps, policy, filtered, learned>>

NoAction == [raw |-> [b \in Backends |-> 0], load |-> [b \in Backends |-> 0],
             safe |-> [b \in Backends |-> 0]]
Unlearned == [from |-> <<>>, advantages |-> <<>>]

\* RolloutBuffer.clear.
Clear == <<>>

\* LBSimEnv.reset: random loads below 30 per cent.
EnvReset == StartLoads

\* select_action: a sample from a Dirichlet distribution is any action. (The
\* smoothing only moves the parameters of the distribution.)
SelectAction == Actions

PpoInit ==
    /\ ppoLoads \in EnvReset
    /\ ppoCount = 0
    /\ buffer = Clear
    /\ steps = 0
    /\ policy = 0
    /\ filtered = NoAction
    /\ learned = Unlearned

-----------------------------------------------------------------------------
(***************************************************************************)
(* The safety filter.                                                      *)
(***************************************************************************)

\* simplex_project: the threshold is taken where the components that stay
\* positive end, which is found by counting them.
SimplexProject(v) ==
    LET u == Sorted(v)
        sum == Sums(u)
        rho == Cardinality({k \in 1 .. N : k * u[k - 1] > sum[k] - Grain})
        theta == (sum[rho] - Grain) \div rho
    IN  [b \in Backends |-> AtLeast(0, v[b] - theta)]

\* How far a backend would be over the cap of 0.80: -h, where that is positive.
Excess(load, w, b) ==
    AtLeast(0, (Grain \div 100) * (load[b] - 80) + w[b])

\* Mutant: the correction has the other sign.
CbfProjectUp(raw, load) ==
    LET step[k \in 0 .. CbfIter] ==
          IF k = 0 THEN raw
          ELSE LET w == step[k - 1]
               IN  IF \A b \in Backends : Excess(load, w, b) = 0 THEN w
                   ELSE SimplexProject(
                          [b \in Backends |-> w[b] - (4 * (w[b] - raw[b])
                                                       - Excess(load, w, b)) \div 40])
    IN  step[CbfIter]

\* cbf_project: until nothing is over the cap, a step back towards the action
\* and away from the excess (lr 0.05, lam 0.5), and back to the simplex.
CbfProject(raw, load) ==
    LET step[k \in 0 .. CbfIter] ==
          IF k = 0 THEN raw
          ELSE LET w == step[k - 1]
               IN  IF \A b \in Backends : Excess(load, w, b) = 0 THEN w
                   ELSE SimplexProject(
                          [b \in Backends |-> w[b] - (4 * (w[b] - raw[b])
                                                       + Excess(load, w, b)) \div 40])
    IN  step[CbfIter]

-----------------------------------------------------------------------------
(***************************************************************************)
(* Advantages.                                                             *)
(***************************************************************************)

\* The temporal difference of entry t; the entry after the last has value 0.
Delta(b, t) ==
    b[t].reward - b[t].value
    + (IF b[t].done \/ t = Len(b) THEN 0 ELSE Gamma * b[t + 1].value)

\* Mutant: an episode's advantages run on into the next.
ComputeGaeThrough(b) ==
    LET gae[t \in 1 .. Len(b) + 1] ==
          IF t > Len(b) THEN 0 ELSE Delta(b, t) + Gamma * Lambda * gae[t + 1]
    IN  [t \in 1 .. Len(b) |-> gae[t]]

\* compute_gae with last_value = 0.0.
ComputeGae(b) ==
    LET gae[t \in 1 .. Len(b) + 1] ==
          IF t > Len(b) THEN 0
          ELSE Delta(b, t) + (IF b[t].done THEN 0 ELSE Gamma * Lambda * gae[t + 1])
    IN  [t \in 1 .. Len(b) |-> gae[t]]

-----------------------------------------------------------------------------
(***************************************************************************)
(* The loop.                                                               *)
(***************************************************************************)

Done(n) == n >= PpoEpisode

\* LBSimEnv.step, but for the reward; loads are rounded down to per cent.
EnvStep(load, w, rps) ==
    Queues(load, [b \in Backends |-> (w[b] * rps) \div Grain])

\* One turn of the inner loop.
Collect ==
    /\ Len(buffer) < RolloutSteps
    /\ buffer # <<>> \/ steps < PpoTotal
    /\ \E a \in SelectAction, r \in Rewards, v \in Values, rps \in Rates :
          LET safe == CbfProject(a, ppoLoads)
          IN  /\ filtered' = [raw |-> a, load |-> ppoLoads, safe |-> safe]
              /\ buffer' = Append(buffer, [reward |-> r, value |-> v,
                                           done |-> Done(ppoCount + 1),
                                           policy |-> policy])
              /\ IF Done(ppoCount + 1)
                 THEN ppoLoads' \in EnvReset /\ ppoCount' = 0
                 ELSE /\ ppoLoads' = EnvStep(ppoLoads, safe, rps)
                      /\ ppoCount' = ppoCount + 1
    /\ steps' = steps + 1
    /\ learned' = Unlearned
    /\ UNCHANGED policy

\* PPOTrainer.update: all its epochs.
Update ==
    /\ Len(buffer) = RolloutSteps
    /\ learned' = [from |-> buffer, advantages |-> ComputeGae(buffer)]
    /\ policy' = policy + 1
    /\ buffer' = Clear
    /\ filtered' = NoAction
    /\ UNCHANGED <<ppoLoads, ppoCount, steps>>

-----------------------------------------------------------------------------
PpoTypeOK ==
    /\ ppoLoads \in [Backends -> 0 .. 120]
    /\ ppoCount \in Nat
    /\ Len(buffer) <= RolloutSteps
    /\ steps \in Nat /\ policy \in Nat

\* The buffer holds only what the current policy did, also across the end of a
\* rollout: no update learns from transitions of an earlier policy.
OnPolicy == \A t \in DOMAIN buffer : buffer[t].policy = policy

\* The backward recursion of compute_gae against its definition: the errors
\* from t to the end of the episode, each discounted by its distance. That end
\* is in the buffer, although the loop and the environment count their steps
\* apart: so nothing is lost by passing last_value = 0.0.
DiscountedErrors(b, t, last) ==
    Discounted([k \in DOMAIN b |-> Delta(b, k)], Gamma * Lambda, t, last - t + 1)

AdvantagesRight ==
    LET b == learned.from
    IN  \A t \in DOMAIN b :
          \E last \in t .. Len(b) :
              /\ b[last].done /\ \A k \in t .. last - 1 : ~b[k].done
              /\ learned.advantages[t] = DiscountedErrors(b, t, last)

\* However many iterations the filter takes, it is fair to the load: of two
\* backends the policy treats alike, the more loaded one does not get more.
FairToLoad ==
    \A b, c \in Backends :
        /\ filtered.raw[b] = filtered.raw[c]
        /\ filtered.load[b] >= filtered.load[c]
        => filtered.safe[b] <= filtered.safe[c]
=============================================================================
