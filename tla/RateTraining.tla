---------------------------- MODULE RateTraining ----------------------------
(***************************************************************************)
(* Training of the rate limiters (ml/dqn_a3c/train_dqn_a3c.py): a DQN      *)
(* agent per service in the main thread, and A3C worker threads that share *)
(* one network. Agents share nothing, so one is modelled.                  *)
(*                                                                         *)
(* Networks are left out. A gradient is the worker and the round it comes  *)
(* from; the network's .grad of a parameter is the set of gradients added  *)
(* to it so far, which is all of them, because nothing ever clears it; it  *)
(* is empty while the attribute is None. The environment, RateLimitEnv, is *)
(* its step number and the limit.                                          *)
(***************************************************************************)
EXTENDS Discounting, Sequences

CONSTANTS
    Workers,        \* A3C threads
    Params,         \* number of parameters of the shared network
    NStep,          \* steps of one A3C rollout: 20
    WorkerSteps,    \* DQNConfig.total_steps, of a worker
    RateEpisode,    \* steps after which RateLimitEnv says done: 1000
    RateRewards, RateValues,
    Discount,       \* DQNConfig.gamma, an integer: returns are polynomials in it
    MinRps, MaxRps, StartRps,
    ReplayCapacity, BatchSize, SyncEvery,
    DqnSteps        \* DQNConfig.total_steps, of the main loop

ASSUME RateAssumption ==
    /\ Params \in Nat \ {0} /\ NStep \in Nat \ {0} /\ RateEpisode \in Nat \ {0}
    /\ {MinRps, StartRps, MaxRps} \subseteq Nat
    /\ 0 < MinRps /\ MinRps <= StartRps /\ StartRps <= MaxRps
    /\ ReplayCapacity \in Nat \ {0} /\ SyncEvery \in Nat \ {0}
    /\ Discount \in Int /\ RateRewards \subseteq Int /\ RateValues \subseteq Int

VARIABLES
    worker,         \* A3CWorker: where it is and what it holds
    lock,           \* A3CGlobalActor._lock
    grad,           \* of each parameter of the shared network
    dqn             \* DQNServiceAgent with its environment

rateVars == <<worker, lock, grad, dqn>>

Nobody == "nobody"
ASSUME NobodyAssumption == Nobody \notin Workers

NoGrad == {}
NoPath == [rewards |-> <<>>, tail |-> 0, returns |-> <<>>]

Observe(n, limit) == [n |-> n, limit |-> limit]

\* RateLimitEnv.reset.
Reset == Observe(0, StartRps)

RateInit ==
    /\ worker = [w \in Workers |->
                   [pc |-> "run", round |-> 1, n |-> 0, total |-> 0, param |-> 1,
                    none |-> FALSE, path |-> NoPath]]
    /\ lock = Nobody
    /\ grad = [p \in 1 .. Params |-> NoGrad]
    /\ dqn = [obs |-> Reset, replay |-> <<>>, updates |-> 0,
              target |-> 0, steps |-> 0]

-----------------------------------------------------------------------------
(***************************************************************************)
(* A3C.                                                                    *)
(***************************************************************************)

\* The n-step returns of a rollout that ends in a state of value tail.
Returns(rewards, tail) ==
    LET R[t \in 1 .. Len(rewards) + 1] ==
          IF t > Len(rewards) THEN tail ELSE rewards[t] + Discount * R[t + 1]
    IN  [t \in 1 .. Len(rewards) |-> R[t]]

\* A rollout in the worker's own environment, up to NStep steps or the end of
\* the episode, and the returns. Not bootstrapped at the end of an episode;
\* elsewhere with the value of the last state the worker acted in.
Roll(w) ==
    LET me == worker[w]
        len == IF RateEpisode - me.n < NStep THEN RateEpisode - me.n ELSE NStep
        done == me.n + len = RateEpisode
    IN  /\ me.pc = "run"
        /\ me.total < WorkerSteps
        /\ \E rewards \in [1 .. len -> RateRewards],
              tail \in IF done THEN {0} ELSE RateValues :
             worker' = [worker EXCEPT
               ![w].pc = "lock",
               ![w].n = IF done THEN 0 ELSE me.n + len,
               ![w].total = me.total + len,
               ![w].path = [rewards |-> rewards, tail |-> tail,
                            returns |-> Returns(rewards, tail)]]
        /\ UNCHANGED <<lock, grad, dqn>>

\* Mutant: no lock.
AcquireAlways(w) ==
    /\ worker[w].pc = "lock"
    /\ worker' = [worker EXCEPT ![w].pc = "look", ![w].path = NoPath]
    /\ UNCHANGED <<lock, grad, dqn>>

\* apply_gradients: under the lock, ...
Acquire(w) ==
    /\ worker[w].pc = "lock"
    /\ lock = Nobody
    /\ lock' = w
    /\ worker' = [worker EXCEPT ![w].pc = "look", ![w].path = NoPath]
    /\ UNCHANGED <<grad, dqn>>

\* ... for each parameter: is there a gradient yet?
Look(w) ==
    /\ worker[w].pc = "look"
    /\ worker' = [worker EXCEPT ![w].pc = "add",
                                ![w].none = (grad[worker[w].param] = NoGrad)]
    /\ UNCHANGED <<lock, grad, dqn>>

\* Set it, or add to it.
Add(w) ==
    LET me == worker[w]
        mine == {<<w, me.round>>}
        last == me.param = Params
    IN  /\ me.pc = "add"
        /\ grad' = [grad EXCEPT ![me.param] = IF me.none THEN mine ELSE @ \cup mine]
        /\ worker' = [worker EXCEPT ![w].pc = IF last THEN "step" ELSE "look",
                                    ![w].param = IF last THEN 1 ELSE @ + 1]
        /\ lock' = IF last THEN Nobody ELSE lock
        /\ UNCHANGED dqn

\* opt.step(), which reads the gradients without the lock; the weights are not
\* modelled. Then the next round, from a new copy of the network.
Step(w) ==
    /\ worker[w].pc = "step"
    /\ worker' = [worker EXCEPT ![w].pc = "run", ![w].round = @ + 1]
    /\ UNCHANGED <<lock, grad, dqn>>

Work(w) == Roll(w) \/ Acquire(w) \/ Look(w) \/ Add(w) \/ Step(w)

-----------------------------------------------------------------------------
(***************************************************************************)
(* DQN.                                                                    *)
(***************************************************************************)

\* What an action does to the limit: a tenth down, hold, a tenth up.
Adjust(limit, action) ==
    CASE action = 0 -> IF (limit * 9) \div 10 < MinRps THEN MinRps
                       ELSE (limit * 9) \div 10
      [] action = 1 -> limit
      [] action = 2 -> IF (limit * 11) \div 10 > MaxRps THEN MaxRps
                       ELSE (limit * 11) \div 10

\* RateLimitEnv.step; the reward is left out, an agent may do anything.
EnvStepped(obs, action) == Observe(obs.n + 1, Adjust(obs.limit, action))

\* ReplayBuffer.push: a deque that forgets its oldest entry when it is full.
Push(replay, entry) ==
    LET all == Append(replay, entry)
    IN  IF Len(all) > ReplayCapacity THEN Tail(all) ELSE all

\* Mutant: the environment is reset before the transition is stored.
LearnReset ==
    \E action \in 0 .. 2 :
        LET after == EnvStepped(dqn.obs, action)
            done == after.n >= RateEpisode
            next == IF done THEN Reset ELSE after
        IN  /\ dqn.steps < DqnSteps
            /\ dqn' = [dqn EXCEPT !.steps = @ + 1, !.obs = next,
                         !.replay = Push(@, [from |-> dqn.obs, to |-> next,
                                             done |-> done])]
            /\ UNCHANGED <<worker, lock, grad>>

\* One turn of the main loop for one agent: act, store, reset at the end of an
\* episode, and update once the buffer holds a batch. The target network is
\* synchronised every SyncEvery updates.
Learn ==
    \E action \in 0 .. 2 :
        LET after == EnvStepped(dqn.obs, action)
            done == after.n >= RateEpisode
            replay == Push(dqn.replay, [from |-> dqn.obs, to |-> after, done |-> done])
            updates == dqn.updates + (IF Len(replay) < BatchSize THEN 0 ELSE 1)
        IN  /\ dqn.steps < DqnSteps
            /\ dqn' = [obs |-> IF done THEN Reset ELSE after,
                       replay |-> replay,
                       updates |-> updates,
                       target |-> IF updates > dqn.updates /\ updates % SyncEvery = 0
                                  THEN updates ELSE dqn.target,
                       steps |-> dqn.steps + 1]
            /\ UNCHANGED <<worker, lock, grad>>

-----------------------------------------------------------------------------
RateTypeOK ==
    /\ \A w \in Workers : /\ worker[w].pc \in {"run", "lock", "look", "add", "step"}
                          /\ worker[w].param \in 1 .. Params
                          /\ worker[w].n \in 0 .. RateEpisode - 1
    /\ lock \in Workers \cup {Nobody}
    /\ dqn.obs.limit \in MinRps .. MaxRps
    /\ Len(dqn.replay) <= ReplayCapacity
    /\ dqn.updates - dqn.target \in 0 .. SyncEvery - 1

\* Whatever the order in which workers reach the network, and although the
\* first to come sets what the others add to, every gradient that a worker
\* has handed over is in the gradient of every parameter.
GradientsKept ==
    \A w \in Workers, p \in 1 .. Params :
        \A k \in 1 .. worker[w].round :
            k < worker[w].round \/ worker[w].pc = "step" => <<w, k>> \in grad[p]

\* The returns are the discounted rewards from t on, and beyond them the value
\* the rollout ended with.
ReturnsRight ==
    \A w \in Workers :
        LET path == worker[w].path
            n == Len(path.rewards)
        IN  \A t \in 1 .. n :
              path.returns[t] =
                Discounted(path.rewards, Discount, t, n - t + 1)
                + Power(Discount, n - t + 1) * path.tail

\* The replay buffer is a contiguous piece of the agent's history: a transition
\* starts where the one before it ended or, after the end of an episode, in a
\* fresh episode; and the last of an episode shows the state it ended in.
ReplayChained ==
    \A k \in DOMAIN dqn.replay :
        /\ dqn.replay[k].done <=> dqn.replay[k].to.n = RateEpisode
        /\ k > 1 => dqn.replay[k].from = IF dqn.replay[k - 1].done
                                         THEN Reset
                                         ELSE dqn.replay[k - 1].to
=============================================================================
