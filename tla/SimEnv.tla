------------------------------- MODULE SimEnv -------------------------------
(***************************************************************************)
(* The simulated load balancer of ml/simulation/lb_env.py: routing weights *)
(* in, loads and a reward out. The reward has soft terms and hard floors.  *)
(*                                                                         *)
(* Numbers are integers: a backend's capacity is 100, so a load is per     *)
(* cent of it; rewards are thousandths. The smoothed traffic counters are  *)
(* kept in units of 1 / Scale, in which they are exact within an episode.  *)
(***************************************************************************)
EXTENDS Vectors, Discounting, FiniteSets, FiniteSetsExt

CONSTANTS
    Rates,       \* requests per step that the traffic pattern goes through
    EpisodeLen,  \* episode_len
    Deceptive,   \* deceptive_servers
    Noises,      \* the random part of the 99th percentile
    StartLoads,  \* loads that reset can draw
    Weights      \* what a policy asks for, before it is normalised

Peak(f) == Max({f[b] : b \in DOMAIN f})

ASSUME SimAssumption ==
    /\ EpisodeLen \in Nat \ {0}
    /\ Rates \subseteq Nat
    /\ Noises \subseteq Nat /\ \A noise \in Noises : noise <= 5000
    /\ Deceptive \subseteq Backends
    /\ StartLoads \subseteq [Backends -> 0 .. 30]
    /\ Weights \subseteq [Backends -> Nat]
    /\ \A rps \in Rates, w \in Weights :
          rps % N = 0 /\ (Total(w) > 0 => rps % Total(w) = 0)

VARIABLES
    loads,       \* LBSimEnv.loads
    count,       \* step_count
    admitted,    \* _admitted_rps
    rejected     \* _rejected_rps

simVars == <<loads, count, admitted, rejected>>

Scale == Power(10, EpisodeLen)

\* SimConfig, as far as it is not a CONSTANT: what a backend serves in a step,
\* the floors (load, mean error in units of 0.5 / 100, latency) and the
\* rejection rate that counts as reward hacking.
ServiceRate == 10
HardFloor == [cpu |-> 95, error |-> 2, p99 |-> 500]
RejectionRateWarn == 300

SimInit ==
    /\ loads \in StartLoads
    /\ count = 0
    /\ admitted = 0
    /\ rejected = 0

\* Normalised weights times the rate; weights without mass count as equal.
Arrivals(w, rps) ==
    [b \in Backends |-> IF Total(w) = 0 THEN rps \div N
                        ELSE w[b] * (rps \div Total(w))]

\* One step of the queues: at most 1.2 times capacity.
Queues(load, arrivals) ==
    [b \in Backends |-> AtMost(120, AtLeast(0, load[b] + arrivals[b] - ServiceRate))]

\* The latency of the slowest backend: ten times the usual on a deceptive one
\* beyond 60 per cent.
Latency(load) ==
    Peak([b \in Backends |->
            IF b \in Deceptive /\ load[b] > 60 THEN 10 * load[b] ELSE load[b]])

Variance(load) ==
    (N * Total([b \in Backends |-> load[b] * load[b]]) - Total(load) * Total(load))
        \div (N * N)

\* What arrives on top of the capacity that is left.
Rejected(load, arrivals) ==
    Total([b \in Backends |-> AtLeast(0, arrivals[b] - AtLeast(0, 100 - load[b]))])

Smoothed(old, amount) == (9 * old + Scale * amount) \div 10

\* N times the error rate, which grows from 80 per cent load on.
ErrorSum(load) == Total([b \in Backends |-> AtLeast(0, load[b] - 80)])

\* Mutant: the floor for the load is where violations begin.
FloorsLoose(load, p99) ==
    (IF Peak(load) > 100 THEN 1000000 ELSE 0)
    + (IF ErrorSum(load) > HardFloor.error * N THEN 500000 ELSE 0)
    + (IF p99 > HardFloor.p99 THEN 200000 ELSE 0)

\* hard_floor_cpu, hard_floor_error and hard_floor_p99_ms.
Floors(load, p99) ==
    (IF Peak(load) > HardFloor.cpu THEN 1000000 ELSE 0)
    + (IF ErrorSum(load) > HardFloor.error * N THEN 500000 ELSE 0)
    + (IF p99 > HardFloor.p99 THEN 200000 ELSE 0)

\* The penalty for what is above that rate, in thousandths.
HackingPenalty(adm, rej) ==
    LET rate == (1000 * rej) \div AtLeast(Scale, adm + rej)
    IN  300 * AtLeast(0, rate - RejectionRateWarn)

\* step: what it leaves in the environment and what it returns.
Outcome(w, rps, noise) ==
    LET arrivals == Arrivals(w, rps)
        load == Queues(loads, arrivals)
        p99 == Latency(load) + noise
        adm == Smoothed(admitted, Total(arrivals))
        rej == Smoothed(rejected, Rejected(load, arrivals))
    IN  [loads |-> load, admitted |-> adm, rejected |-> rej,
         reward |-> (rps \div 10) - 10 * p99 - Variance(load)
                    - (IF Peak(load) > 100 THEN 1000 ELSE 0)
                    - Floors(load, p99) - HackingPenalty(adm, rej)]

SimStep ==
    /\ count < EpisodeLen
    /\ \E w \in Weights, rps \in Rates :
          LET out == Outcome(w, rps, 0)
          IN  /\ loads' = out.loads
              /\ admitted' = out.admitted
              /\ rejected' = out.rejected
    /\ count' = count + 1

\* reset, by a caller who saw the episode truncated.
SimReset ==
    /\ count >= EpisodeLen
    /\ loads' \in StartLoads
    /\ count' = 0 /\ admitted' = 0 /\ rejected' = 0

-----------------------------------------------------------------------------
SimTypeOK ==
    /\ loads \in [Backends -> 0 .. 120]
    /\ count \in 0 .. EpisodeLen
    /\ admitted \in Nat /\ rejected \in Nat

\* "Hard floors (cliff penalties): these are ABSOLUTE constraints that the
\* agent must not learn to trade off against throughput" (lb_env.py:240): from
\* any state that a policy can reach, no step that drives a backend over the
\* floor is rewarded like one that does not, whatever else the latter is
\* punished for.
FloorNotTraded ==
    \A rps \in Rates :
        LET outcomes == {Outcome(c[1], rps, c[2]) : c \in Weights \X Noises}
        IN  \A over, under \in outcomes :
              Peak(over.loads) > 95 /\ Peak(under.loads) <= 95
                => over.reward < under.reward
=============================================================================
