------------------------------ MODULE Control ------------------------------
(***************************************************************************)
(* The control loop of the Python proxy: MetricsStore's aggregator thread  *)
(* rolls three histories and fills their newest columns, one assignment    *)
(* after another and without a lock, and every half second the event loop  *)
(* turns what it finds there into routing weights (KANInference), projects *)
(* them away from overloaded backends (SafetyMonitor, CBFProjector), turns *)
(* them into vnode counts (HAring.set_vnodes) and corrects these for the   *)
(* trend (ProactiveController).                                            *)
(*                                                                         *)
(* Real numbers are integers here. Loads and error rates are per cent,     *)
(* latencies milliseconds. A weight vector is a function w together with   *)
(* its sum `one', which stands for 1.0: the share of backend b is          *)
(* w[b] / one. `one' is a multiple of Grain, chosen so that the projection *)
(* divides without a remainder: Parts[k] divides every weight after k of   *)
(* its iterations.                                                         *)
(***************************************************************************)
EXTENDS Vectors, SequencesExt, FiniteSetsExt

CONSTANTS
    Columns,     \* what an aggregator tick can measure on the backends
    Outputs,     \* what a trained network can return, before it is normalised
    HistoryLen,  \* HISTORY_LEN
    TrendLen,    \* the columns ProactiveController fits a line to
    MaxIter,     \* CBFProjector.max_iter
    RateLen,     \* history_len of SafetyMonitor: flags kept per backend
    LogLen,      \* events its violation log keeps
    Grain,       \* granularity of weights
    Parts        \* granularity of weights after each iteration of the projection

ASSUME LengthAssumption ==
    /\ HistoryLen \in Nat /\ TrendLen \in 1 .. HistoryLen
    /\ MaxIter \in Nat \ {0} /\ RateLen \in Nat \ {0} /\ LogLen \in Nat \ {0}
ASSUME GrainAssumption ==
    /\ Parts \in [0 .. MaxIter -> Nat \ {0}]
    /\ \A k \in 1 .. MaxIter, r \in 1 .. N : Parts[k - 1] % (r * Parts[k]) = 0
    /\ Grain \in Nat \ {0} /\ Grain % (20000 * Parts[0]) = 0
    /\ Grain % (150 * N) = 0

VARIABLES
    hist,        \* latency_hist, load_hist, error_hist: oldest column first
    tick,        \* the aggregator: its sample and the assignment it makes next
    health,      \* MetricsStore.health, written by the rest of the proxy
    model,       \* is a network loaded?
    ctl,         \* the next part of the control loop
    seen,        \* the loads, and latencies, the control loop has copied
    decision,    \* what KAN returned, for which loads, and what CBF made of it
    monitor,     \* SafetyMonitor: _vhist per backend, and the backends in _vlog
    vnodes       \* HAring._vnodes

vars == <<hist, tick, health, model, ctl, seen, decision, monitor, vnodes>>

Measurement == [load : Nat, lat : Nat, err : Nat]

ASSUME ColumnsAssumption == Columns \subseteq [Backends -> Measurement]
ASSUME OutputsAssumption == Outputs \subseteq [Backends -> Int]

\* The histories, in the order in which a tick assigns to them.
Metrics == {"lat", "load", "err"}
After == [lat |-> "load", load |-> "err"]

\* A tick rolls every history (row Rolling), then fills them row by row.
Rolling == N
Idle == [sample |-> <<>>, row |-> Rolling, of |-> "none"]

NoLoad == [b \in Backends |-> 0]
NotRead == [load |-> NoLoad, lat |-> NoLoad]
ControlSteps == {"read", "latencies", "kan", "proactive", "shrink"}
Even == [b \in Backends |-> Grain]

\* A column of the three histories, which three ticks may have written.
Column(load, lat, err) ==
    [b \in Backends |-> [load |-> load[b], lat |-> lat[b], err |-> err[b]]]

NoDecision == [raw |-> Even, load |-> NoLoad, one |-> Total(Even), weights |-> Even]

-----------------------------------------------------------------------------
(***************************************************************************)
(* KANInference.                                                           *)
(***************************************************************************)

\* One term of the symbolic policy, in hundredths:
\* max(0, 1 - 0.42 cpu - 0.31 lat/1000 - 10 err).
Preference(m) ==
    AtLeast(0, 100 - (42 * m.load) \div 100 - (31 * m.lat) \div 1000 - 10 * m.err)

\* _infer_symbolic: equal parts for the healthy backends if all are saturated,
\* for all backends if none is healthy.
InferSymbolic(column) ==
    LET raw == [b \in Backends |-> IF health[b] THEN Preference(column[b]) ELSE 0]
    IN  IF Total(raw) > 0 THEN raw
        ELSE IF \E b \in Backends : health[b]
        THEN [b \in Backends |-> IF health[b] THEN 1 ELSE 0]
        ELSE [b \in Backends |-> 1]

\* Mutant: a network that returns nothing usable is taken at its word.
InferOnnxEmpty(output) ==
    [b \in Backends |-> IF health[b] THEN AtLeast(0, output[b]) ELSE 0]

\* _infer_onnx on one output of the network: negative values and unhealthy
\* backends count as 0. With no healthy backend the vector is all zeros.
InferOnnx(output) ==
    LET raw == [b \in Backends |->
                  IF health[b] THEN AtLeast(0, output[b]) ELSE 0]
    IN  IF Total(raw) > 0 THEN raw
        ELSE [b \in Backends |-> IF health[b] THEN 1 ELSE 0]

\* infer: the network if there is one, the symbolic policy if not or if the
\* network raises.
Infer(column) ==
    {InferSymbolic(column)} \cup
        (IF model = "onnx" THEN {InferOnnx(o) : o \in Outputs} ELSE {})

-----------------------------------------------------------------------------
(***************************************************************************)
(* CBFProjector.                                                           *)
(***************************************************************************)

Cap == 80

Violators(load) == {b \in Backends : load[b] > Cap}

\* The weights _project_full starts from: a vector without mass is replaced by
\* equal parts.
Normalised(raw) ==
    LET total == Total(raw)
    IN  [b \in Backends |-> Grain * (IF total > 0 THEN raw[b] ELSE 1)]

\* Mutant: the push is added.
PushedUp(w, load) ==
    LET unit == Total(w) \div 20000
    IN  [b \in Backends |->
           IF load[b] > Cap THEN w[b] + unit * (load[b] - Cap) ELSE w[b]]

\* w - lr * lam * (load - cap) on the violators, with lr * lam = 0.005.
Pushed(w, load) ==
    LET unit == Total(w) \div 20000
    IN  [b \in Backends |->
           IF load[b] > Cap THEN w[b] - unit * (load[b] - Cap) ELSE w[b]]

\* Mutant: the threshold counts one component too few.
ProjectSimplexShort(v, one) ==
    LET u == Sorted(v)
        sum == Sums(u)
        positive == {k \in 1 .. N : k * u[k - 1] > sum[k] - one}
        rho == CHOOSE k \in positive : \A j \in positive : k <= j
        theta == (sum[rho] - one) \div rho
    IN  [b \in Backends |-> AtLeast(0, v[b] - theta)]

\* _project_simplex (Duchi et al.): sort, find the last component that stays
\* positive, subtract the threshold from all.
ProjectSimplex(v, one) ==
    LET u == Sorted(v)
        sum == Sums(u)
        positive == {k \in 1 .. N : k * u[k - 1] > sum[k] - one}
        rho == CHOOSE k \in positive : \A j \in positive : j <= k
        theta == (sum[rho] - one) \div rho
    IN  [b \in Backends |-> AtLeast(0, v[b] - theta)]

\* Mutant: negative components are cut off, the others keep their weight.
ProjectClipped(w, load) == [b \in Backends |-> AtLeast(0, Pushed(w, load)[b])]

\* The loop of _project_full after k iterations. The barrier does not depend
\* on the weights, so it runs to max_iter unless an iteration changes nothing.
Project(w, load) ==
    LET one == Total(w)
        step[k \in 0 .. MaxIter] ==
          IF k = 0 \/ Violators(load) = {} THEN w
          ELSE ProjectSimplex(Pushed(step[k - 1], load), one)
    IN  step[MaxIter]

-----------------------------------------------------------------------------
(***************************************************************************)
(* SafetyMonitor.                                                          *)
(***************************************************************************)

Unmonitored == [flags |-> [b \in Backends |-> <<>>], log |-> <<>>]

\* A deque with maxlen: the newest entries.
Newest(max, s) == SubSeq(s, AtLeast(1, Len(s) - max + 1), Len(s))

\* The events of one projection, backend by backend.
Events(fired) ==
    LET logged[k \in 0 .. N] ==
          IF k = 0 THEN <<>>
          ELSE IF k - 1 \in fired THEN Append(logged[k - 1], k - 1)
          ELSE logged[k - 1]
    IN  logged[N]

\* Mutant: only a violation is entered in a backend's flags.
RecordedFired(m, fired) ==
    [flags |-> [b \in Backends |->
                  IF b \in fired THEN Newest(RateLen, Append(m.flags[b], 1)) ELSE m.flags[b]],
     log |-> Newest(LogLen, m.log \o Events(fired))]

\* step: a flag for every backend, an event for every violator.
Recorded(m, fired) ==
    [flags |-> [b \in Backends |->
                  Newest(RateLen, Append(m.flags[b], IF b \in fired THEN 1 ELSE 0))],
     log |-> Newest(LogLen, m.log \o Events(fired))]

-----------------------------------------------------------------------------
(***************************************************************************)
(* The ring and the trend.                                                 *)
(***************************************************************************)

\* HAring.set_vnodes.
Clamp(count) == AtLeast(10, AtMost(300, count))

\* max(10, int(w * 150 * N)), then set_vnodes.
VnodeCount(w, one) == Clamp(AtLeast(10, w \div (one \div (150 * N))))

\* slope * 30 > 0.75, for the least-squares line through the mean loads of the
\* last TrendLen columns; d is twice the centred abscissa.
Rising ==
    LET first == HistoryLen - TrendLen
        d(k) == 2 * k - TrendLen - 1
        mass(k) == Total(hist.load[first + k])
        dot == MapThenSumSet(LAMBDA k : d(k) * mass(k), 1 .. TrendLen)
        norm == MapThenSumSet(LAMBDA k : d(k) * d(k), 1 .. TrendLen)
    IN  norm > 0 /\ 60 * dot > 75 * N * norm

Shrunk(count) == Clamp(AtLeast(50, (count * 97) \div 100))
Restored(count) == IF count < 148 THEN Clamp((count * 99 + 150) \div 100) ELSE count

-----------------------------------------------------------------------------
\* KANInference.load: the network, or the symbolic policy if the file is not
\* there or does not load.
Load == {"symbolic", "onnx"}

Init ==
    /\ hist = [m \in Metrics |-> [k \in 1 .. HistoryLen |-> NoLoad]]
    /\ tick = Idle
    /\ health = [b \in Backends |-> TRUE]
    /\ model \in Load
    /\ ctl = "read"
    /\ seen = NotRead
    /\ decision = NoDecision
    /\ monitor = Unmonitored
    /\ vnodes = [b \in Backends |-> 150]

Rolled(h) == Append(Tail(h), Head(h))

\* The aggregator computes its sample, under the lock of the windows, and
\* without it rolls the latencies, ...
Sample ==
    /\ tick = Idle
    /\ \E column \in Columns : tick' = [Idle EXCEPT !.sample = column, !.of = "load"]
    /\ hist' = [hist EXCEPT !.lat = Rolled(@)]
    /\ UNCHANGED <<health, model, ctl, seen, decision, monitor, vnodes>>

\* ... then the loads, then the error rates: the oldest column is the last one
\* until its entries are assigned to.
Roll ==
    /\ tick # Idle /\ tick.row = Rolling
    /\ hist' = [hist EXCEPT ![tick.of] = Rolled(@)]
    /\ tick' = IF tick.of = "load" THEN [tick EXCEPT !.of = "err"]
               ELSE [tick EXCEPT !.row = 0, !.of = "lat"]
    /\ UNCHANGED <<health, model, ctl, seen, decision, monitor, vnodes>>

\* It assigns one entry after another, a backend's three before the next one's.
Fill ==
    /\ tick.row \in Backends
    /\ hist' = [hist EXCEPT ![tick.of][HistoryLen][tick.row] =
                              tick.sample[tick.row][tick.of]]
    /\ tick' = IF tick.of # "err" THEN [tick EXCEPT !.of = After[tick.of]]
               ELSE IF tick.row + 1 \in Backends
               THEN [tick EXCEPT !.row = tick.row + 1, !.of = "lat"]
               ELSE Idle
    /\ UNCHANGED <<health, model, ctl, seen, decision, monitor, vnodes>>

\* The control loop copies the newest loads, then the latencies, then the error
\* rates; the aggregator thread may run in between.
Read ==
    /\ ctl = "read"
    /\ seen' = [NotRead EXCEPT !.load = hist.load[HistoryLen]]
    /\ ctl' = "latencies"
    /\ UNCHANGED <<hist, tick, health, model, decision, monitor, vnodes>>

ReadLatencies ==
    /\ ctl = "latencies"
    /\ seen' = [seen EXCEPT !.lat = hist.lat[HistoryLen]]
    /\ ctl' = "kan"
    /\ UNCHANGED <<hist, tick, health, model, decision, monitor, vnodes>>

\* The error rates and the health flags, then KAN, CBF and the ring.
Decide ==
    /\ ctl = "kan"
    /\ \E raw \in Infer(Column(seen.load, seen.lat, hist.err[HistoryLen])) :
         LET start == Normalised(raw)
             one == Total(start)
             weights == Project(start, seen.load)
         IN  /\ decision' = [raw |-> start, load |-> seen.load,
                             one |-> one, weights |-> weights]
             /\ vnodes' = [b \in Backends |-> VnodeCount(weights[b], one)]
    /\ monitor' = Recorded(monitor, Violators(seen.load))
    /\ seen' = NotRead
    /\ ctl' = "proactive"
    /\ UNCHANGED <<hist, tick, health, model>>

\* ProactiveController.step, on the history as it is by now: the trend does not
\* rise, ...
Restore ==
    /\ ctl = "proactive" /\ ~ Rising
    /\ vnodes' = [b \in Backends |-> Restored(vnodes[b])]
    /\ decision' = NoDecision
    /\ ctl' = "read"
    /\ UNCHANGED <<hist, tick, health, model, seen, monitor>>

\* ... or it rises, ...
Rise ==
    /\ ctl = "proactive" /\ Rising
    /\ decision' = NoDecision
    /\ ctl' = "shrink"
    /\ UNCHANGED <<hist, tick, health, model, seen, monitor, vnodes>>

\* ... and the newest loads, read again, tell whose share shrinks.
Shrink ==
    /\ ctl = "shrink"
    /\ vnodes' = [b \in Backends |->
                    IF hist.load[HistoryLen][b] > 70 /\ health[b]
                    THEN Shrunk(vnodes[b]) ELSE vnodes[b]]
    /\ ctl' = "read"
    /\ UNCHANGED <<hist, tick, health, model, seen, decision, monitor>>

\* reload_onnx, which keeps what there is if the new model does not load.
Reload ==
    /\ model' = "onnx"
    /\ UNCHANGED <<hist, tick, health, ctl, seen, decision, monitor, vnodes>>

\* The health loop or an operator, while the control loop sleeps.
HealthChange(b) ==
    /\ ctl = "read"
    /\ health' = [health EXCEPT ![b] = ~@]
    /\ UNCHANGED <<hist, tick, model, ctl, seen, decision, monitor, vnodes>>

Next ==
    \/ Sample \/ Roll \/ Fill
    \/ Read \/ ReadLatencies \/ Decide \/ Restore \/ Rise \/ Shrink
    \/ Reload
    \/ \E b \in Backends : HealthChange(b)

Spec == Init /\ [][Next]_vars

-----------------------------------------------------------------------------
ControlTypeOK ==
    /\ \A m \in Metrics : DOMAIN hist[m] = 1 .. HistoryLen
    /\ tick.sample \in Columns \cup {<<>>}
    /\ health \in [Backends -> BOOLEAN]
    /\ model \in {"symbolic", "onnx"}
    /\ ctl \in ControlSteps
    /\ vnodes \in [Backends -> 10 .. 300]

\* What the control loop decides is a distribution: no weight is negative and they sum to
\* one, also when no backend is healthy, when all are saturated or when the
\* network returned nothing usable.
WeightsAreShares ==
    /\ decision.one > 0
    /\ \A b \in Backends : decision.weights[b] >= 0
    /\ Total(decision.weights) = decision.one

\* What the ring gets: weights that are shares, and vnode counts between the
\* clamps of set_vnodes whoever wrote them last, so that a healthy backend is
\* never without a place in the ring.
ControlInv == ControlTypeOK /\ WeightsAreShares

\* KAN gives nothing to a backend that is down while another one is up, also
\* when all preferences are nothing or the network returned nothing usable: the
\* fallbacks of both paths know the health, the one of the projection does not.
DownGetNothing ==
    ctl = "proactive" /\ (\E b \in Backends : health[b])
        => \A b \in Backends : ~health[b] => decision.raw[b] = 0

\* The algorithm of _project_simplex against what it is for: the result is the
\* point of the simplex nearest to v. (It is, iff no component that is left
\* positive was lowered by less than another one.)
Nearest(v, one) ==
    LET p == ProjectSimplex(v, one)
    IN  /\ Total(p) = one
        /\ \A b, c \in Backends :
             p[b] >= 0 /\ (p[b] > 0 => v[b] - p[b] >= v[c] - p[c])

ProjectionIsNearest ==
    LET v == Pushed(decision.raw, decision.load)
        far == [b \in Backends |-> IF b = 0 THEN v[b] - decision.one ELSE v[b]]
    IN  ctl = "proactive" => Nearest(v, decision.one) /\ Nearest(far, decision.one)

\* The projection never moves weight towards the overloaded backends: together
\* they end with no more than KAN gave them, if there is another backend.
OverloadedLoseWeight ==
    LET over == Violators(decision.load)
        share(w) == Total([b \in Backends |-> IF b \in over THEN w[b] ELSE 0])
    IN  over # Backends => share(decision.weights) <= share(decision.raw)

\* The violation rates and the violation log are bounded apart (300 flags of
\* each backend, 1000 events of all) and still tell one story: the events that
\* the flags stand for are, in order, the newest of the log, as many as it
\* keeps.
RatesMatchLog ==
    LET ticks == Len(monitor.flags[0])
        fired(t) == {b \in Backends : monitor.flags[b][t] = 1}
        events == FlattenSeq([t \in 1 .. ticks |-> Events(fired(t))])
    IN  /\ \A b \in Backends : Len(monitor.flags[b]) = ticks
        /\ IsSuffix(Newest(LogLen, events), monitor.log)
=============================================================================
