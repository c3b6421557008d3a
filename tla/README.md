# Omega-LB: TLA+ models, checks and proofs

Omega-LB is a layer-7 load balancer in three parts: eBPF programs and a Go
control plane (`src/controlplane`) that maintains the hash ring, health and
weights they route by; a self-contained Python proxy (`src/demo`) that runs the
same ideas in one event loop, with a dashboard and a desktop application around
it; and the Python code that trains its models (`src/ml`). This directory models
the parts whose correctness depends on the order in which goroutines,
coroutines, threads, processes, CPUs and nodes act, and the algorithms they
rest on.

Every module is translated from the source lines that `PROJECT.json` ("map")
names; `PROJECT.json` also lists the runs, the mutants that show each property
can fail, the findings and the hazards.

## 1. Inventory

### Control plane (paths below `src/controlplane/internal/`)

| Component | State | Operations | Hard behaviour | What makes it correct | Module |
|---|---|---|---|---|---|
| Ring manager (`ring/ring.go`, `helpers.go`, `reconcile.go`) | backends, the sorted ring derived from them, request counter | AddBackend, RemoveBackend, SetHealth, SetDraining(All), SetVnodeCount, ProactiveAdjust, Route, ReleaseConn, ReconcileFromEBPF | a derived cache updated by nine writers; counters of requests that outlive their backend | ring in sync, counters exact, no blackout, minimal disruption, drains complete | `Ring`, `RingProofs` |
| Session affinity (`ring/affinity.go`) | table key → backend with TTL | RouteStateful, Register, Expire, GC | four lock sections per request, expiry goroutines, drains | a pin does not move; counters never overcount | `Affinity`, `RingProofs` |
| Slow start (`ring/slowstart.go`) | map of ramps | BeginSlowStart, CancelSlowStart, tick | unlock inside a map range | ramps end, at their target, and the ring follows them | `SlowStart`, `RingProofs` |
| Health checker (`health/checker.go`) | per endpoint failure and success counters | Register, Deregister, check | overlapping checks; counter and ring under different locks | dead backends leave the ring, live ones return | `HealthChecker`, `DaemonProofs` |
| Circuit breaker (`health/circuit_breaker.go`, `ebpf/kern/lb_policy.bpf.c`, `metrics_collector.bpf.c`) | one map entry per backend, per-CPU error counters, the manager's record | select, count, trip, close, tick, NotifyProbeResult | three parties, no lock, no compare-and-swap | a well backend is let in, the manager converges | `CircuitBreaker` |
| Consensus (`consensus/`) | leader lock, state key, watch channels, last version | election, publish, watch, apply | crashes, leases, lost and replayed events, piecemeal snapshots | one writer, followers converge, failover | `Consensus`, `DaemonProofs` |
| Write-ahead log (`ring/wal.go`) | append-only file, sequence number | Write, Commit, Replay, Checkpoint | crash between truncate and sync, torn lines | an uncommitted mutation survives a crash | planned |
| Maglev table (`ring/maglev.go`) | lookup table | Build, Rebuild, Lookup | none (pure) | every slot filled, balanced, draining backends excluded | planned |
| Pool monitor (`ring/pool_monitor.go`) | last counts | check | none | alarms at the thresholds | planned |
| RL agent, CBF filter (`rl/`) | mode, frozen flag, shadow window, actor | step, SetMode, HotReload, Project | another writer of the ring; reload during a step | an observing mode does not route; caps respected | planned |
| Model store (`rl/model_store.go`) | registry and blobs on disk | Push, Pull, Promote | read-modify-write by several processes | no registration is lost | planned |
| Rate-limit agents (`ratelimit/`) | limits, weight bus | step, applyAction | two goroutines over one bus | limits within bounds | planned |
| Metrics, cardinality, flight recorder, nginx fallback, eBPF loader | windows, label set, ring buffer, failure count, pins | ingest, normalise, record, switch, pin-or-reuse | bounded buffers with concurrent readers; restarts | bounds hold, order kept, one switch per outage | planned |
| Admin server, daemon, config, telemetry, xDS stub, NUMA, TLS inspector | none of their own | handlers, wiring, parsing | start-up order | | not modelled |

The eBPF filter, route and relay programs (token counter, prefix match,
keep-alive) are planned.

### Python proxy, its surroundings and training (paths below `src/`)

| Component | State | Operations | Hard behaviour | What makes it correct | Module |
|---|---|---|---|---|---|
| Proxy: requests, health, operators, shutdown (`demo/proxy.py`, `metrics_store.py`, `backends.py`) | health twice (ring and metrics), failure counts, in-flight counts | handle, handle_admin, health loop, cleanup | every await is an interleaving; cancellation at shutdown; retries | one view of health, exact counts, no unsafe request sent twice, everything ends | `Proxy`, `ProxyProofs` |
| Control loop (`demo/proxy.py`, `ml/kan/kan_inference.py`, `ml/cbf/cbf_runtime.py`) | metric histories, model, vnode counts, violation log | infer, project, set_vnodes, trend correction, reload | a thread shifts the histories the loop reads; degenerate vectors | weights are shares, the projection is one, vnode counts stay in range | `Control`, `Vectors`, `ControlProofs` |
| Rate limits (`demo/proxy.py`) | buckets, rates, operator budgets | consume, adjust, allow | the rate changes under the bucket; window boundaries | an observer is never let down by more than a burst | `RateLimit`, `RateLimitProofs` |
| Metrics file (`demo/metrics_store.py`) | live file, temporary file, open descriptors | write, rename, read | no lock, writer killed anywhere | an atomic register | `MetricsFile` implements `Register` |
| Launchers (`desktop/omegalb_desktop.py`, `demo/run.py`), dashboard's source (`dashboard/app.py`) | process table, pending starts and stops | start, watchdog, stop, close, Ctrl-C, teardown, refresh | crashes in the middle, dialogs, impatient users | no orphan, dead processes noticed | `Stack`, `StackProofs` |
| Training environment (`ml/simulation/lb_env.py`) | loads, smoothed counters | reset, step | hard floors against penalties that remember | floors cannot be traded | `SimEnv`, `TrainingProofs` |
| PPO training (`ml/ppo/train_ppo_kan.py`) | environment, rollout buffer, policy version | collect, filter, update, export | two step counters, recursion over resets, splines at the ends of the grid | on-policy data, right advantages, fair filter, exact basis | `Rollout`, `Spline`, `TrainingProofs` |
| DQN and A3C training (`ml/dqn_a3c/train_dqn_a3c.py`) | replay buffer, shared gradients | step, push, learn, worker threads | threads over shared gradients, episode ends | no gradient lost, right returns, contiguous replay | `RateTraining`, `TrainingProofs` |
| Load generator, dashboard pages, benchmarks, tools, web site | | | | | not modelled |

Interactions. In the control plane `ring.Manager` is the shared state: the health checker calls
`SetHealth`, slow start `SetVnodeCount`, the agent and the predictive layer
change vnode counts, the coordinator calls `AddBackend`, `SetHealth` and
`SetVnodeCount` from snapshots, the admin server `SetDraining`. Each call is
atomic under the manager's mutex; sequences of calls are not. The checker's
recovery callback begins a slow start. The kernel and the circuit-breaker
manager share a pinned eBPF map. Nodes share only the consensus store. In the
Python proxy handlers, health loop, control loop and operators share the ring
and `MetricsStore`; the aggregator is the only other thread. The proxy and the
dashboard are processes that share only `live_metrics.json`, and the launchers
know them only by their process objects.

At this commit `Route`, `ReleaseConn`, `RouteStateful` and `ReconcileFromEBPF`
are called only by the repository's tests (the kernel routes in production), and
the daemon always creates a per-process `MemStateStore`. The models treat these
methods as the API they are: any caller may use them, in any order their
contracts allow.

## 2. Modules and how they correspond to the code

`Ring` is extended by `Affinity` and `SlowStart`, which run its actions beside
their own. `HealthChecker` and `CircuitBreaker` keep the one flag of the ring
they write, since backends do not interact there. `Consensus` keeps, for each
node, the view its ring has of each backend. `Proxy`, `Control` and `RateLimit` cut
the Python proxy along its state: each leaves the others' part to a free choice
(a bucket may refuse, health may change). `Stack` extends `MetricsFile`, whose
writer lives in the proxy process, and `MetricsFile` instantiates `Register`.
`Training` composes `SimEnv`, `Rollout`, `Spline` and `RateTraining`, one job at
a time. `Vectors` has what `Control` and `SimEnv` do with a component per backend
(sums, sorting, bounds), `Discounting` the powers and discounted sums that
advantages and returns are compared with. `MC*` modules only supply constant
values for TLC.

**Ring.** Exported methods hold `Manager.mu` for their whole body, so each is
one action and `Install` is "assign, then rebuild()". A vnode is the pair
`<<id, i>>` that rebuild() hashes; `Pos` is the hash, an arbitrary function.
`Distance` is the binary search of `bisectRight` (first position strictly
greater, wrapping around). Where `sort.Slice` and Go's map order leave a tie
open, the model takes any candidate. `BoundedLoadBeta` and `AdjustThreshold` are fractions, so
comparisons stay in the integers. `reqCount` is kept modulo `AdjustEveryN`.
Two history variables exist: `inflight` (requests handed out and not released)
and `replaced` (structs dropped while serving).

**Affinity.** A caller goes through lookup, verification, expiry, routing and
registration as separate steps, because the table's lock and the manager's lock
are taken in turn. The TTL is a flag per record. `raced` remembers sessions
that two callers served at once.

**SlowStart.** The tick goroutine's position in its range loop is state, since
it unlocks in the middle: `due` are keys the range must still meet, `seen` those
met. Go's rules for changing a map under a range are followed: an entry that was
there and stays is met once, one that was added meanwhile may be met or not, and
one that was cancelled and added again may be met again. `FleetMoves` is any
operation of `Ring`, so every other writer of a VnodeCount acts at any moment of
a tick. Two history variables: `touched` are the ids whose count another writer
changed last, `young` the ramps begun while the tick ran. `CancelSlowStart` is
modelled as its doc says it is to be called; nothing in the repository calls it.

**HealthChecker.** One endpoint. A check is a goroutine with the steps probe,
record (under `ep.mu`) and ring call (after it). Structs replaced by
`Register` stay alive while a check uses them. Counters saturate just above
their thresholds, beyond which the code does not tell values apart.

**CircuitBreaker.** One backend; selection and completion of a request on a CPU,
the read and the write of the map entry on success, and the read and the write
of the manager's timeout are separate steps. `ErrorFlags` are the values of
`is_error`. `metrics_collector.bpf.c:161` sets it to zero with a TODO, so the
shipped program is the instance `{0}`, in which `CountError` never happens; nor
does anything in the daemon call `NotifyProbeResult`. `{0, 1}` has all fair
behaviours of `{0}` and those of the program once the field is filled; what
`circuit` shows, that a tripped circuit recovers and that the manager follows,
holds of both. That a failing backend is tripped is not claimed: it is false of
the shipped program (section 3).

**Consensus.** The `Run` loop of each node is a program counter. Publishing
collects one backend per lock and applying writes one backend per lock, as the
code does; the version is taken (`Stamp`) before the write and the write may come
late, after a successor's. Put drops events for full channels (`mem_store.go`).
Get and Watch may fail, which sends a follower back to the election. The store's
lock and its replay at the start of a watch follow the `StateStore` interface,
because `MemStateStore`, the only implementation in the repository, grants every
lock and serves single nodes. Versions are clock readings that are only
compared; the model keeps their ranks and assumes clocks that agree. `lost`
remembers leaders whose lease expired.

**Proxy.** One asyncio loop: an action is one turn of a coroutine between two
awaits. A request goes from arrival (route, token) to the body, to the upstream
call and possibly to one retry; an operator request may change health in two
places; the health loop goes round the backends; `cleanup` cancels what is left.
The ring is the set of backends in it and a key may hash to any of them.

**Control.** The aggregator thread makes one assignment per step: it rolls the
latencies, the loads and the error rates, then fills their newest columns, a
backend's three entries before the next one's. The loop copies loads, latencies
and error rates one after another, infers, projects and sets vnode counts, and
`ProactiveController` reads the loads twice more. What the loop decides on is
therefore any mixture of columns the code can see.
Numbers are integers: weights are multiples of a grain that the bounded number
of projection steps divides exactly, so no rounding is hidden. `Parts[k]` divides
every weight after `k` steps; since a step divides by 1 to `N`, such numbers exist
for every `N` and number of steps (powers of `N!`), and the choice is one of
units, not of behaviour. `Sorted` is specified by what it returns, a
non-increasing arrangement, and `Sums` is the running sum. A trained network
is any of `Outputs`. `monitor` is the part of `SafetyMonitor` that forgets: the
flags per backend and the event log.

**RateLimit.** Time in ticks, tokens in units of a tick at one token per second.
`mark` is the moment an observer starts to count, any moment of the run.

**MetricsFile, Register.** Names, inodes and descriptors: `open("w")` truncates
what the name refers to, `os.replace` moves a name, a reader keeps its inode.
The refinement maps `value` to the content of the live name and `got` to what a
reader's descriptor refers to.

**Stack.** Each launcher is a program counter and the set it still has to start
or stop. Boot, crash and exit of processes, another program on the port, the
timer that fires while a dialog is open, and Ctrl-C at any point. In the script,
making a process (`Popen`) and entering it in `PROCESSES` (`Enter`) are two
steps, since the interrupt can come between them; the terminal sends it to the
children as well. The desktop's timers cannot come between its two statements.

**SimEnv, Rollout, Spline, RateTraining.** Loads are per cent of a capacity of
100, rewards thousandths, advantages and returns polynomials in integer
discounts. Actions, values and rewards are chosen freely, so nothing depends on
what a network learned. `Spline` evaluates the Cox-de Boor recursion in exact
integers, for the grid size and order of `PPOConfig` (5 and 3). The training
filter works on multiples of `1 / Grain` and rounds its gradient step down, once
per step. The noise on the 99th percentile, exponential with mean 5 ms
in the code, is at most 5000: beyond that its probability is `e^-1000`.

## 3. Runs

| Run | Instance | Shows |
|---|---|---|
| `ring` | 2 backends, 8 positions with collisions, 2 keys, at most 3 vnodes and 2 requests in flight per backend, adjustment on every second request | `RingInSync`, `NoBlackout`, `ActiveReqsAccounted`, `RoutesToAvailable`, `MinimalDisruption`, `DrainsToZero` |
| `affinity` | 2 sessions, 2 callers, a table of 2, 1 pending expiry per key | `AffinityInv` (counters never exceed the requests in flight), `PinImmutable` |
| `slowstart` | 2 backends, target 3, batches of 2, counts up to 4, at most 1 request in flight per backend, 1 operation of the manager beside the ramps | `SlowStartInv` (the ring follows the ramp until another writer changes the count), `RampEnds`, `OnlyFinishedRampsEnd` |
| `health` | thresholds 2 and 2, 2 checks at once, 2 structs | `HealthInv` (the ring agrees with the failure counter), `DownWhenDead`, `RecoversUndisturbed` |
| `circuit` | 3 CPUs, threshold 2, `is_error` 0 or 1 | `ClosesWhenWell`, `ManagerConverges` |
| `consensus` | 2 nodes, 2 backends, channels of 1, 2 faults | `SingleWriter`, `CatchUp` |
| `consensus_failover` | 2 nodes, 1 backend | **violation** of `Failover` |
| `proxy` | 2 backends, a GET and a POST, 1 operator, threshold 2, 1 fault | `ProxyInv` (`HealthInStep`, `ActiveAccounted`, `SessionOutlivesHandlers`), `AtMostOnce`, `HealthConverges`, `Completes` |
| `control` | 2 backends, 2 measurements and their mixtures, 1 network output, histories of 2, 2 projection steps, 1 flag and 2 log entries | `ControlInv` (`WeightsAreShares` and the range of vnode counts), `DownGetNothing`, `ProjectionIsNearest`, `OverloadedLoseWeight`, `RatesMatchLog` |
| `ratelimit` | 1 bucket between 10 and 14 per second, 2 addresses, 3 seconds | `AdmissionBounded`, `AdminBounded` |
| `stack` | proxy, backends and dashboard, 1 session, 3 inodes, 2 snapshots, 1 crash, 2 starts | `AtomicFile` (refinement), `NoOrphan`, `ScriptCleansUp`, `CrashNoticed`, `DashboardSettles` |
| `training` | 3 backends, 1 deceptive; rollouts of 2 episodes; 2 workers, 2 parameters; splines as configured | `TrainingInv` (`OnPolicy`, `ReplayChained`, `ReturnsRight`), `FloorNotTraded`, `AdvantagesRight`, `FairToLoad`, `BasisExact`, `GradientsKept` |

Type invariants are conjuncts of the `...Inv` properties; those of `Ring`,
`RateLimit` and `Stack` are only proved (section 4).

Why the bounds are enough. The ring compares a backend with the others as a
whole, so two give every order of loads and weights; three vnodes allow a count
to be cut, restored and moved, and eight positions contain collisions and wrap
around. A race of two callers, two checks or two ticks is a race of two; the
third CPU of the circuit run lets one write be delayed across two trips.
Counters are compared with thresholds, and 2 distinguishes "below", "at" and
"above". A channel of one entry is full after one event, which is when Put
drops. Two faults allow a lost lease followed by a failed write, a crash
followed by a change, and changes on both sides.

In the Python runs: one POST and one GET are the two cases of the retry, and two
backends the two places it can go; one fault is a crash or a lost probe, and the
backend may restart. The control run has two backends, for the nine assignments
of a tick beside six steps of the loop make most of its states; they suffice for
one, both or none over the cap (a half-written column has one), one or both
down, and a projection that leaves one or both components positive, and the
projection's properties are proved for every number (section 4). One network
output suffices because it leaves nothing when the backend it prefers is down.
One bucket suffices because
buckets share nothing. Three inodes are as many as the live file, the temporary
file and a reader's file need, so a freed one is used again. Two starts and one
crash let a stack be restarted over what the first left behind. Rollouts of two
episodes have an end inside and one at the end of the buffer; A3C rollouts are
cut short by an episode; the replay buffer overflows.

Deadlock is checked in every run but `consensus_failover` and `consensus`
(which stop when all nodes follow and nobody leads), `proxy` and `stack` (which
stop when the program has exited), and `ratelimit` and `training` (which stop at
their bound on time or when the job is done). Sets of sessions and callers are
symmetric in `affinity`, which checks no liveness.

### Fairness

* `FairRingSpec`: a request in flight ends some day and its caller calls
  `ReleaseConn`, as the method's contract ("after a response") requires.
* `SlowStartSpec`: `RunSlowStart`'s ticker ticks, a tick runs to its end, and its
  range makes one pass over a finite table, so that it meets every entry that was
  there and stayed, and ends (strong fairness: others may take the lock between
  any two iterations, but the iterator does not go back).
* `HealthSpec`: a ticker starts checks, and the HTTP client's timeout ends them.
* `CircuitSpec`: requests arrive and end, the one-second poll goes on, time
  passes; the map update is retried every second, so it succeeds if it may
  again and again (strong fairness). Probe reports are not fair.
* `ConsensusSpec`: running coordinators take their steps, and the store drops
  the lease of a holder that is gone. Crashed nodes need not return, and
  watch errors need not occur.

* `Proxy`: the event loop runs every coroutine that can go on, and the timeouts
  of the client session end every call of a backend. No client, operator,
  signal or restart is promised.
* `Stack`: launchers, processes and timers run, a process that got SIGINT ends,
  time passes, the dashboard refreshes. Nothing is assumed of the user, of
  crashes or of the proxy's writes.

### What the violation means

**No failover** (`coordinator.go:292`): a follower blocks on its channel and
never runs for the lock again.

### Seen on the way and not kept as runs

Where a property below would fail, the model has the behaviour and the kept
properties say what holds beside it.

The circuit breaker does not trip. `is_error` is the constant 0
(`metrics_collector.bpf.c:161`), so the branch that counts errors and writes
CIRCUIT_OPEN is dead, although the comment of `instance_stats` (line 57) says
that each 5xx is counted and the threshold trips; the other writer of OPEN,
`NotifyProbeResult`, is called only by its tests. A backend that answers every
request with 5xx stays CLOSED.

Control plane. Stage 1 sets `AdjustEveryN` to 0 ("the ring still works",
`daemon.go:77`) and the first `Route` divides by it (`ring.go:180`). Affinity
hits look at health only and are not counted, so a draining backend can report
`active_reqs` 0 while it serves (`affinity.go:182`). The ring call of a failed
check may land after that of an overlapping successful one, and the backend
stays DOWN (`checker.go:165`). `SetHealth(true)` brings all vnodes back before
the slow start, whose comment assumes there are none (`slowstart.go:103`). A
success of a request selected before the trip closes an OPEN circuit
(`metrics_collector.bpf.c:185`). `LazyExpire` removes a record that was renewed
after the lookup (`affinity.go:94`); two racing requests of a new session move
its pin; `ProactiveAdjust` cuts stateful backends although `ring.go:38` says
their weight is fixed; registering an endpoint that is DOWN forgets that it is
(`checker.go:68`); the warm-up callback also fires for a backend that was never
DOWN (`checker.go:140`); a ramp cancelled and begun again during a tick can be
deleted as finished (`slowstart.go:199`; `young` in `OnlyFinishedRampsEnd`); any
other writer of a vnode count is overwritten by the next batch of a ramp, and
what it wrote stays until then (`touched` in `SlowStartInv`); any number of requests probe a
HALF_OPEN backend; snapshots do not carry removal or draining.

Proxy. A request that is not idempotent and fails is answered 502 although
another backend is healthy, through the line marked "should not reach here"
(`proxy.py:562`). `_active` leaks only when shutdown cancels handlers;
`kill_backend` is undone by the next probe; the route is chosen before
`await request.read()` and may be stale after it; a retry takes no token of the
other backend's bucket; an empty ring routes to backend 0. A changed rate
credits the time since the last request at the new rate; the operators' limiter
counts by `time.time()`, keeps every address for ever and charges before it
looks at the token.

Control. `Restored` stalls near 51 vnodes because of truncation, though its
comment says towards 150; a hot backend below 50 vnodes is raised to 50 by the
step meant to shrink it; corrections are overwritten every tick; the projection
may give weight to an unhealthy backend; with no healthy backend the network
path returns zeros; the state vector of `_infer_onnx` ("exactly" that of
`LBSimEnv`) has other units for active connections and total rate. The training
filter's barrier counts the weight as load, the serving filter's does not.

Local stack. Ctrl-C between `Popen` and `PROCESSES.append` (`run.py:65`, `:72`)
leaves a process the script does not know; it got the terminal's SIGINT, but
neither the second signal nor the SIGKILL of `_teardown`. `_write_config` truncates `omega-lb.yaml` before it writes it, and
a proxy that boots meanwhile runs on defaults; Streamlit is a grandchild that
outlives its parent (`omegalb_desktop.py:289`); ports are checked before the
question dialog and not after it; connection tests write to table rows from
their threads; two proxies would share one temporary file name. The load
generator fires a second's requests at once at every slot change.

Training. `opt.step()` runs outside the lock and shared gradients are never
cleared; the A3C network is saved while workers run; PPO stores the projected
action with the log-probability of the other one; `prev_weights` survives the
end of an episode; `last_value = 0.0` is right only because a rollout is a
multiple of an episode.

## 4. Proofs

A theorem holds for every value of the constants that satisfies the named
assumptions of the modules it is about; TLC evaluates these on every run.

**Ring (`RingProofs`)**

| Theorem | Statement |
|---|---|
| `TypeCorrect` | `RingSpec => []RingTypeOK` |
| `RingStaysInSync` | `RingSpec => []RingInSync` |
| `ActiveReqsStayAccounted` | `RingSpec => []ActiveReqsAccounted` |
| `NeverBlackout` | `RingSpec => []NoBlackout` |
| `RoutesOnlyToAvailable` | `RingSpec => RoutesToAvailable` |
| `DisruptionTheorem` | `RingSpec => MinimalDisruption` |

The inductive invariant is `RingInv`: types, `RingInSync`, `VnodesPositive` and
`ActiveReqsAccounted`. `RingInSync` is needed for types, because Route finds a
backend through the ring and must find a registered one; `VnodesPositive` is
what makes `NoBlackout` follow from `RingInSync`, and rests on
`ReductionLeavesOne` (a cut of 15 percent, rounded up, spares one vnode of two
or more). Nearly every writer goes through `InstallKeepsInv`. The lemmas are
stated for `RingInvOn(E)`, whose counters are exact for the ids of `E` only, so
that the proofs of `Affinity` (no id) and `SlowStart` (all ids) reuse them.
`RingAssumption` says that configured counts are positive, which `NewManager`
and the kernel maps guarantee; `PositionAssumption`, that the hash of every
vnode is a position on the ring, which `murmur3_32` guarantees.

`DisruptionTheorem` is consistent hashing. An owner of a key is a backend with a
vnode nearest to it. If backend `b` owned the key, did not shrink and no longer
owns it, then its nearest vnode is still there (`WeightIsVnodes`: a backend's vnodes are
numbered from 0 up to its weight), so a nearer one must have appeared; a new
vnode belongs to a backend that grew (`KeysLeaveForGrowth`). The nearest exists
because the naturals are well founded (`NearestExists`); distances are numbers
because counts stay within `MaxVnodes` (`StepBounded`), for which `Pos` is
defined.

**Affinity (`RingProofs`)**: `AffinityTheorem`, `AffinitySpec =>
[]AffinityInv`, and `PinTheorem`, `AffinitySpec => PinImmutable`. Both follow
from `AffinityIInv`. Counters stay below the requests in flight only on a ring
that is in sync, hence `RingInvOn({})`. `PinsGuarded` says of a session that two
callers never served at once that it has at most one caller, and that what this
caller learnt from its lookup (there is no live record) still holds when, two
lock sections later, it registers.

**SlowStart (`RingProofs`)**: `SlowStartTheorem`, `SlowStartSpec =>
[]SlowStartInv`, and `RampTheorem`, `SlowStartSpec => OnlyFinishedRampsEnd`. The
invariant speaks of moments when no `SetVnodeCount` is owed;
`OwedFollowsRamp` ties the count the tick carries while it holds no lock to the
ramp it came from, and `DoneAtTarget` says that what it has put on its list of
finished ramps is still finished, unless it was begun again meanwhile. Any step
of `Ring` may come in between (`RingStepInv`): it leaves the ramps alone and adds
every id whose count it writes to `touched`.

**Daemon (`DaemonProofs`)**: `OneWriter`, `ConsensusSpec => []SingleWriter`,
for any number of nodes, faults and channel slots. `SingleWriter` is not
inductive; `LeaderHoldsLock` says that every leader whose lease is live is the
lock's holder. The delicate steps are `Acquire` (the lock is free, hence no such
leader is left) and `PutFails` (a former leader releases only its own lock).
`HealthTheorem`, `HealthSpec => []HealthInv`, for any thresholds, checks and
endpoint structs: between recording a result and calling the ring, a check must
carry a result that still agrees with the counter, which it does while it is the
only one and works on the registered struct.

**Proxy (`ProxyProofs`)**: `ProxyTheorem`, `Spec => []ProxyInv`, and
`AtMostOnceTheorem`, `Spec => []AtMostOnce`, for any backends, faults and finite
set of connections (`RequestsAssumption`: the load counters are cardinalities).
The strengthening `ProxyIInv` records which backends a handler has tried at each
of its awaits (`AttemptsTracked`: the last attempt is where it waits, so a retry
goes elsewhere), that an operator's request which waits has an order to give,
and that cleanup leaves no handler (`NoneLeft`).

**Rate limits (`RateLimitProofs`)**: `RateTypeInvariant`, `AdmissionTheorem`
(`Spec => []AdmissionBounded`) and `AdminTheorem` (`Spec => []AdminBounded`) for
any backends, rates, resolution and order of requests and rate changes.
`RateTypeOK` says more than types: a limit that was ever adjusted is between
`MinRps` and `MaxRps`, and the bucket runs at it or at `set_rate`'s floor.
`AdmissionBounded` is not inductive: `AdmissionInv` says that a bucket not used
since the mark has admitted nothing, and that otherwise what it admitted plus
what it held after its last use is at most a full bucket and the refill from the
mark to that use, both at the greatest rate. It needs the type invariant (rates
and tokens below the peak), because a rate change credits past time at the new
rate. For the operators' limiter the strengthening (`AdminInv`) says that an address
has used up at most a budget for each window between the observer's and its own,
and in its own what the limiter counted. The products of two unknowns are isolated in small monotonicity lemmas.

**Stack and metrics file (`StackProofs`)**

| Theorem | Statement |
|---|---|
| `FileIsRegister` | `Spec => AtomicFile`: the metrics file implements `Register` |
| `NoOrphanTheorem` | `Spec => []NoOrphan` |
| `CleanUpTheorem` | `Spec => []ScriptCleansUp` |
| `StackTypeInvariant` | `Spec => []StackTypeOK` |

for any readers, inodes, crashes and starts. The file's invariant `FileInv` has
the parts `Whole` (live file and open files are complete snapshots), `Apart` (no
name or descriptor but `tmp` refers to what is being written: this is where
truncating the live file would break it), `Newer` (what is on its way is newer
than what is there) and `Filled` (what is about to be renamed is complete).
A process the script has just made is not in its table yet: `NoOrphan` says that
this lasts only from `Popen` to `Enter`, or that the Ctrl-C which came in between
reached the process too (`ToldByScript`).
`NextIsFileStep` reduces every action of `Stack` to a step of the file or the
death of its writer. The launchers' invariant `LaunchInv` adds to `NoOrphan` that
a stop in progress covers every process that is left (`StopInProgress`) and that
the last teardown has told all (`LastTeardown`).

**Control loop (`ControlProofs`, with the lemmas of `VectorProofs`)**

| Theorem | Statement |
|---|---|
| `ControlSafe` | `Spec => []ControlInv` |
| `DownTheorem` | `Spec => []DownGetNothing` |
| `ProjectionNearest` | `Spec => []ProjectionIsNearest` |
| `OverloadedLose` | `Spec => []OverloadedLoseWeight` |
| `RatesMatch` | `Spec => []RatesMatchLog` |

for any number of backends, measurements (`ColumnsAssumption`), network outputs
(`OutputsAssumption`), lengths of the histories and deques (`LengthAssumption`),
number of projection steps, and granularity that divides (`GrainAssumption`).

That weights are shares is not inductive by itself: it holds because the last
decision was the projection of shares, which is what `ControlIInv` adds
(`DecisionOK`, theorem `ControlTypeCorrect`). The rest is the algorithm of
`_project_simplex`. The positive components of the sorted vector are a prefix of
it (`LastPositive`), the threshold lies between the last of them and the next
(`ThresholdSplits`), and so what is cut off is what exceeds one (`CutSum`,
`SimplexExact`): the sum is exactly one and no component that stays positive is
lowered by less than another, which characterises the nearest point
(`SimplexNearest`). Exactness needs that the division leaves no remainder, and
`IterationShares` shows along the loop that it does: after `k` steps every weight
is a multiple of `Parts[k]`. `OverloadedLoseWeight` follows step by step: a step
takes from violators only, and the threshold, negative then, gives to each
component that stays positive the same.

`DownGetNothing` rests on `InferShuns`: both paths return a vector that has mass,
and none of it on a backend that is down, as soon as one backend is up, so that
the equal parts of `_project_full`, which do not look at the health, are not used.

`RatesMatchLog` compares two deques that forget at different times. `MonitorOK`
adds that the flags of all backends are equally many and states the property as
"is the end of" (`Ends`), which survives appending the same events to both and
cutting either at its length (`NewestEnds`, `EndsConcat`, `FlatAppend`).

Nothing about recursive functions or `CHOOSE` is visible to the provers.
`VectorProofs` shows that a function defined step by step exists (`Recursion`,
by a least counterexample, since the library's induction theorems cannot be
instantiated) and that each recursive function of the models is one (`SumsDef`,
`PowersDef`, `DiscountedDef`), and that a vector can be sorted and sorting
preserves the sum (`SortExists`, `SumsRearranged`).

**Training (`TrainingProofs`)**

| Theorem | Statement |
|---|---|
| `TrainingTheorem` | `Spec => []TrainingInv` |
| `FloorTheorem` | `Spec => []FloorNotTraded` |
| `AdvantagesTheorem` | `Spec => []AdvantagesRight` |
| `FairnessTheorem` | `Spec => []FairToLoad` |
| `GradTheorem` | `Spec => []GradientsKept` |
| `ReturnsTheorem` | `Spec => []ReturnsRight` |
| `DqnTheorem` | `Spec => [](ReplayChained /\ RateTypeOK)` |
| `PpoTheorem` | `Spec => [](OnPolicy /\ ...)`: and an update learns from a buffer that ends with an episode |

for any workers, parameters, backends, episode and rollout lengths, capacities,
actions, values, rewards and discounts that satisfy `SimAssumption`,
`RateAssumption`, `RolloutAssumption` and `NobodyAssumption` (the free lock is no
worker). `SimAssumption` bounds the noise (section 2), lets `reset` draw loads up
to 30 per cent, as `LBSimEnv` does, and chooses rates that the weights share out
without a remainder.

`GradInv` follows a worker through the lock: whoever is
inside holds it, the parameters below its current one have its gradient, and
"there is no gradient yet" is still true when the assignment acts on it, since
nobody else is inside. `DqnInv` links the newest transition to where the agent
stands, which makes the next one contiguous, and keeps the target network at a
multiple of `SyncEvery` (`MultiplesFollow`). `PpoInv` says that the
environment's step count is the length of the buffer modulo the episode: so an
episode ends at every `PpoEpisode`-th entry, and because a rollout is a multiple
of an episode the counts still agree after the buffer is cleared.

Advantages and returns are computed from the end of a rollout and specified as
sums from the front. `GaeDef` and `ReturnsDef` say that the recursions have the
values of the code's loops, `BackwardSum` that a value which is the next one
discounted plus a term is the discounted sum of the terms up to where the
recursion starts; `GaeDiscounts` applies it within the episode of each entry
(`LastOfEpisode`), where `done` makes it start anew. `Learned` and `PathsOK`
remember from which rollout the results were computed.

`FloorTheorem` needs only that loads are between 0 and 120 (`SimTypeOK`,
inductive). From that follow bounds on each term of the reward: latency
(`LatencyBounds`), variance (`VarianceBounds`), rejections (`HackingBounds`).
For the same traffic, a step over the floor loses at least 985600 thousandths
and one below it at most 978525. So the cliff of 1000000 is steep enough with a
margin of 0.7 %; it covers a noise of 5000 but not one of 6000, hence the
assumption.

`FairnessTheorem` holds for every number of iterations: what an iteration makes
of a weight does not decrease with the weight, because the gradient it subtracts
grows more slowly than the weight does, and does not increase with the load
(`LoweredInOrder`); the projection then subtracts one threshold from all
(`SimplexProjectShape`, `IterationFair`).

**Only model-checked.** Liveness (fairness and ENABLED are beyond the prover):
`DrainsToZero`, `RampEnds`, `DownWhenDead`, `RecoversUndisturbed`,
`ClosesWhenWell`, `ManagerConverges`, `CatchUp`,
`HealthConverges`, `Completes`, `CrashNoticed`, `DashboardSettles`. Of the safety
properties `BasisExact` alone: that the Cox-de Boor recursion gives functions
with the supports of B-splines that satisfy Marsden's identity (the products of
`y - knot` are the coefficients of `(y - x)^SplineOrder`; with the supports this
determines the functions), for every grid and order, is an induction over the order
with sums of quotients in each step, and exact integers
need a unit that every quotient of every step divides. The run checks it at the
configured grid and order, at every knot and between the knots. The violation of
`Failover` is a counterexample and needs no proof.

## 5. Plan

1. Done: `Ring`, `Affinity`, `SlowStart`, `HealthChecker`, `CircuitBreaker`,
   `Consensus`; `Proxy`, `Control`, `RateLimit`, `MetricsFile` with `Register`,
   `Stack`; `SimEnv`, `Rollout`, `Spline`, `RateTraining`, `Training`; the proofs
   of section 4.
2. Wiring: the desktop's table, the configuration file and the proxy that loads
   it while it is written; the load generator's pending set.
3. `RingWAL`: the file as durable and volatile lines, with crashes between
   truncate, write and sync, against an abstract log.
4. `RLAgent` composed with `Ring`, `ModelStore`, the Go rate-limit bus.
5. `DataPlane`: token consumption, the ring walk of `lb_policy`, prefix match,
   keep-alive. `Algorithms`: Maglev, cardinality limiter, flight recorder, nginx
   hysteresis, pin-or-reuse.
6. Proofs to add: `BasisExact` for every grid size and order; first its parts,
   that no basis function is negative and at most `SplineOrder + 1` are positive.

### Not modelled, and why

Weights of networks, losses and optimisers are floating point; where an
algorithm on them is exact in integers (projections, advantages, splines,
rewards) it is modelled. Rendering, charts and table editing keep no state the
system depends on. Configuration values appear as constants. The Go components
marked planned above are within reach and not yet written; what is hard in
them: a torn line or a crash between truncate and write in the log
(`wal.go:93`, `wal.go:196`), the agent writing vnode counts beside slow start and
the coordinator (`agent.go:460`), two processes rewriting the model registry
(`model_store.go:221`), and the kernel's token counter, taken and refunded in two
atomic operations (`filter_manager.bpf.c:122`).

## 6. Running

    tlc -workers 2 -config MCRing.cfg MCRing      # any row of "runs"
    tlapm RingProofs.tla                          # any module named ...Proofs

The longest run takes about three minutes, a proof module one to ten.
