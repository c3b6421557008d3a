--------------------------- MODULE CircuitBreaker ---------------------------
(***************************************************************************)
(* The circuit breaker of one backend, shared by three parties:            *)
(*   - lb_policy.bpf.c, which does not select a backend whose circuit is   *)
(*     OPEN;                                                               *)
(*   - metrics_collector.bpf.c, which trips and closes the circuit from    *)
(*     the kernel, with a counter per CPU;                                 *)
(*   - CircuitBreakerManager (health/circuit_breaker.go), which polls the  *)
(*     pinned map every second and owns the OPEN timeout.                  *)
(* They communicate through one map entry, read and written without any    *)
(* lock or compare-and-swap, so a read and the write that follows from it  *)
(* are two steps.                                                          *)
(*                                                                         *)
(* Each CPU has one request under way at a time.  An absent map entry      *)
(* counts as CLOSED for all three parties.  ErrorFlags holds the values    *)
(* is_error can take.  metrics_collector.bpf.c leaves it at 0 with a TODO: *)
(* the program as it stands is the instance {0}, in which CountError never *)
(* happens, and {0, 1}, which allows all {0} does, the one it is written   *)
(* for. Nor does the daemon call NotifyProbeResult. So no property says    *)
(* that a failing backend is tripped; they say what follows a trip.        *)
(***************************************************************************)
EXTENDS Integers, FiniteSetsExt

CONSTANTS
  CPUs,         \* processors
  Threshold,    \* CIRCUIT_TRIP_THRESHOLD
  ErrorFlags    \* values of is_error: {0}, or {0, 1} once it is populated

ASSUME CircuitAssumption == Threshold \in Nat \ {0} /\ ErrorFlags \subseteq {0, 1}

VARIABLES
  circuit,   \* the backend's entry of circuit_state_map
  slot,      \* its instance_stats_map entry exists (for every CPU at once)
  consecutive_errors,   \* per CPU, saturating just above the threshold
  flow,      \* the request each CPU is handling
  mgr,       \* the manager's record and where its tick is
  failing    \* the backend answers with 5xx (environment)

cbVars == <<circuit, slot, consecutive_errors, flow, mgr, failing>>

States == {"CLOSED", "OPEN", "HALF_OPEN"}

(* mgr.known: a record exists.  mgr.elapsed: the timeout has passed since  *)
(* openedAt.  mgr.writing: a HALF_OPEN is on its way to the map.           *)
CircuitInit ==
  /\ circuit = "CLOSED"
  /\ slot = FALSE
  /\ consecutive_errors = [c \in CPUs |-> 0]
  /\ flow = [c \in CPUs |-> "none"]
  /\ mgr = [state |-> "CLOSED", known |-> FALSE, elapsed |-> FALSE, writing |-> FALSE]
  /\ failing = FALSE

-----------------------------------------------------------------------------
(* The data plane. *)

(* lb_policy selects the backend unless its circuit is OPEN. *)
Select(c) ==
  /\ flow[c] = "none"
  /\ circuit # "OPEN"
  /\ flow' = [flow EXCEPT ![c] = "selected"]
  /\ UNCHANGED <<circuit, slot, consecutive_errors, mgr, failing>>

(* The first request only creates the statistics entry. *)
CreateSlot(c) ==
  /\ flow[c] = "selected"
  /\ ~slot
  /\ slot' = TRUE
  /\ flow' = [flow EXCEPT ![c] = "none"]
  /\ UNCHANGED <<circuit, consecutive_errors, mgr, failing>>

(* is_error: the CPU's counter grows, and trips the circuit at the threshold. *)
CountError(c) ==
  LET n == Min({consecutive_errors[c] + 1, Threshold + 1}) IN
  /\ flow[c] = "selected"
  /\ slot
  /\ failing /\ 1 \in ErrorFlags
  /\ consecutive_errors' = [consecutive_errors EXCEPT ![c] = n]
  /\ circuit' = IF n >= Threshold THEN "OPEN" ELSE circuit
  /\ flow' = [flow EXCEPT ![c] = "none"]
  /\ UNCHANGED <<slot, mgr, failing>>

(***************************************************************************)
(* ~is_error, whatever the backend answered: the counter is reset and the  *)
(* map entry is read ...                                                   *)
(***************************************************************************)
CountSuccess(c) ==
  /\ flow[c] = "selected"
  /\ slot
  /\ 0 \in ErrorFlags
  /\ consecutive_errors' = [consecutive_errors EXCEPT ![c] = 0]
  /\ flow' = [flow EXCEPT ![c] = IF circuit = "CLOSED" THEN "none" ELSE "closing"]
  /\ UNCHANGED <<circuit, slot, mgr, failing>>

(* ... and written if it was not CLOSED when it was read. *)
WriteClosed(c) ==
  /\ flow[c] = "closing"
  /\ circuit' = "CLOSED"
  /\ flow' = [flow EXCEPT ![c] = "none"]
  /\ UNCHANGED <<slot, consecutive_errors, mgr, failing>>

Traffic(c) ==
  Select(c) \/ CreateSlot(c) \/ CountError(c) \/ CountSuccess(c) \/ WriteClosed(c)

-----------------------------------------------------------------------------
(* The manager.  tick and NotifyProbeResult hold its mutex. *)

TickForgets ==
  /\ ~mgr.writing
  /\ \/ /\ circuit = "OPEN"
        /\ mgr' = [mgr EXCEPT !.state = "OPEN", !.known = TRUE, !.elapsed = FALSE]
     \/ /\ circuit # "OPEN"
        /\ mgr' = [mgr EXCEPT !.state = circuit, !.known = TRUE, !.elapsed = FALSE]
  /\ UNCHANGED <<circuit, slot, consecutive_errors, flow, failing>>

TickMissesClosed ==
  /\ ~mgr.writing
  /\ \/ /\ circuit = "OPEN" /\ mgr.state # "OPEN"
        /\ mgr' = [mgr EXCEPT !.state = "OPEN", !.known = TRUE, !.elapsed = FALSE]
     \/ /\ circuit = "OPEN" /\ mgr.state = "OPEN" /\ mgr.elapsed
        /\ mgr' = [mgr EXCEPT !.writing = TRUE]
     \/ /\ circuit = "HALF_OPEN" /\ mgr.state # "HALF_OPEN"
        /\ mgr' = [mgr EXCEPT !.state = "HALF_OPEN", !.known = TRUE, !.elapsed = FALSE]
     \/ /\ circuit = "CLOSED" /\ mgr.state = "HALF_OPEN"
        /\ mgr' = [mgr EXCEPT !.state = "CLOSED", !.known = TRUE, !.elapsed = FALSE]
  /\ UNCHANGED <<circuit, slot, consecutive_errors, flow, failing>>

(***************************************************************************)
(* tick, up to what it writes.  An OPEN entry that is new to the manager   *)
(* starts the timeout; one whose timeout has passed is about to become     *)
(* HALF_OPEN; any other difference is only noted (a circuit found CLOSED   *)
(* also starts the slow start of the backend).                             *)
(***************************************************************************)
Tick ==
  /\ ~mgr.writing
  /\ \/ /\ circuit = "OPEN" /\ mgr.state = "OPEN" /\ mgr.elapsed
        /\ mgr' = [mgr EXCEPT !.writing = TRUE]
     \/ /\ circuit # mgr.state \/ ~mgr.known
        /\ mgr' = [mgr EXCEPT !.state = circuit, !.known = TRUE, !.elapsed = FALSE]
  /\ UNCHANGED <<circuit, slot, consecutive_errors, flow, failing>>

WriteHalfOpen ==
  /\ mgr.writing
  /\ circuit' = "HALF_OPEN"
  /\ mgr' = [mgr EXCEPT !.state = "HALF_OPEN", !.elapsed = FALSE, !.writing = FALSE]
  /\ UNCHANGED <<slot, consecutive_errors, flow, failing>>

(* The map update fails: the next tick tries again. *)
WriteFails ==
  /\ mgr.writing
  /\ mgr' = [mgr EXCEPT !.writing = FALSE]
  /\ UNCHANGED <<circuit, slot, consecutive_errors, flow, failing>>

(* openTimeout passes since openedAt. *)
Timeout ==
  /\ mgr.state = "OPEN" /\ ~mgr.elapsed
  /\ mgr' = [mgr EXCEPT !.elapsed = TRUE]
  /\ UNCHANGED <<circuit, slot, consecutive_errors, flow, failing>>

(***************************************************************************)
(* NotifyProbeResult(id, false): probes of a failing backend fail.  A      *)
(* successful probe changes nothing.                                       *)
(***************************************************************************)
NotifyProbeFailed ==
  /\ failing
  /\ ~mgr.writing
  /\ circuit' = "OPEN"
  /\ mgr' = IF mgr.known THEN [mgr EXCEPT !.state = "OPEN", !.elapsed = FALSE] ELSE mgr
  /\ UNCHANGED <<slot, consecutive_errors, flow, failing>>

(* The backend starts or stops failing. *)
Flip ==
  /\ failing' = ~failing
  /\ UNCHANGED <<circuit, slot, consecutive_errors, flow, mgr>>

CircuitNext ==
  \/ \E c \in CPUs : Traffic(c)
  \/ Tick \/ WriteHalfOpen \/ WriteFails \/ Timeout
  \/ NotifyProbeFailed
  \/ Flip

(***************************************************************************)
(* Requests keep arriving on every CPU and end, the manager keeps polling, *)
(* time passes, and the map update, repeated every second, succeeds some   *)
(* day.  No probe result is ever guaranteed to be reported.                *)
(***************************************************************************)
CircuitSpec ==
  /\ CircuitInit /\ [][CircuitNext]_cbVars
  /\ \A c \in CPUs : WF_cbVars(Traffic(c))
  /\ WF_cbVars(Tick) /\ WF_cbVars(Timeout)
  /\ SF_cbVars(WriteHalfOpen)

-----------------------------------------------------------------------------
(* Properties. *)

(***************************************************************************)
(* The breaker lets a backend back in: once it stays well, its circuit     *)
(* comes to rest CLOSED, no matter how trips, late successes, probe        *)
(* reports and polls had interleaved.                                      *)
(***************************************************************************)
ClosesWhenWell == <>[](~failing) => <>[](circuit = "CLOSED")

(***************************************************************************)
(* The manager's view (State, and the slow start it triggers) converges to *)
(* the kernel's map although it samples it and may miss whole episodes.    *)
(***************************************************************************)
ManagerConverges ==
  \A s \in States : <>[](circuit = s) => <>[](mgr.state = s)
=============================================================================
