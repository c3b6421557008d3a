------------------------------- MODULE Proxy -------------------------------
(***************************************************************************)
(* The Python proxy (demo/proxy.py) with the counters it keeps in          *)
(* demo/metrics_store.py and the backends of demo/backends.py.             *)
(*                                                                         *)
(* The proxy is one asyncio event loop, so a coroutine runs from one await *)
(* to the next without interruption: an action here is one such turn.      *)
(* Interleaved are the handlers of client requests (handle), the handlers  *)
(* of operator requests (handle_admin), the health loop and the shutdown.  *)
(* Vnode counts and weights are the subject of Control, token buckets and  *)
(* the operators' budget of RateLimit; in this module a ring is the set of *)
(* backends it holds, every key may hash to any of them, and a bucket may  *)
(* grant or refuse.                                                        *)
(***************************************************************************)
EXTENDS Integers, Sequences, FiniteSets

CONSTANTS
    N,            \* number of backends: BACKENDS of the configuration
    Requests,     \* connections, each with one client request at a time
    Unsafe,       \* the ones that use a method which is not idempotent
    Admins,       \* operators, each with one request at a time
    Threshold,    \* HealthChecker.FAIL_THRESHOLD
    MaxFaults     \* bound: crashes of backends and probes that time out

ASSUME NAssumption == N \in Nat \ {0}
ASSUME RequestsAssumption == Unsafe \subseteq Requests /\ IsFiniteSet(Requests)
ASSUME ThresholdAssumption == Threshold \in Nat \ {0}
ASSUME FaultsAssumption == MaxFaults \in Nat

VARIABLES
    ringHealth,   \* HAring._health
    health,       \* MetricsStore.health
    fails,        \* HealthChecker._fails, counted up to Threshold + 1
    probe,        \* the health loop: which backend it is at, and the answer
    active,       \* MetricsStore._active
    req,          \* the handlers of the client requests
    adm,          \* the handlers of the operator requests
    up,           \* the backend processes that accept connections
    stage,        \* of the proxy's own life
    faults        \* faults that may still happen

vars == <<ringHealth, health, fails, probe, active, req, adm, up,
          stage, faults>>
routing == <<ringHealth, health>>

Backends == 0 .. N - 1

\* What an operator request may ask for, in the order handle_admin acts on it:
\* which backend gets which health.
Order(h) == [backend : Backends, healthy : {h}]
Orders == {<<o>> : o \in Order(TRUE) \cup Order(FALSE)}
              \cup (Order(FALSE) \X Order(TRUE))

\* A connection without a request; "sent" lists the backends that the request
\* in progress was sent to.
Idle == [pc |-> "idle", backend |-> 0, sent |-> <<>>]

Unemployed == [pc |-> "idle", todo |-> <<>>]

InFlight == {"body", "upstream"}
AdminInFlight == {"json", "post"}

Init ==
    /\ ringHealth = [b \in Backends |-> TRUE]
    /\ health = [b \in Backends |-> TRUE]
    /\ fails = [b \in Backends |-> 0]
    /\ probe = [at |-> 0, answer |-> "none"]
    /\ active = [b \in Backends |-> 0]
    /\ req = [r \in Requests |-> Idle]
    /\ adm = [a \in Admins |-> Unemployed]
    /\ up = [b \in Backends |-> TRUE]
    /\ stage = "running"
    /\ faults = MaxFaults

-----------------------------------------------------------------------------
(***************************************************************************)
(* Client requests.                                                        *)
(***************************************************************************)

\* HAring.route: some backend of the ring, and backend 0 when it is empty.
Route ==
    LET ring == {b \in Backends : ringHealth[b]}
    IN  IF ring = {} THEN {0} ELSE ring

\* _next_healthy: the first healthy backend not tried yet, or N for None.
NextHealthy(tried) ==
    LET good == {b \in Backends \ tried : health[b]}
    IN  IF good = {} THEN N ELSE CHOOSE b \in good : \A c \in good : b <= c

\* The handler returned a response (which one is left out) or raised.
Finished(r) == [req EXCEPT ![r] = Idle]

\* handle, up to its first await: route, take a token, wait for the body.
Arrive(r) ==
    /\ stage = "running"
    /\ req[r].pc \notin InFlight
    /\ \E b \in Route :
          \/ req' = [req EXCEPT ![r] = [Idle EXCEPT !.pc = "body", !.backend = b]]
          \/ req' = Finished(r)
    /\ UNCHANGED <<routing, fails, probe, active, adm, up,
                   stage, faults>>

\* request.read() returned: the first attempt starts, on the backend chosen
\* before the wait.
Send(r) ==
    /\ req[r].pc = "body"
    /\ req' = [req EXCEPT ![r].pc = "upstream",
                          ![r].sent = Append(@, req[r].backend)]
    /\ active' = [active EXCEPT ![req[r].backend] = @ + 1]
    /\ UNCHANGED <<routing, fails, probe, adm, up,
                   stage, faults>>

\* request.read() raised: the client is gone.
BodyLost(r) ==
    /\ req[r].pc = "body"
    /\ req' = Finished(r)
    /\ UNCHANGED <<routing, fails, probe, active, adm, up,
                   stage, faults>>

\* Mutant: no timeout on a backend that does not answer.
OutcomesHang(b) == IF up[b] THEN {"2xx", "5xx", "error", "broken"} ELSE {}

\* What the call of a backend can come to: "error" is a refused connection or
\* a timeout, "broken" any other exception. A backend answers 503 at random,
\* and always after kill_backend told it to (error_pct 90 plus 15).
Outcomes(b) == IF up[b] THEN {"2xx", "5xx", "error", "broken"} ELSE {"error"}

\* record_request_end on one backend and, if the request goes on,
\* record_request_start on the next.
Accounted(b, next) ==
    active' = [c \in Backends |->
                 LET ended == IF c = b /\ active[c] > 0
                              THEN active[c] - 1 ELSE active[c]
                 IN  IF c = next THEN ended + 1 ELSE ended]

\* Mutant: the retry does not look at the method.
AttemptedAlways(r, outcome) ==
    LET b == req[r].backend
        alt == IF Len(req[r].sent) = 1 /\ outcome \in {"5xx", "error"}
               THEN NextHealthy({b}) ELSE N
    IN  IF alt = N
        THEN Accounted(b, N) /\ req' = Finished(r)
        ELSE /\ Accounted(b, alt)
             /\ req' = [req EXCEPT ![r].backend = alt,
                                   ![r].sent = Append(@, alt)]

\* Mutant: the last except clause does not record the end of the request.
AttemptedLeak(r, outcome) ==
    LET b == req[r].backend
    IN  /\ IF outcome = "broken" THEN UNCHANGED active ELSE Accounted(b, N)
        /\ req' = Finished(r)

\* The end of one attempt: answer the client, or try another backend once.
\* A request that may not be retried leaves the loop by the same "continue"
\* and is answered by the line after it.
Attempted(r, outcome) ==
    LET b == req[r].backend
        first == Len(req[r].sent) = 1
        alt == IF first /\ outcome \in {"5xx", "error"}
               THEN NextHealthy({b}) ELSE N
    IN  IF alt = N \/ r \in Unsafe
        THEN /\ Accounted(b, N)
             /\ req' = Finished(r)
        ELSE /\ Accounted(b, alt)
             /\ req' = [req EXCEPT ![r].backend = alt,
                                   ![r].sent = Append(@, alt)]

Respond(r) ==
    /\ req[r].pc = "upstream"
    /\ \E outcome \in Outcomes(req[r].backend) : Attempted(r, outcome)
    /\ UNCHANGED <<routing, fails, probe, adm, up, stage, faults>>

-----------------------------------------------------------------------------
(***************************************************************************)
(* The health loop: one backend after the other, an await at each.         *)
(***************************************************************************)

SetHealth(b, h) ==
    /\ ringHealth' = [ringHealth EXCEPT ![b] = h]
    /\ health' = [health EXCEPT ![b] = h]

\* GET /_health: handle_health answers "ok" whatever the backend's state.
ProbeAnswered ==
    /\ stage # "stopped"
    /\ probe.answer = "none"
    /\ probe' = [probe EXCEPT !.answer = IF up[probe.at] THEN "ok" ELSE "fail"]
    /\ UNCHANGED <<routing, fails, active, req, adm, up,
                   stage, faults>>

\* The two-second timeout strikes although the backend is there.
ProbeTimeout ==
    /\ stage # "stopped"
    /\ probe.answer = "none"
    /\ up[probe.at]
    /\ faults > 0
    /\ faults' = faults - 1
    /\ probe' = [probe EXCEPT !.answer = "fail"]
    /\ UNCHANGED <<routing, fails, active, req, adm, up, stage>>

\* Mutant: a backend is taken out at the failure that reaches the threshold,
\* not at a later one.
ProbeAppliedExactly ==
    LET b == probe.at
        count == IF probe.answer = "ok" THEN 0
                 ELSE IF fails[b] <= Threshold THEN fails[b] + 1 ELSE fails[b]
    IN  /\ stage # "stopped"
        /\ probe.answer # "none"
        /\ fails' = [fails EXCEPT ![b] = count]
        /\ CASE probe.answer = "ok" /\ ~health[b] -> SetHealth(b, TRUE)
             [] count = Threshold /\ health[b] -> SetHealth(b, FALSE)
             [] OTHER -> UNCHANGED routing
        /\ probe' = [at |-> (b + 1) % N, answer |-> "none"]
        /\ UNCHANGED <<active, req, adm, up, stage, faults>>

\* The answer reaches the coroutine, which goes on to the next backend.
ProbeApplied ==
    LET b == probe.at
        count == IF probe.answer = "ok" THEN 0
                 ELSE IF fails[b] <= Threshold THEN fails[b] + 1 ELSE fails[b]
    IN  /\ stage # "stopped"
        /\ probe.answer # "none"
        /\ fails' = [fails EXCEPT ![b] = count]
        /\ CASE probe.answer = "ok" /\ ~health[b] -> SetHealth(b, TRUE)
             [] count >= Threshold /\ health[b] -> SetHealth(b, FALSE)
             [] OTHER -> UNCHANGED routing
        /\ probe' = [at |-> (b + 1) % N, answer |-> "none"]
        /\ UNCHANGED <<active, req, adm, up, stage, faults>>

-----------------------------------------------------------------------------
(***************************************************************************)
(* Operator requests.                                                      *)
(***************************************************************************)

\* handle_admin up to its first await: the address, the limiter (its counts are
\* in RateLimit) and the token may each turn the operator away, which changes
\* nothing here.
AdminCheck(a) ==
    /\ stage = "running"
    /\ adm[a].pc = "idle"
    /\ adm' = [adm EXCEPT ![a].pc = "json"]
    /\ UNCHANGED <<routing, fails, probe, active, req, up, stage, faults>>

\* The next order of the list takes effect in the proxy, before the backend
\* is told; with nothing left to do the operator is answered.
Ordered(a, todo) ==
    IF todo = <<>>
    THEN /\ adm' = [adm EXCEPT ![a] = Unemployed]
         /\ UNCHANGED routing
    ELSE /\ SetHealth(Head(todo).backend, Head(todo).healthy)
         /\ adm' = [adm EXCEPT ![a] = [pc |-> "post", todo |-> todo]]

\* request.json() returned, or failed to parse.
AdminParsed(a) ==
    /\ adm[a].pc = "json"
    /\ \/ \E todo \in Orders : Ordered(a, todo)
       \/ /\ adm' = [adm EXCEPT ![a] = Unemployed]
          /\ UNCHANGED routing
    /\ UNCHANGED <<fails, probe, active, req, up, stage, faults>>

\* The POST to the backend's /_admin is answered: go on with the next order.
AdminPosted(a) ==
    /\ adm[a].pc = "post"
    /\ up[Head(adm[a].todo).backend]
    /\ Ordered(a, Tail(adm[a].todo))
    /\ UNCHANGED <<fails, probe, active, req, up, stage, faults>>

\* The POST failed: the operator sees 400, what was set before stays set and
\* the rest of the orders is dropped.
AdminFailed(a) ==
    /\ adm[a].pc = "post"
    /\ adm' = [adm EXCEPT ![a] = Unemployed]
    /\ UNCHANGED <<routing, fails, probe, active, req, up, stage, faults>>

-----------------------------------------------------------------------------
(***************************************************************************)
(* Shutdown: the signal, AppRunner.cleanup, the end of the client session. *)
(***************************************************************************)

Busy == \/ \E r \in Requests : req[r].pc \in InFlight
        \/ \E a \in Admins : adm[a].pc \in AdminInFlight

Signal ==
    /\ stage = "running"
    /\ stage' = "draining"
    /\ UNCHANGED <<routing, fails, probe, active, req, adm, up,
                   faults>>

\* cleanup waits for the handlers and cancels the ones that take too long: a
\* cancelled handler leaves its attempt without record_request_end.
Cleanup ==
    /\ stage = "draining"
    /\ stage' = "drained"
    /\ req' = [r \in Requests |->
                 IF req[r].pc \in InFlight THEN Idle ELSE req[r]]
    /\ adm' = [a \in Admins |-> Unemployed]
    /\ UNCHANGED <<routing, fails, probe, active, up, faults>>

\* OmegaLBProxy.close, after which asyncio.run ends the loop.
Close ==
    /\ stage = "drained"
    /\ stage' = "stopped"
    /\ UNCHANGED <<routing, fails, probe, active, req, adm, up,
                   faults>>

-----------------------------------------------------------------------------
(***************************************************************************)
(* What the proxy does not control.                                        *)
(***************************************************************************)

Crash(b) ==
    /\ up[b]
    /\ faults > 0
    /\ faults' = faults - 1
    /\ up' = [up EXCEPT ![b] = FALSE]
    /\ UNCHANGED <<routing, fails, probe, active, req, adm, stage>>

Restart(b) ==
    /\ ~up[b]
    /\ up' = [up EXCEPT ![b] = TRUE]
    /\ UNCHANGED <<routing, fails, probe, active, req, adm, stage,
                   faults>>

Probe == ProbeAnswered \/ ProbeApplied
Administer(a) == AdminParsed(a) \/ AdminPosted(a) \/ AdminFailed(a)

Next ==
    \/ \E r \in Requests : Arrive(r) \/ Send(r) \/ Respond(r) \/ BodyLost(r)
    \/ \E a \in Admins : AdminCheck(a) \/ Administer(a)
    \/ Probe \/ ProbeTimeout
    \/ Signal \/ Cleanup \/ Close
    \/ \E b \in Backends : Crash(b) \/ Restart(b)

(***************************************************************************)
(* The event loop runs every coroutine that can go on; the timeouts of the *)
(* client session end every call of a backend. Nobody promises that a      *)
(* client or an operator sends the request it began, nor that a signal or  *)
(* a restart comes.                                                        *)
(***************************************************************************)
Fairness ==
    /\ \A r \in Requests : WF_vars(Respond(r))
    /\ WF_vars(Probe)
    /\ WF_vars(Cleanup)
    /\ WF_vars(Close)

Spec == Init /\ [][Next]_vars /\ Fairness

-----------------------------------------------------------------------------
ProxyTypeOK ==
    /\ ringHealth \in [Backends -> BOOLEAN]
    /\ health \in [Backends -> BOOLEAN]
    /\ fails \in [Backends -> 0 .. Threshold + 1]
    /\ probe \in [at : Backends, answer : {"none", "ok", "fail"}]
    /\ active \in [Backends -> Nat]
    /\ req \in [Requests -> [pc : {"idle"} \cup InFlight,
                             backend : Backends, sent : Seq(Backends)]]
    /\ adm \in [Admins -> [pc : {"idle"} \cup AdminInFlight,
                           todo : {<<>>} \cup Orders]]
    /\ up \in [Backends -> BOOLEAN]
    /\ stage \in {"running", "draining", "drained", "stopped"}
    /\ faults \in Nat

\* At every await the ring and the metrics agree on who is healthy, although
\* the health loop and any number of operator requests write both.
HealthInStep == ringHealth = health

\* Until handlers are cancelled, the number of requests in flight that the
\* load of a backend is computed from is the number of attempts it has to
\* answer, whichever way earlier ones ended or moved to another backend.
ActiveAccounted ==
    stage \in {"running", "draining"} =>
        \A b \in Backends :
            active[b] = Cardinality({r \in Requests :
                            req[r].pc = "upstream" /\ req[r].backend = b})

\* The client session is closed only when nobody uses it any more.
SessionOutlivesHandlers == stage = "stopped" => ~Busy

\* What the proxy keeps in several places agrees at every await: ring and
\* metrics on health, the counters of load and the attempts under way, the
\* session and the handlers that use it.
ProxyInv == ProxyTypeOK /\ HealthInStep /\ ActiveAccounted /\ SessionOutlivesHandlers

\* A request whose method is not idempotent reaches a backend at most once; any
\* other at most two, which differ.
AtMostOnce ==
    \A r \in Requests :
        /\ r \in Unsafe => Len(req[r].sent) <= 1
        /\ Len(req[r].sent) <= 2
        /\ Len(req[r].sent) = 2 => req[r].sent[1] # req[r].sent[2]

\* Every request the proxy has passed to a backend gets an answer, also when
\* that backend and the one tried next die or the proxy is told to stop; and a
\* proxy that is told to stop does.
Completes ==
    /\ \A r \in Requests : req[r].pc = "upstream" ~> req[r].pc # "upstream"
    /\ stage = "draining" ~> stage = "stopped"

\* Once the operators rest, a backend that stays down leaves the ring for good
\* and one that stays up is in it for good. (So an operator's kill_backend
\* lasts until the next probe: /_health of a killed backend still answers.)
Rest == stage = "running" /\ \A a \in Admins : adm[a].pc = "idle"

HealthConverges ==
    \A b \in Backends :
        /\ <>[](~up[b] /\ Rest) => <>[](~health[b])
        /\ <>[](up[b] /\ Rest) => <>[](health[b])
=============================================================================
