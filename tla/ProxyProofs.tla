----------------------------- MODULE ProxyProofs -----------------------------
(***************************************************************************)
(* ProxyInv and AtMostOnce of Proxy for every number of backends, every    *)
(* finite set of connections and every number of faults.                   *)
(*                                                                         *)
(* Neither is inductive.  The load counters follow the handlers only if    *)
(* one that is not waiting for a backend holds no attempt; a request has   *)
(* been tried at most twice only because its last attempt is on the        *)
(* backend it now waits for; and the session outlives its users because    *)
(* cleanup leaves none behind.                                             *)
(***************************************************************************)
EXTENDS Proxy, FiniteSetTheorems, WellFoundedInduction, TLAPS

\* The backends handler r, in state p, has sent its request to: none before it
\* waits for one; then the one it waits for, after at most one other, and that
\* only if the method allows it.
Attempts(r, p) ==
    IF p.pc # "upstream" THEN Len(p.sent) = 0
    ELSE \/ Len(p.sent) = 1 /\ p.sent[1] = p.backend
         \/ /\ Len(p.sent) = 2 /\ r \notin Unsafe
            /\ p.sent[1] # p.sent[2] /\ p.sent[2] = p.backend

AttemptsTracked == \A r \in Requests : Attempts(r, req[r])

\* An operator request that waits for a backend has an order to give it.
OrdersPending == \A a \in Admins : adm[a].pc = "post" => adm[a].todo \in Orders

\* After cleanup no handler is left.
NoneLeft == stage \in {"drained", "stopped"} => ~Busy

ProxyIInv ==
    /\ ProxyTypeOK
    /\ HealthInStep
    /\ ActiveAccounted
    /\ AttemptsTracked
    /\ OrdersPending
    /\ NoneLeft

-----------------------------------------------------------------------------
\* _next_healthy returns None or a backend that was not tried.
LEMMA NextHealthyUntried ==
    ASSUME NEW tried
    PROVE  NextHealthy(tried) = N \/ NextHealthy(tried) \in Backends \ tried
  <1> DEFINE good == {b \in Backends \ tried : health[b]}
  <1>1. CASE good = {}
    BY <1>1 DEF NextHealthy
  <1>2. CASE good # {}
    <2>1. good \subseteq Nat
      BY NAssumption DEF Backends
    <2>2. PICK b \in good : \A c \in good : ~(<<c, b>> \in OpToRel(<, Nat))
      BY <1>2, <2>1, NatLessThanWellFounded, WFMin
    <2>3. \A c \in good : ~(c < b)
      BY <2>1, <2>2, Zenon DEF OpToRel
    <2>4. NextHealthy(tried) = CHOOSE x \in good : \A c \in good : x <= c
      BY <1>2 DEF NextHealthy
    <2>5. \A c \in good : b <= c
      BY <2>1, <2>3
    <2>6. NextHealthy(tried) \in good
      BY <2>4, <2>5
    <2> QED
      BY <2>6
  <1> QED
    BY <1>1, <1>2

\* What an operator asks for names a backend, and what is left after the
\* first order is nothing or again a list of orders.
LEMMA OrderParts ==
    ASSUME NEW o \in Orders
    PROVE  /\ o # <<>>
           /\ Head(o).backend \in Backends /\ Head(o).healthy \in BOOLEAN
           /\ Tail(o) \in {<<>>} \cup Orders
  <1>1. CASE o \in {<<x>> : x \in Order(TRUE) \cup Order(FALSE)}
    <2>1. PICK x \in Order(TRUE) \cup Order(FALSE) : o = <<x>>
      BY <1>1
    <2>2. x.backend \in Backends /\ x.healthy \in BOOLEAN
      BY <2>1 DEF Order
    <2>3. Head(o) = x /\ Tail(o) = <<>> /\ o # <<>>
      BY <2>1
    <2> QED
      BY <2>2, <2>3
  <1>2. CASE o \in Order(FALSE) \X Order(TRUE)
    <2>1. o = <<o[1], o[2]>> /\ o[1] \in Order(FALSE) /\ o[2] \in Order(TRUE)
      <3> DEFINE A == Order(FALSE)
                 B == Order(TRUE)
      <3>1. o \in A \X B
        BY <1>2
      <3> HIDE DEF A, B
      <3>2. o = <<o[1], o[2]>> /\ o[1] \in A /\ o[2] \in B
        BY <3>1
      <3> QED
        BY <3>2 DEF A, B
    <2>2. o[1].backend \in Backends /\ o[1].healthy \in BOOLEAN
      BY <2>1 DEF Order
    <2>3. Head(o) = o[1] /\ Tail(o) = <<o[2]>> /\ o # <<>>
      <3> DEFINE x == o[1]
                 y == o[2]
      <3>1. o = <<x, y>>
        BY <2>1
      <3> HIDE DEF x, y
      <3>2. Head(<<x, y>>) = x /\ Tail(<<x, y>>) = <<y>> /\ <<x, y>> # <<>>
        OBVIOUS
      <3> QED
        BY <3>1, <3>2 DEF x, y
    <2>4. <<o[2]>> \in Orders
      BY <2>1 DEF Orders
    <2> QED
      BY <2>2, <2>3, <2>4
  <1> QED
    BY <1>1, <1>2 DEF Orders

-----------------------------------------------------------------------------
\* The handlers that wait for backend b.
Attempting(b) == {r \in Requests : req[r].pc = "upstream" /\ req[r].backend = b}

Handler == [pc : {"idle"} \cup InFlight, backend : Backends, sent : Seq(Backends)]

Waits(p, b) == p.pc = "upstream" /\ p.backend = b

\* If one handler moves, the number of those that wait for a backend changes by
\* the one that left it and the one that came to it.
LEMMA LoadMoves ==
    ASSUME ProxyTypeOK, NEW r \in Requests, NEW p, req' = [req EXCEPT ![r] = p], NEW b
    PROVE  /\ Cardinality(Attempting(b)) \in Nat
           /\ r \in Attempting(b) => Cardinality(Attempting(b)) > 0
           /\ Cardinality(Attempting(b)') =
                Cardinality(Attempting(b))
                  + (IF Waits(p, b) THEN 1 ELSE 0)
                  - (IF r \in Attempting(b) THEN 1 ELSE 0)
  <1> DEFINE S == Attempting(b)
  <1>1. IsFiniteSet(S)
    BY FS_Subset, RequestsAssumption DEF Attempting
  <1>2. Cardinality(S) \in Nat
    BY <1>1, FS_CardinalityType
  <1>3. /\ IsFiniteSet(S \ {r})
        /\ Cardinality(S \ {r}) = IF r \in S THEN Cardinality(S) - 1 ELSE Cardinality(S)
    BY <1>1, FS_RemoveElement
  <1>4. Cardinality((S \ {r}) \cup {r}) = Cardinality(S \ {r}) + 1
    BY <1>3, FS_AddElement
  <1>5. Cardinality(S \ {r}) \in Nat
    BY <1>3, FS_CardinalityType
  <1>6. S' = IF Waits(p, b) THEN (S \ {r}) \cup {r} ELSE S \ {r}
    BY DEF ProxyTypeOK, Attempting, Waits
  <1> HIDE DEF S
  <1>7. Cardinality(S') = IF Waits(p, b)
                          THEN Cardinality(S \ {r}) + 1 ELSE Cardinality(S \ {r})
    BY <1>4, <1>6
  <1>8. /\ r \in S => Cardinality(S) > 0
        /\ Cardinality(S') = Cardinality(S)
             + (IF Waits(p, b) THEN 1 ELSE 0)
             - (IF r \in S THEN 1 ELSE 0)
    BY <1>2, <1>3, <1>5, <1>7
  <1> QED
    BY <1>2, <1>8 DEF S

-----------------------------------------------------------------------------
LEMMA InitProxy == Init => ProxyIInv
  <1> SUFFICES ASSUME Init
               PROVE  ProxyIInv
    OBVIOUS
  <1>1. 0 \in Backends
    BY NAssumption DEF Backends
  <1>2. ProxyTypeOK
    BY <1>1, NAssumption, ThresholdAssumption, FaultsAssumption
    DEF Init, ProxyTypeOK, Idle, Unemployed, InFlight, AdminInFlight
  <1>3. ActiveAccounted
    <2>1. \A b \in Backends : {r \in Requests : req[r].pc = "upstream" /\ req[r].backend = b} = {}
      BY DEF Init, Idle
    <2> QED
      BY <2>1, FS_EmptySet DEF ActiveAccounted, Init
  <1>4. HealthInStep /\ AttemptsTracked /\ OrdersPending /\ NoneLeft
    BY DEF Init, HealthInStep, AttemptsTracked, Attempts, OrdersPending, NoneLeft,
           Idle, Unemployed
  <1> QED
    BY <1>2, <1>3, <1>4 DEF ProxyIInv

\* "active" counts handler r, which moves to p, where it waits now.
LoadFollows(r, p) ==
    /\ active' \in [Backends -> Int]
    /\ \A b \in Backends :
          active'[b] = active[b] + (IF Waits(p, b) THEN 1 ELSE 0)
                                 - (IF r \in Attempting(b) THEN 1 ELSE 0)

elsewhere == <<routing, fails, probe, adm, up, stage, faults>>

\* What a step that moves handler r to p must show: the rest of the invariant
\* follows.
LEMMA HandlerMoves ==
    ASSUME ProxyIInv, NEW r \in Requests, NEW p,
           stage \notin {"drained", "stopped"},
           p \in Handler,
           req' = [req EXCEPT ![r] = p],
           Attempts(r, p),
           LoadFollows(r, p),
           UNCHANGED elsewhere
    PROVE  ProxyIInv'
  <1>1. \A b \in Backends : active[b] = Cardinality(Attempting(b))
    BY DEF ProxyIInv, ProxyTypeOK, ActiveAccounted, Attempting
  <1>2. ProxyTypeOK
    BY DEF ProxyIInv
  <1>3. ASSUME NEW b \in Backends
        PROVE  active'[b] \in Nat /\ active'[b] = Cardinality(Attempting(b)')
    <2> DEFINE n == Cardinality(Attempting(b))
               d == IF Waits(p, b) THEN 1 ELSE 0
               e == IF r \in Attempting(b) THEN 1 ELSE 0
    <2>1. /\ n \in Nat /\ (r \in Attempting(b) => n > 0)
          /\ Cardinality(Attempting(b)') = n + d - e
      BY <1>2, LoadMoves
    <2>2. active'[b] = active[b] + d - e /\ active[b] = n
      BY <1>1 DEF LoadFollows
    <2>3. n + d - e \in Nat
      BY <2>1
    <2> HIDE DEF n, d, e
    <2> QED
      BY <2>1, <2>2, <2>3
  <1>4. ActiveAccounted'
    BY <1>3 DEF ActiveAccounted, Attempting
  <1>5. ProxyTypeOK'
    <2>1. active' \in [Backends -> Nat]
      BY <1>3 DEF LoadFollows
    <2>2. req' \in [Requests -> Handler]
      BY <1>2 DEF ProxyTypeOK, Handler
    <2> QED
      BY <1>2, <2>1, <2>2 DEF ProxyTypeOK, Handler, elsewhere, routing
  <1>6. AttemptsTracked'
    <2>1. ASSUME NEW s \in Requests, s # r
          PROVE  Attempts(s, req'[s])
      <3>1. req'[s] = req[s]
        BY <1>2, <2>1 DEF ProxyTypeOK
      <3> QED
        BY <3>1 DEF ProxyIInv, AttemptsTracked
    <2>2. req'[r] = p
      BY <1>2 DEF ProxyTypeOK
    <2> QED
      BY <2>1, <2>2 DEF AttemptsTracked, Attempts
  <1>7. HealthInStep' /\ OrdersPending' /\ NoneLeft'
    <2>1. \A s \in Requests : req'[s] = IF s = r THEN p ELSE req[s]
      BY <1>2 DEF ProxyTypeOK
    <2> QED
      BY <2>1 DEF ProxyIInv, HealthInStep, OrdersPending, NoneLeft, elsewhere, routing
  <1> QED
    BY <1>4, <1>5, <1>6, <1>7 DEF ProxyIInv

\* While a handler is left the proxy has not been cleaned up.
LEMMA InFlightStage ==
    ASSUME ProxyIInv, NEW r \in Requests, req[r].pc \in InFlight
    PROVE  stage \in {"running", "draining"} /\ stage \notin {"drained", "stopped"}
  BY DEF ProxyIInv, NoneLeft, Busy, ProxyTypeOK

\* A handler that is not waiting for a backend does not count.
LEMMA NotCounted ==
    ASSUME ProxyIInv, NEW r \in Requests, req[r].pc # "upstream",
           NEW p, p.pc # "upstream", active' = active
    PROVE  LoadFollows(r, p)
  BY DEF ProxyIInv, ProxyTypeOK, LoadFollows, Waits, Attempting

LEMMA IdleHandler == Idle \in Handler /\ Idle.pc = "idle" /\ \A r : Attempts(r, Idle)
  BY NAssumption DEF Idle, Handler, Backends, Attempts

LEMMA ArriveKeeps ==
    ASSUME ProxyIInv, NEW r \in Requests, Arrive(r)
    PROVE  ProxyIInv'
  <1>1. /\ req[r].pc # "upstream" /\ stage \notin {"drained", "stopped"}
        /\ active' = active /\ UNCHANGED elsewhere
    BY DEF Arrive, InFlight, elsewhere
  <1>2. Route \subseteq Backends
    BY NAssumption DEF Route, Backends
  <1>3. PICK b \in Route : \/ req' = [req EXCEPT ![r] = [Idle EXCEPT !.pc = "body", !.backend = b]]
                          \/ req' = Finished(r)
    BY DEF Arrive
  <1>4. CASE req' = Finished(r)
    BY <1>1, <1>4, IdleHandler, NotCounted, HandlerMoves DEF Finished
  <1>5. CASE req' = [req EXCEPT ![r] = [Idle EXCEPT !.pc = "body", !.backend = b]]
    <2> DEFINE p == [Idle EXCEPT !.pc = "body", !.backend = b]
    <2>1. Idle \in Handler /\ Len(Idle.sent) = 0
      BY IdleHandler DEF Attempts
    <2>2. p \in Handler /\ p.pc # "upstream" /\ Attempts(r, p)
      BY <1>2, <2>1 DEF Handler, InFlight, Attempts
    <2> HIDE DEF p
    <2>3. LoadFollows(r, p)
      BY <1>1, <2>2, NotCounted
    <2>4. req' = [req EXCEPT ![r] = p]
      BY <1>5 DEF p
    <2> QED
      BY <1>1, <2>2, <2>3, <2>4, HandlerMoves
  <1> QED
    BY <1>3, <1>4, <1>5

LEMMA BodyLostKeeps ==
    ASSUME ProxyIInv, NEW r \in Requests, BodyLost(r)
    PROVE  ProxyIInv'
  <1>1. req[r].pc # "upstream" /\ active' = active /\ UNCHANGED elsewhere
    BY DEF BodyLost, elsewhere
  <1>2. stage \notin {"drained", "stopped"}
    BY InFlightStage DEF BodyLost, InFlight
  <1>3. req' = [req EXCEPT ![r] = Idle]
    BY DEF BodyLost, Finished
  <1> QED
    BY <1>1, <1>2, <1>3, IdleHandler, NotCounted, HandlerMoves

LEMMA SendKeeps ==
    ASSUME ProxyIInv, NEW r \in Requests, Send(r)
    PROVE  ProxyIInv'
  <1> DEFINE b0 == req[r].backend
             sent == Append(req[r].sent, b0)
             p == [req[r] EXCEPT !.pc = "upstream", !.sent = sent]
  <1>1. /\ req[r] \in Handler /\ req[r].sent \in Seq(Backends) /\ b0 \in Backends
        /\ req[r].pc = "body" /\ Len(req[r].sent) = 0
    BY DEF ProxyIInv, ProxyTypeOK, Handler, Send, AttemptsTracked, Attempts
  <1>2. stage \notin {"drained", "stopped"} /\ UNCHANGED elsewhere
    BY <1>1, InFlightStage DEF InFlight, Send, elsewhere
  <1>3. req' = [req EXCEPT ![r] = p]
    BY DEF Send
  <1>4. sent \in Seq(Backends)
    BY <1>1
  <1> HIDE DEF sent
  <1>5. p \in Handler /\ p.pc = "upstream" /\ p.backend = b0 /\ p.sent = sent
    BY <1>1, <1>4 DEF Handler, InFlight
  <1> HIDE DEF p
  <1>6. Attempts(r, p)
    BY <1>1, <1>5 DEF Attempts, sent
  <1>7. LoadFollows(r, p)
    BY <1>1, <1>5 DEF ProxyIInv, ProxyTypeOK, Send, LoadFollows, Waits, Attempting
  <1> QED
    BY <1>2, <1>3, <1>5, <1>6, <1>7, HandlerMoves

\* An answer ends the attempt; the next one, if any, is the second, is on
\* another backend, and only for a method that allows it.
LEMMA RespondKeeps ==
    ASSUME ProxyIInv, NEW r \in Requests, Respond(r)
    PROVE  ProxyIInv'
  <1> DEFINE b0 == req[r].backend
  <1>1. /\ req[r] \in Handler /\ req[r].sent \in Seq(Backends) /\ b0 \in Backends
        /\ req[r].pc = "upstream" /\ Attempts(r, req[r]) /\ active \in [Backends -> Nat]
    BY DEF ProxyIInv, ProxyTypeOK, Handler, Respond, AttemptsTracked
  <1>2. /\ stage \in {"running", "draining"} /\ stage \notin {"drained", "stopped"}
        /\ UNCHANGED elsewhere
    BY <1>1, InFlightStage DEF InFlight, Respond, elsewhere
  <1>3. \A b : r \in Attempting(b) <=> b = b0
    BY <1>1 DEF Attempting
  <1>4. active[b0] > 0
    <2>1. active[b0] = Cardinality(Attempting(b0))
      BY <1>1, <1>2 DEF ProxyIInv, ActiveAccounted, Attempting
    <2>2. IsFiniteSet(Attempting(b0))
      BY FS_Subset, RequestsAssumption DEF Attempting
    <2>3. Attempting(b0) # {}
      BY <1>3
    <2>4. active[b0] # 0
      BY <2>1, <2>2, <2>3, FS_EmptySet
    <2> QED
      BY <1>1, <2>4
  <1>5. N \notin Backends
    BY NAssumption DEF Backends
  <1>6. PICK outcome : Attempted(r, outcome)
    BY DEF Respond
  <1>7. CASE Accounted(b0, N) /\ req' = Finished(r)
    <2>1. LoadFollows(r, Idle)
      BY <1>1, <1>3, <1>4, <1>5, <1>7, IdleHandler DEF Accounted, LoadFollows, Waits
    <2> QED
      BY <1>2, <1>7, <2>1, IdleHandler, HandlerMoves DEF Finished
  <1>8. CASE ~(Accounted(b0, N) /\ req' = Finished(r))
    <2> DEFINE alt == NextHealthy({b0})
               sent == Append(req[r].sent, alt)
               p == [req[r] EXCEPT !.backend = alt, !.sent = sent]
    <2>1. /\ r \notin Unsafe /\ Len(req[r].sent) = 1 /\ alt # N
          /\ Accounted(b0, alt)
          /\ req' = [req EXCEPT ![r].backend = alt, ![r].sent = Append(@, alt)]
      BY <1>6, <1>8 DEF Attempted
    <2>2. alt \in Backends \ {b0}
      BY <2>1, NextHealthyUntried
    <2>3. req' = [req EXCEPT ![r] = p]
      BY <2>1
    <2>4. req[r].sent[1] = b0
      BY <1>1, <2>1 DEF Attempts
    <2> HIDE DEF alt
    <2>5. sent \in Seq(Backends)
      BY <1>1, <2>2
    <2> HIDE DEF sent
    <2>6. p \in Handler /\ p.pc = "upstream" /\ p.backend = alt /\ p.sent = sent
      BY <1>1, <2>2, <2>5 DEF Handler, InFlight
    <2> HIDE DEF p
    <2>7. Attempts(r, p)
      BY <1>1, <2>1, <2>2, <2>4, <2>6 DEF Attempts, sent
    <2>8. LoadFollows(r, p)
      BY <1>1, <1>3, <1>4, <2>1, <2>2, <2>6 DEF Accounted, LoadFollows, Waits
    <2> QED
      BY <1>2, <2>3, <2>6, <2>7, <2>8, HandlerMoves
  <1> QED
    BY <1>7, <1>8

-----------------------------------------------------------------------------
\* A step that leaves the handlers of client requests alone has to show less.
LEMMA HandlersRest ==
    ASSUME ProxyIInv, UNCHANGED <<active, req>>, ProxyTypeOK', HealthInStep',
           OrdersPending', NoneLeft',
           stage' \in {"running", "draining"} => stage \in {"running", "draining"}
    PROVE  ProxyIInv'
  BY DEF ProxyIInv, ActiveAccounted, AttemptsTracked, Attempts

\* The health loop writes ring and metrics in one turn.
LEMMA ProbeKeeps ==
    ASSUME ProxyIInv, Probe \/ ProbeTimeout
    PROVE  ProxyIInv'
  <1>1. ProxyTypeOK /\ HealthInStep /\ probe.at \in Backends
    BY DEF ProxyIInv, ProxyTypeOK
  <1>2. UNCHANGED <<active, req, adm, up, stage>>
    BY DEF Probe, ProbeTimeout, ProbeAnswered, ProbeApplied
  <1>3. OrdersPending' /\ NoneLeft'
    BY <1>2 DEF ProxyIInv, OrdersPending, NoneLeft, Busy
  <1>4. CASE ProbeAnswered \/ ProbeTimeout
    <2>1. UNCHANGED <<routing, fails>> /\ faults' \in Nat
      BY <1>1, <1>4 DEF ProbeAnswered, ProbeTimeout, ProxyTypeOK
    <2>2. probe' \in [at : Backends, answer : {"none", "ok", "fail"}]
      BY <1>1, <1>4 DEF ProbeAnswered, ProbeTimeout, ProxyTypeOK
    <2>3. ProxyTypeOK' /\ HealthInStep'
      BY <1>1, <1>2, <2>1, <2>2 DEF ProxyTypeOK, HealthInStep, routing
    <2> QED
      BY <1>2, <1>3, <2>3, HandlersRest
  <1>5. CASE ProbeApplied
    <2> DEFINE b == probe.at
               count == IF probe.answer = "ok" THEN 0
                        ELSE IF fails[b] <= Threshold THEN fails[b] + 1 ELSE fails[b]
    <2>1. /\ fails' = [fails EXCEPT ![b] = count]
          /\ probe' = [at |-> (b + 1) % N, answer |-> "none"]
          /\ faults' = faults
      BY <1>5 DEF ProbeApplied
    <2>2. count \in 0 .. Threshold + 1
      BY <1>1, ThresholdAssumption DEF ProxyTypeOK
    <2>3. (b + 1) % N \in Backends
      BY <1>1, NAssumption DEF Backends
    <2>4. UNCHANGED routing \/ \E h \in BOOLEAN : SetHealth(b, h)
      BY <1>5 DEF ProbeApplied
    <2>5. /\ ringHealth' \in [Backends -> BOOLEAN] /\ health' \in [Backends -> BOOLEAN]
          /\ HealthInStep'
      BY <1>1, <2>4 DEF ProxyTypeOK, HealthInStep, SetHealth, routing
    <2>6. ProxyTypeOK'
      <3> HIDE DEF count
      <3> QED
        BY <1>1, <1>2, <2>1, <2>2, <2>3, <2>5 DEF ProxyTypeOK
    <2> QED
      BY <1>2, <1>3, <2>5, <2>6, HandlersRest
  <1> QED
    BY <1>4, <1>5 DEF Probe

\* handle_admin writes ring and metrics in one turn, then waits for a backend
\* with orders left to give.
LEMMA AdminKeeps ==
    ASSUME ProxyIInv, NEW a \in Admins, AdminCheck(a) \/ Administer(a)
    PROVE  ProxyIInv'
  <1> DEFINE Operator == [pc : {"idle"} \cup AdminInFlight, todo : {<<>>} \cup Orders]
  <1>1. ProxyTypeOK /\ HealthInStep /\ OrdersPending /\ NoneLeft
    BY DEF ProxyIInv
  <1>2. UNCHANGED <<fails, probe, active, req, up, stage, faults>>
    BY DEF AdminCheck, Administer, AdminParsed, AdminPosted, AdminFailed
  <1>3. stage \notin {"drained", "stopped"}
    BY <1>1 DEF AdminCheck, Administer, AdminParsed, AdminPosted, AdminFailed,
                NoneLeft, Busy, AdminInFlight
  <1>4. Unemployed \in Operator /\ Unemployed.pc # "post"
    BY DEF Unemployed
  <1>5. ASSUME NEW o \in Operator, adm' = [adm EXCEPT ![a] = o],
               o.pc = "post" => o.todo \in Orders,
               UNCHANGED routing \/ \E b \in Backends, h \in BOOLEAN : SetHealth(b, h)
        PROVE  ProxyIInv'
    <2>1. adm' \in [Admins -> Operator] /\ OrdersPending'
      BY <1>1, <1>5 DEF ProxyTypeOK, OrdersPending
    <2>2. /\ ringHealth' \in [Backends -> BOOLEAN] /\ health' \in [Backends -> BOOLEAN]
          /\ HealthInStep'
      BY <1>1, <1>5 DEF ProxyTypeOK, HealthInStep, SetHealth, routing
    <2>3. ProxyTypeOK'
      BY <1>1, <1>2, <2>1, <2>2 DEF ProxyTypeOK
    <2>4. NoneLeft'
      BY <1>2, <1>3 DEF NoneLeft
    <2> QED
      BY <1>2, <2>1, <2>2, <2>3, <2>4, HandlersRest
  <1>6. ASSUME NEW todo \in {<<>>} \cup Orders, Ordered(a, todo)
        PROVE  ProxyIInv'
    <2>1. CASE todo = <<>>
      BY <1>4, <1>5, <1>6, <2>1 DEF Ordered
    <2>2. CASE todo # <<>>
      <3> DEFINE o == [pc |-> "post", todo |-> todo]
      <3>1. o \in Operator /\ (o.pc = "post" => o.todo \in Orders)
        BY <2>2 DEF AdminInFlight
      <3>2. /\ SetHealth(Head(todo).backend, Head(todo).healthy)
            /\ adm' = [adm EXCEPT ![a] = o]
        BY <1>6, <2>2 DEF Ordered
      <3>3. Head(todo).backend \in Backends /\ Head(todo).healthy \in BOOLEAN
        BY <2>2, OrderParts
      <3> HIDE DEF o
      <3> QED
        BY <1>5, <3>1, <3>2, <3>3
    <2> QED
      BY <2>1, <2>2
  <1>7. CASE AdminCheck(a)
    <2> DEFINE o == [adm[a] EXCEPT !.pc = "json"]
    <2>1. o \in Operator /\ o.pc # "post" /\ adm' = [adm EXCEPT ![a] = o]
      BY <1>1, <1>7 DEF AdminCheck, ProxyTypeOK, AdminInFlight
    <2> HIDE DEF o
    <2> QED
      BY <1>5, <1>7, <2>1 DEF AdminCheck
  <1>8. CASE AdminParsed(a)
    BY <1>4, <1>5, <1>6, <1>8 DEF AdminParsed
  <1>9. CASE AdminPosted(a)
    <2>1. adm[a].todo \in Orders /\ Ordered(a, Tail(adm[a].todo))
      BY <1>1, <1>9 DEF AdminPosted, OrdersPending
    <2> QED
      BY <1>6, <2>1, OrderParts
  <1>10. CASE AdminFailed(a)
    BY <1>4, <1>5, <1>10 DEF AdminFailed
  <1> QED
    BY <1>7, <1>8, <1>9, <1>10 DEF Administer

\* cleanup cancels whatever is in flight, so that close finds nobody.
LEMMA ShutdownKeeps ==
    ASSUME ProxyIInv, Signal \/ Cleanup \/ Close
    PROVE  ProxyIInv'
  <1>1. ProxyTypeOK /\ HealthInStep /\ OrdersPending /\ NoneLeft /\ AttemptsTracked
    BY DEF ProxyIInv
  <1>2. CASE Signal
    <2>1. ProxyTypeOK' /\ HealthInStep' /\ OrdersPending' /\ NoneLeft'
      BY <1>1, <1>2 DEF Signal, ProxyTypeOK, HealthInStep, OrdersPending, NoneLeft, routing
    <2> QED
      BY <1>2, <2>1, HandlersRest DEF Signal
  <1>3. CASE Close
    <2>1. ProxyTypeOK' /\ HealthInStep' /\ OrdersPending' /\ NoneLeft'
      BY <1>1, <1>3 DEF Close, ProxyTypeOK, HealthInStep, OrdersPending, NoneLeft, Busy, routing
    <2> QED
      BY <1>3, <2>1, HandlersRest DEF Close
  <1>4. CASE Cleanup
    <2>1. /\ stage' = "drained" /\ UNCHANGED <<routing, fails, probe, active, up, faults>>
          /\ req' = [r \in Requests |-> IF req[r].pc \in InFlight THEN Idle ELSE req[r]]
          /\ adm' = [a \in Admins |-> Unemployed]
      BY <1>4 DEF Cleanup
    <2>2. ASSUME NEW r \in Requests
          PROVE  req'[r] \in Handler /\ req'[r].pc \notin InFlight /\ Attempts(r, req'[r])
      <3>1. req[r] \in Handler /\ Attempts(r, req[r])
        BY <1>1 DEF ProxyTypeOK, Handler, AttemptsTracked
      <3>2. CASE req[r].pc \in InFlight
        BY <2>1, <3>2, IdleHandler DEF InFlight
      <3>3. CASE req[r].pc \notin InFlight
        BY <2>1, <3>1, <3>3
      <3> QED
        BY <3>2, <3>3
    <2>3. ProxyTypeOK'
      <3>1. req' \in [Requests -> Handler]
        BY <2>1, <2>2
      <3>2. Unemployed \in [pc : {"idle"} \cup AdminInFlight, todo : {<<>>} \cup Orders]
        BY DEF Unemployed
      <3> QED
        BY <1>1, <2>1, <3>1, <3>2 DEF ProxyTypeOK, Handler, routing
    <2>4. HealthInStep' /\ ActiveAccounted'
      BY <1>1, <2>1 DEF HealthInStep, ActiveAccounted, routing
    <2>5. AttemptsTracked'
      BY <2>2 DEF AttemptsTracked, Attempts
    <2>6. OrdersPending' /\ NoneLeft'
      BY <2>1, <2>2 DEF OrdersPending, NoneLeft, Busy, Unemployed, AdminInFlight
    <2> QED
      BY <2>3, <2>4, <2>5, <2>6 DEF ProxyIInv
  <1> QED
    BY <1>2, <1>3, <1>4

\* Backends come and go; what the proxy keeps does not change by itself.
LEMMA FaultKeeps ==
    ASSUME ProxyIInv, NEW b \in Backends, Crash(b) \/ Restart(b)
    PROVE  ProxyIInv'
  <1>1. ProxyTypeOK'
    <2>1. ProxyTypeOK
      BY DEF ProxyIInv
    <2>2. up' \in [Backends -> BOOLEAN]
      <3>1. \E v \in BOOLEAN : up' = [up EXCEPT ![b] = v]
        BY DEF Crash, Restart
      <3> QED
        BY <2>1, <3>1 DEF ProxyTypeOK
    <2>3. faults' \in Nat
      <3>1. faults \in Nat /\ (faults' = faults \/ (faults > 0 /\ faults' = faults - 1))
        BY <2>1 DEF ProxyTypeOK, Crash, Restart
      <3> QED
        BY <3>1
    <2>4. UNCHANGED <<routing, fails, probe, active, req, adm, stage>>
      BY DEF Crash, Restart
    <2> QED
      BY <2>1, <2>2, <2>3, <2>4 DEF ProxyTypeOK, routing
  <1>2. HealthInStep' /\ OrdersPending' /\ NoneLeft'
    BY DEF ProxyIInv, HealthInStep, OrdersPending, NoneLeft, Busy, Crash, Restart, routing
  <1> QED
    BY <1>1, <1>2, HandlersRest DEF Crash, Restart

LEMMA NextKeeps == ProxyIInv /\ [Next]_vars => ProxyIInv'
  <1> SUFFICES ASSUME ProxyIInv, [Next]_vars
               PROVE  ProxyIInv'
    OBVIOUS
  <1>1. CASE UNCHANGED vars
    BY <1>1, HandlersRest DEF vars, routing, ProxyIInv, ProxyTypeOK, HealthInStep,
                              OrdersPending, NoneLeft, Busy
  <1> QED
    BY <1>1, ArriveKeeps, SendKeeps, RespondKeeps, BodyLostKeeps, AdminKeeps,
       ProbeKeeps, ShutdownKeeps, FaultKeeps DEF Next

-----------------------------------------------------------------------------
\* In every reachable state handlers, counters and orders fit together.
THEOREM ProxyInvariant == Spec => []ProxyIInv
  BY InitProxy, NextKeeps, PTL DEF Spec

\* Ring and metrics agree on health at every await, the load counters are the
\* attempts under way, and the session is closed after its last user.
THEOREM ProxyTheorem == Spec => []ProxyInv
  <1>1. ProxyIInv => ProxyInv
    BY DEF ProxyIInv, ProxyInv, NoneLeft, SessionOutlivesHandlers
  <1> QED
    BY <1>1, ProxyInvariant, PTL

\* A method that is not idempotent reaches one backend at most, any other two
\* different ones.
THEOREM AtMostOnceTheorem == Spec => []AtMostOnce
  <1>1. ProxyIInv => AtMostOnce
    <2> SUFFICES ASSUME ProxyIInv, NEW r \in Requests
                 PROVE  /\ r \in Unsafe => Len(req[r].sent) <= 1
                        /\ Len(req[r].sent) <= 2
                        /\ Len(req[r].sent) = 2 => req[r].sent[1] # req[r].sent[2]
      BY DEF AtMostOnce
    <2> DEFINE sent == req[r].sent
    <2>1. \/ Len(sent) = 0
          \/ Len(sent) = 1
          \/ Len(sent) = 2 /\ r \notin Unsafe /\ sent[1] # sent[2]
      BY Zenon DEF ProxyIInv, AttemptsTracked, Attempts
    <2> HIDE DEF sent
    <2>2. Len(sent) <= 2 /\ (Len(sent) = 2 \/ Len(sent) <= 1)
      BY <2>1
    <2>3. Len(sent) = 2 => r \notin Unsafe /\ sent[1] # sent[2]
      BY <2>1
    <2> QED
      BY <2>2, <2>3, Zenon DEF sent
  <1> QED
    BY <1>1, ProxyInvariant, PTL
=============================================================================
