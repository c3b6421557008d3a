------------------------------ MODULE Affinity ------------------------------
(***************************************************************************)
(* Session affinity on top of the ring: AffinityTable and                  *)
(* Manager.RouteStateful (controlplane/internal/ring/affinity.go).         *)
(*                                                                         *)
(* RouteStateful takes the table's lock and the manager's lock one after   *)
(* the other, and its caller registers the chosen backend in yet another   *)
(* call: a caller is a little process whose steps interleave with those of *)
(* the other callers, with the goroutines that delete expired records, and *)
(* with the operator and the health checker changing the ring.             *)
(*                                                                         *)
(* Abstraction: a record is expired or not; time passing expires it.       *)
(***************************************************************************)
EXTENDS Ring

CONSTANTS
  Sessions,     \* non-empty session keys
  Callers,      \* concurrent callers of RouteStateful
  MaxSize,      \* AffinityTable.maxSize
  MaxExpirers   \* bound: expiry goroutines pending per session

ASSUME AffinityAssumption ==
  MaxSize \in Nat \ {0} /\ MaxExpirers \in Nat /\ Sessions # {} /\ Ids # {}

VARIABLES
  sessions,   \* AffinityTable.sessions: a function on the pinned keys
  expirers,   \* pending "go a.Expire(key)" goroutines per key
  call,       \* the step each caller is at, and the key and id it holds there
  raced       \* history: sessions two callers served at the same time

affVars == <<ringVars, sessions, expirers, call, raced>>

Record == [backendID : Ids, expired : BOOLEAN]

(* The local state of a caller between two lock sections. *)
Idle == [step |-> "idle"]

Call == {Idle} \union [step : {"ring"}, key : Sessions]
               \union [step : {"verify", "expire", "register"}, key : Sessions, id : Ids]

AffinityTypeOK ==
  /\ RingTypeOK
  /\ DOMAIN sessions \subseteq Sessions
  /\ sessions \in [DOMAIN sessions -> Record]
  /\ expirers \in [Sessions -> 0 .. MaxExpirers]
  /\ call \in [Callers -> Call]
  /\ raced \subseteq Sessions

Pinned(s) == s \in DOMAIN sessions

Live(s) == Pinned(s) /\ ~sessions[s].expired

Without(s) == [x \in DOMAIN sessions \ {s} |-> sessions[x]]

With(s, id) == [x \in DOMAIN sessions \union {s} |->
                  IF x = s THEN [backendID |-> id, expired |-> FALSE] ELSE sessions[x]]

Goto(c, local) == call' = [call EXCEPT ![c] = local]

NoteRace(c, s) ==
  raced' = raced \union {x \in {s} : \E d \in Callers \ {c} :
                                        call[d] # Idle /\ call[d].key = s}

ToRing(s) == [step |-> "ring", key |-> s]

-----------------------------------------------------------------------------
(* The backends are registered and up, the table is empty. *)
AffinityInit ==
  /\ backends = [id \in Ids |-> [VnodeCount |-> VnodesPerServer, ActiveReqs |-> 0,
                                 Health |-> TRUE, Stateful |-> TRUE, Draining |-> FALSE]]
  /\ ring = Rebuild(backends)
  /\ reqCount = 0
  /\ inflight = [id \in Ids |-> 0]
  /\ replaced = {}
  /\ sessions = [s \in {} |-> FALSE]
  /\ expirers = [s \in Sessions |-> 0]
  /\ call = [c \in Callers |-> Idle]
  /\ raced = {}

LookupNeverHits(c, s) ==
  /\ call[c].step = "idle"
  /\ Goto(c, ToRing(s))
  /\ NoteRace(c, s)
  /\ UNCHANGED <<ringVars, sessions, expirers>>

(***************************************************************************)
(* affinity.Route: a live record is a hit whose backend is still to be     *)
(* verified; an expired one starts a goroutine to delete it and is a miss. *)
(***************************************************************************)
Lookup(c, s) ==
  /\ call[c].step = "idle"
  /\ \/ /\ Live(s)
        /\ Goto(c, [step |-> "verify", key |-> s, id |-> sessions[s].backendID])
        /\ UNCHANGED expirers
     \/ /\ ~Pinned(s)
        /\ Goto(c, ToRing(s))
        /\ UNCHANGED expirers
     \/ /\ Pinned(s) /\ sessions[s].expired
        /\ expirers[s] < MaxExpirers
        /\ expirers' = [expirers EXCEPT ![s] = @ + 1]
        /\ Goto(c, ToRing(s))
  /\ NoteRace(c, s)
  /\ UNCHANGED <<ringVars, sessions>>

(***************************************************************************)
(* The check of the pinned backend under the manager's read lock.  On a    *)
(* hit RouteStateful returns the id: the request is in flight, and no      *)
(* counter of the ring was touched.                                        *)
(***************************************************************************)
Verify(c) ==
  /\ call[c].step = "verify"
  /\ LET id == call[c].id
         up == id \in DOMAIN backends /\ backends[id].Health
     IN
     \/ /\ up
        /\ inflight[id] < MaxInflight
        /\ inflight' = [inflight EXCEPT ![id] = @ + 1]
        /\ Goto(c, Idle)
     \/ /\ ~up
        /\ Goto(c, [call[c] EXCEPT !.step = "expire"])
        /\ UNCHANGED inflight
  /\ UNCHANGED <<backends, ring, reqCount, replaced, sessions, expirers, raced>>

(* The pinned backend was down: affinity.Expire, then the ring. *)
ExpireDown(c) ==
  /\ call[c].step = "expire"
  /\ sessions' = Without(call[c].key)
  /\ Goto(c, ToRing(call[c].key))
  /\ UNCHANGED <<ringVars, expirers, raced>>

(* m.Route(fallbackHash), under the manager's lock. *)
RouteRing(c, k) ==
  /\ call[c].step = "ring"
  /\ Route(k)
  /\ \E id \in Ids : /\ inflight'[id] > inflight[id]
                     /\ Goto(c, [step |-> "register", key |-> call[c].key, id |-> id])
  /\ UNCHANGED <<sessions, expirers, raced>>

(* m.Route returned an error: the caller gives up. *)
RouteFails(c) ==
  /\ call[c].step = "ring"
  /\ ring = {}
  /\ Goto(c, Idle)
  /\ UNCHANGED <<ringVars, sessions, expirers, raced>>

(***************************************************************************)
(* Register: dropped when the table is full, even for a key that is        *)
(* already there; otherwise the key's record is overwritten.               *)
(***************************************************************************)
Register(c) ==
  /\ call[c].step = "register"
  /\ sessions' = IF Cardinality(DOMAIN sessions) >= MaxSize THEN sessions
                 ELSE With(call[c].key, call[c].id)
  /\ Goto(c, Idle)
  /\ UNCHANGED <<ringVars, expirers, raced>>

(* A goroutine started by a lookup runs Expire(key) at last. *)
LazyExpire(s) ==
  /\ expirers[s] > 0
  /\ expirers' = [expirers EXCEPT ![s] = @ - 1]
  /\ sessions' = Without(s)
  /\ UNCHANGED <<ringVars, call, raced>>

(* Expire(key), called when the session ends. *)
Expire(s) ==
  /\ Pinned(s)
  /\ sessions' = Without(s)
  /\ UNCHANGED <<ringVars, expirers, call, raced>>

(* GC removes every expired record. *)
GC ==
  /\ \E s \in DOMAIN sessions : sessions[s].expired
  /\ sessions' = [s \in {x \in DOMAIN sessions : ~sessions[x].expired} |-> sessions[s]]
  /\ UNCHANGED <<ringVars, expirers, call, raced>>

(* The TTL of a record elapses. *)
Age(s) ==
  /\ Live(s)
  /\ sessions' = [sessions EXCEPT ![s].expired = TRUE]
  /\ UNCHANGED <<ringVars, expirers, call, raced>>

CallerStep(c) ==
  \/ \E s \in Sessions : Lookup(c, s)
  \/ Verify(c)
  \/ ExpireDown(c)
  \/ \E k \in Keys : RouteRing(c, k)
  \/ RouteFails(c)
  \/ Register(c)

(* What the health checker, the operator and ending requests do meanwhile. *)
RingMoves ==
  /\ \/ \E id \in Ids, h \in BOOLEAN : SetHealth(id, h)
     \/ \E id \in Ids, d \in BOOLEAN : SetDraining(id, d)
     \/ \E id \in Ids : ReleaseConn(id) \/ RemoveBackend(id)
  /\ UNCHANGED <<sessions, expirers, call, raced>>

AffinityNext ==
  \/ \E c \in Callers : CallerStep(c)
  \/ \E s \in Sessions : LazyExpire(s) \/ Expire(s) \/ Age(s)
  \/ GC
  \/ RingMoves

AffinitySpec == AffinityInit /\ [][AffinityNext]_affVars

-----------------------------------------------------------------------------
(* Properties. *)

(***************************************************************************)
(* Every state is well typed, and ActiveReqs never counts a request that   *)
(* is not in flight, although affinity hits bypass Route's counter while   *)
(* their callers still release a connection at the end.                    *)
(***************************************************************************)
AffinityInv ==
  /\ AffinityTypeOK
  /\ \A id \in DOMAIN backends : backends[id].ActiveReqs <= inflight[id]

(***************************************************************************)
(* "Once registered, the backend assignment never changes for that         *)
(* session": a live record is not overwritten with another backend, as     *)
(* long as no two requests of the session were ever served at once (the    *)
(* second Register of such a race does move the pin).                      *)
(***************************************************************************)
PinImmutable ==
  [][\A s \in Sessions \ raced' :
       Live(s) /\ Pinned(s)' => sessions'[s].backendID = sessions[s].backendID]_affVars
=============================================================================
