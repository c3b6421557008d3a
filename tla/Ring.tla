-------------------------------- MODULE Ring --------------------------------
(***************************************************************************)
(* The hash-and-adjust ring of the control plane: ring.Manager in          *)
(* controlplane/internal/ring/ring.go, helpers.go and reconcile.go.        *)
(*                                                                         *)
(* Every exported method of Manager runs under one mutex, so each is one   *)
(* action.  The manager keeps two pieces of state that must agree: the     *)
(* registered backends, and the ring derived from them by rebuild().       *)
(*                                                                         *)
(* Abstractions.  A vnode is the pair <<id, i>> that rebuild() hashes; its *)
(* place on the ring is the constant Pos(id, i).  sort.Slice is not stable *)
(* and iterates a Go map, so vnodes of equal position may be met in either *)
(* order: a probe takes any nearest vnode.  Request counters are compared  *)
(* with rational multiples of the mean, so the two factors are fractions.  *)
(* reqCount is kept modulo AdjustEveryN, the only use made of it.          *)
(***************************************************************************)
EXTENDS Integers, FiniteSets, FiniteSetsExt

CONSTANTS
  Ids,               \* backend identifiers
  RingSize,          \* number of ring positions (2^32 in the code)
  Pos(_, _),         \* Pos(id, i): murmur3_32 of the string "id:i"
  Keys,              \* hashed request keys, positions of the ring
  VnodesPerServer,   \* cfg.VnodesPerServer after NewManager's default
  BetaNum, BetaDen,  \* cfg.BoundedLoadBeta as a fraction
  ThrNum, ThrDen,    \* cfg.AdjustThreshold as a fraction
  AdjustEveryN,      \* cfg.AdjustEveryN
  CallerCounts,      \* vnode counts that snapshots and kernel maps name
  MaxVnodes,         \* bound: largest VnodeCount
  MaxInflight        \* bound: unfinished requests per backend

(***************************************************************************)
(* NewManager replaces a zero VnodesPerServer and a zero beta by positive  *)
(* defaults; it leaves AdjustEveryN as configured, zero included.          *)
(***************************************************************************)
ASSUME RingAssumption ==
  /\ RingSize \in Nat \ {0}
  /\ Keys \subseteq 0 .. RingSize - 1
  /\ MaxVnodes \in Nat
  /\ VnodesPerServer \in 1 .. MaxVnodes
  /\ CallerCounts \subseteq 1 .. MaxVnodes
  /\ BetaNum \in Nat /\ BetaDen \in Nat \ {0}
  /\ ThrNum \in Nat /\ ThrDen \in Nat \ {0}
  /\ AdjustEveryN \in Nat
  /\ MaxInflight \in Nat

(* Hashes are positions of the ring; different vnodes may collide. *)
ASSUME PositionAssumption ==
  \A id \in Ids, i \in 0 .. MaxVnodes - 1 : Pos(id, i) \in 0 .. RingSize - 1

VARIABLES
  backends,   \* Manager.backends: a function on the registered ids
  ring,       \* Manager.ring: the set of vnodes <<id, i>> now on the ring
  reqCount,   \* Manager.reqCount modulo AdjustEveryN
  inflight,   \* history: requests routed to an id and not yet released
  replaced    \* history: ids whose struct was dropped with requests in flight

ringVars == <<backends, ring, reqCount, inflight, replaced>>

Backend == [VnodeCount : Nat, ActiveReqs : Nat,
            Health : BOOLEAN, Stateful : BOOLEAN, Draining : BOOLEAN]

(***************************************************************************)
(* The structs handed to AddBackend.  Its one caller outside the tests,    *)
(* Coordinator.applySnapshot, copies a leader's vnode count and builds a   *)
(* fresh struct, so ActiveReqs and Draining have their zero values.        *)
(***************************************************************************)
NewBackend == [VnodeCount : CallerCounts, ActiveReqs : {0},
               Health : BOOLEAN, Stateful : BOOLEAN, Draining : {FALSE}]

RingTypeOK ==
  /\ DOMAIN backends \subseteq Ids
  /\ backends \in [DOMAIN backends -> Backend]
  /\ ring \subseteq Ids \X Nat
  /\ reqCount \in Nat
  /\ inflight \in [Ids -> Nat]
  /\ replaced \subseteq Ids

-----------------------------------------------------------------------------
(* Helpers under the lock. *)

(* A backend Route may choose: up and not being drained. *)
Available(bs) == {id \in DOMAIN bs : bs[id].Health /\ ~bs[id].Draining}

RebuildKeepsDraining(bs) ==
  UNION {{<<id, i>> : i \in 0 .. bs[id].VnodeCount - 1} :
           id \in {x \in DOMAIN bs : bs[x].Health}}

RebuildByRunningIndex(bs) ==
  LET before(id) == {o \in Available(bs) : o < id}
      first(id)  == MapThenSumSet(LAMBDA o : bs[o].VnodeCount, before(id))
  IN  UNION {{<<id, first(id) + i>> : i \in 0 .. bs[id].VnodeCount - 1} :
               id \in Available(bs)}

(* rebuild: VnodeCount vnodes for every available backend. *)
Rebuild(bs) ==
  UNION {{<<id, i>> : i \in 0 .. bs[id].VnodeCount - 1} : id \in Available(bs)}

TotalActiveReqs(bs) ==
  MapThenSumSet(LAMBDA id : bs[id].ActiveReqs, DOMAIN bs)

(* ActiveReqs of id exceeds (num/den) times the mean over all registered.  *)
ExceedsMean(bs, id, num, den) ==
  bs[id].ActiveReqs * den * Cardinality(DOMAIN bs) > num * TotalActiveReqs(bs)

(* bisectRight: how far clockwise of key k, strictly, a vnode lies. *)
Distance(k, v) == (Pos(v[1], v[2]) - k - 1) % RingSize

Nearest(k, vs) == {v \in vs : \A w \in vs : Distance(k, v) <= Distance(k, w)}

LeastLoaded(bs) ==
  {id \in Available(bs) :
     \A o \in Available(bs) : bs[id].ActiveReqs <= bs[o].ActiveReqs}

(***************************************************************************)
(* The probe loop of Route: the nearest vnode, clockwise from the key, of  *)
(* a backend that is up and within the bounded load; when every one is     *)
(* over the bound, any least loaded backend.                               *)
(***************************************************************************)
Chosen(k) ==
  LET within == {v \in ring : /\ backends[v[1]].Health
                              /\ ~ExceedsMean(backends, v[1], BetaNum, BetaDen)}
  IN  IF within # {} THEN {v[1] : v \in Nearest(k, within)}
                     ELSE LeastLoaded(backends)

(***************************************************************************)
(* adjust: one vnode moves from a hottest to a coolest backend if the      *)
(* hottest exceeds the threshold.  Both are found in one pass over a Go    *)
(* map: among equals any may be met first, and when all are equal the two  *)
(* are the same backend and nothing moves.                                 *)
(***************************************************************************)
Adjustable(bs) == {id \in Available(bs) : ~bs[id].Stateful}

MoveVnode(bs, hot, cool) ==
  IF /\ bs[hot].ActiveReqs > bs[cool].ActiveReqs
     /\ ExceedsMean(bs, hot, ThrNum, ThrDen)
     /\ bs[hot].VnodeCount > 1
  THEN [bs EXCEPT ![hot].VnodeCount = @ - 1, ![cool].VnodeCount = @ + 1]
  ELSE bs

HotCool(bs) ==
  {p \in Adjustable(bs) \X Adjustable(bs) :
     \A o \in Adjustable(bs) : /\ bs[o].ActiveReqs <= bs[p[1]].ActiveReqs
                               /\ bs[p[2]].ActiveReqs <= bs[o].ActiveReqs}

Adjust(bs) ==
  IF HotCool(bs) = {} THEN {bs} ELSE {MoveVnode(bs, p[1], p[2]) : p \in HotCool(bs)}

(* ProactiveAdjust cuts ceil(15%) of the vnodes, at least one. *)
Reduction(count) == (count * 15 + 99) \div 100

-----------------------------------------------------------------------------
(* Operations. *)

RingInit ==
  /\ backends = [id \in {} |-> FALSE]
  /\ ring = {}
  /\ reqCount = 0
  /\ inflight = [id \in Ids |-> 0]
  /\ replaced = {}

(* Every writer but ReleaseConn and Route ends with rebuild(). *)
Install(bs) == backends' = bs /\ ring' = Rebuild(bs)

InstallStaleRing(bs) == backends' = bs /\ UNCHANGED ring

DropStruct(ids) == replaced' = replaced \union {id \in ids : inflight[id] > 0}

AddBackend(id, b) ==
  /\ Install([x \in DOMAIN backends \union {id} |->
                IF x # id THEN backends[x]
                ELSE IF id \in DOMAIN backends THEN b
                ELSE [b EXCEPT !.VnodeCount = VnodesPerServer]])
  /\ DropStruct({id})
  /\ UNCHANGED <<reqCount, inflight>>

RemoveBackend(id) ==
  /\ id \in DOMAIN backends
  /\ Install([x \in DOMAIN backends \ {id} |-> backends[x]])
  /\ DropStruct({id})
  /\ UNCHANGED <<reqCount, inflight>>

SetHealth(id, healthy) ==
  /\ id \in DOMAIN backends
  /\ Install([backends EXCEPT ![id].Health = healthy])
  /\ UNCHANGED <<reqCount, inflight, replaced>>

SetDrainingNoRebuild(id, draining) ==
  /\ id \in DOMAIN backends
  /\ InstallStaleRing([backends EXCEPT ![id].Draining = draining])
  /\ UNCHANGED <<reqCount, inflight, replaced>>

SetDraining(id, draining) ==
  /\ id \in DOMAIN backends
  /\ Install([backends EXCEPT ![id].Draining = draining])
  /\ UNCHANGED <<reqCount, inflight, replaced>>

SetDrainingAll(draining) ==
  /\ Install([id \in DOMAIN backends |-> [backends[id] EXCEPT !.Draining = draining]])
  /\ UNCHANGED <<reqCount, inflight, replaced>>

SetVnodeCountUnclamped(id, count) ==
  /\ id \in DOMAIN backends
  /\ Install([backends EXCEPT ![id].VnodeCount = count])
  /\ UNCHANGED <<reqCount, inflight, replaced>>

SetVnodeCount(id, count) ==
  /\ id \in DOMAIN backends
  /\ Install([backends EXCEPT ![id].VnodeCount = IF count < 1 THEN 1 ELSE count])
  /\ UNCHANGED <<reqCount, inflight, replaced>>

(***************************************************************************)
(* ProactiveAdjust(loadWindow).  hot is the set of backends whose last     *)
(* sample plus slope times look-ahead is above 75% of capacity; the load   *)
(* samples come from the metrics collector and may be anything.            *)
(***************************************************************************)
ProactiveAdjust(hot) ==
  /\ Install([id \in DOMAIN backends |->
       IF id \in hot \intersect Available(backends) /\ backends[id].VnodeCount > 1
       THEN [backends[id] EXCEPT !.VnodeCount = @ - Reduction(@)]
       ELSE backends[id]])
  /\ UNCHANGED <<reqCount, inflight, replaced>>

(***************************************************************************)
(* Route(key), the successful call.  With an empty ring the call returns   *)
(* an error and changes nothing.  The remainder by a zero AdjustEveryN     *)
(* panics after the counters were incremented; the deferred Unlock still   *)
(* runs, so the manager is left usable.                                    *)
(***************************************************************************)
Route(k) ==
  /\ ring # {}
  /\ \E c \in Chosen(k) :
       LET counted == [backends EXCEPT ![c].ActiveReqs = @ + 1]
           next    == (reqCount + 1) % AdjustEveryN
       IN
       /\ inflight[c] < MaxInflight
       /\ inflight' = [inflight EXCEPT ![c] = @ + 1]
       /\ IF AdjustEveryN = 0
          THEN /\ backends' = counted
               /\ UNCHANGED <<ring, reqCount>>
          ELSE /\ reqCount' = next
               /\ backends' \in IF next = 0 THEN Adjust(counted) ELSE {counted}
               /\ \A id \in DOMAIN backends : backends'[id].VnodeCount <= MaxVnodes
               /\ ring' = IF backends' = counted THEN ring ELSE Rebuild(backends')
  /\ UNCHANGED replaced

(***************************************************************************)
(* ReleaseConn(id): the caller of Route reports that a request has ended.  *)
(* The counter never goes below zero, and an id that is no longer          *)
(* registered is ignored.                                                  *)
(***************************************************************************)
ReleaseConnNotDraining(id) ==
  /\ inflight[id] > 0
  /\ inflight' = [inflight EXCEPT ![id] = @ - 1]
  /\ backends' = IF id \in Available(backends) /\ backends[id].ActiveReqs > 0
                 THEN [backends EXCEPT ![id].ActiveReqs = @ - 1]
                 ELSE backends
  /\ UNCHANGED <<ring, reqCount, replaced>>

ReleaseConn(id) ==
  /\ inflight[id] > 0
  /\ inflight' = [inflight EXCEPT ![id] = @ - 1]
  /\ backends' = IF id \in DOMAIN backends /\ backends[id].ActiveReqs > 0
                 THEN [backends EXCEPT ![id].ActiveReqs = @ - 1]
                 ELSE backends
  /\ UNCHANGED <<ring, reqCount, replaced>>

(***************************************************************************)
(* ReconcileFromEBPF: the backends are rebuilt from the pinned kernel      *)
(* maps.  kernel gives, for each id found in both maps, the number of ring *)
(* positions and the health byte; every other field has its zero value.    *)
(***************************************************************************)
KernelMaps ==
  UNION {[S -> [count : CallerCounts, up : BOOLEAN]] : S \in SUBSET Ids}

ReconcileFromEBPF(kernel) ==
  /\ Install([id \in DOMAIN kernel |->
                [VnodeCount |-> kernel[id].count, ActiveReqs |-> 0,
                 Health |-> kernel[id].up, Stateful |-> FALSE, Draining |-> FALSE]])
  /\ DropStruct(Ids)
  /\ UNCHANGED <<reqCount, inflight>>

Administer ==
  \/ \E id \in Ids, b \in NewBackend : AddBackend(id, b)
  \/ \E id \in Ids : RemoveBackend(id)
  \/ \E kernel \in KernelMaps : ReconcileFromEBPF(kernel)
  \/ \E id \in Ids, h \in BOOLEAN : SetHealth(id, h)
  \/ \E id \in Ids, d \in BOOLEAN : SetDraining(id, d)
  \/ \E d \in BOOLEAN : SetDrainingAll(d)
  \/ \E id \in Ids, n \in 0 .. MaxVnodes : SetVnodeCount(id, n)
  \/ \E hot \in SUBSET Ids : ProactiveAdjust(hot)

Serve ==
  \/ \E k \in Keys : Route(k)
  \/ \E id \in Ids : ReleaseConn(id)

RingNext == Administer \/ Serve

RingSpec == RingInit /\ [][RingNext]_ringVars

(* A request that was routed ends some day and its caller releases it. *)
FairRingSpec == RingSpec /\ \A id \in Ids : WF_ringVars(ReleaseConn(id))

-----------------------------------------------------------------------------
(* Properties. *)

(***************************************************************************)
(* The ring always holds exactly the vnodes of the registered backends     *)
(* that are up and not draining, as many as their VnodeCount says: no      *)
(* operation leaves a stale ring behind (rebuild() is called wherever a    *)
(* field it reads has changed).                                            *)
(***************************************************************************)
RingInSync == ring = Rebuild(backends)

(***************************************************************************)
(* No operation, in any order, takes the last vnode of a backend: while    *)
(* some backend is up and not draining the ring is not empty, so Route     *)
(* does not fail with "no backends in ring".                               *)
(***************************************************************************)
VnodesPositive == \A id \in DOMAIN backends : backends[id].VnodeCount >= 1

NoBlackout == Available(backends) # {} => ring # {}

(***************************************************************************)
(* ActiveReqs never counts a request that is not in flight, and is exact   *)
(* for a backend whose struct was never replaced, removed or reconciled    *)
(* while it served requests.                                               *)
(***************************************************************************)
ActiveReqsAccounted ==
  \A id \in DOMAIN backends :
    /\ backends[id].ActiveReqs <= inflight[id]
    /\ id \notin replaced => backends[id].ActiveReqs = inflight[id]

(***************************************************************************)
(* Route never gives a new request to a backend that is down or draining   *)
(* at that moment ("no new requests are routed to it", SetDraining).       *)
(***************************************************************************)
RoutesToAvailable ==
  [][\A id \in Ids : inflight'[id] > inflight[id] => id \in Available(backends)]_ringVars

(***************************************************************************)
(* Consistent hashing: whatever changes the ring, a key leaves a backend   *)
(* whose weight did not shrink only for a backend whose weight grew.  Keys *)
(* are never shuffled between bystanders (rebuild hashes the id and the    *)
(* index of a vnode, nothing else).                                        *)
(***************************************************************************)
Owners(r, k) == {v[1] : v \in Nearest(k, r)}

Weight(bs, id) == IF id \in Available(bs) THEN bs[id].VnodeCount ELSE 0

MinimalDisruption ==
  [][\A k \in Keys : \A id \in Owners(ring, k) \ Owners(ring', k) :
       Weight(backends', id) >= Weight(backends, id) =>
         \E o \in Owners(ring', k) : Weight(backends', o) > Weight(backends, o)]_ringVars

(***************************************************************************)
(* A drain completes: a backend that stays registered and draining from    *)
(* some moment on comes to rest at ActiveReqs = 0, the condition an        *)
(* operator polls for before a restart.                                    *)
(***************************************************************************)
DrainsToZero ==
  \A id \in Ids :
    <>[](id \in DOMAIN backends /\ backends[id].Draining)
      => <>[](id \in DOMAIN backends => backends[id].ActiveReqs = 0)
=============================================================================
