----------------------------- MODULE RingProofs -----------------------------
(***************************************************************************)
(* Proofs about the ring manager and the two components that live on it,   *)
(* each with its own specification: Ring, for every set of backends, every *)
(* hash function and every value of the bounds; Affinity, for every set of *)
(* sessions and callers as well; SlowStart, for every set of backends,     *)
(* every target and every batch size.                                      *)
(*                                                                         *)
(* RingInv is inductive.  RingInSync alone is not: Route increments the    *)
(* counter of a backend found through the ring, so that it stays a map of  *)
(* backends rests on the ring naming registered ids only.  NoBlackout is   *)
(* not inductive either: it follows from RingInSync and VnodesPositive.    *)
(*                                                                         *)
(* The operations are shown to keep RingInvOn(E), whose counters are exact *)
(* for the ids of E: RingInv is the case of all ids.  The proofs about     *)
(* Affinity use the lemmas with no id, for there requests also reach a     *)
(* backend without Route, and those about SlowStart use them as they are.  *)
(*                                                                         *)
(* MinimalDisruption compares two rings. A vnode that displaces another as *)
(* the nearest to a key is new, and so its backend grew; that distances    *)
(* are numbers rests on vnode counts within MaxVnodes.                     *)
(***************************************************************************)
EXTENDS Affinity, SlowStart, WellFoundedInduction, TLAPS

(***************************************************************************)
(* ActiveReqsAccounted, exact for the ids of E only: what Ring promises    *)
(* for all of them holds for none where affinity hits bypass Route.        *)
(***************************************************************************)
AccountedOn(E) ==
  \A id \in DOMAIN backends :
    /\ backends[id].ActiveReqs <= inflight[id]
    /\ id \in E \ replaced => backends[id].ActiveReqs = inflight[id]

RingInvOn(E) == RingTypeOK /\ RingInSync /\ VnodesPositive /\ AccountedOn(E)

RingInv == RingInvOn(Ids)

(* bs is a map of registered backends, each with at least one vnode. *)
IsBackends(bs) ==
  /\ DOMAIN bs \subseteq Ids
  /\ bs \in [DOMAIN bs -> Backend]
  /\ \A id \in DOMAIN bs : bs[id].VnodeCount >= 1

-----------------------------------------------------------------------------
(* The vnodes rebuild() makes are those of available backends. *)
LEMMA RebuildMember ==
  ASSUME NEW bs, NEW v
  PROVE  v \in Rebuild(bs) <=>
           \E id \in Available(bs) : \E i \in 0 .. bs[id].VnodeCount - 1 : v = <<id, i>>
  BY DEF Rebuild

LEMMA RebuildType ==
  ASSUME NEW bs, IsBackends(bs)
  PROVE  Rebuild(bs) \subseteq Ids \X Nat
  BY RebuildMember DEF IsBackends, Available, Backend

(* A ring position exists for every available backend. *)
LEMMA RebuildNonEmpty ==
  ASSUME NEW bs, IsBackends(bs), NEW id \in Available(bs)
  PROVE  <<id, 0>> \in Rebuild(bs)
  BY RebuildMember DEF IsBackends, Available, Backend

(* ProactiveAdjust never takes a backend's last vnode. *)
LEMMA ReductionLeavesOne ==
  ASSUME NEW c \in Nat, c > 1
  PROVE  c - Reduction(c) \in Nat /\ c - Reduction(c) >= 1
  BY DEF Reduction

(* Whatever the key, Route chooses an available backend. *)
LEMMA ChosenAvailable ==
  ASSUME RingTypeOK, RingInSync, NEW k, NEW c \in Chosen(k)
  PROVE  c \in Available(backends)
<1>1. CASE c \in LeastLoaded(backends)
  BY <1>1 DEF LeastLoaded
<1>2. CASE \E v \in ring : c = v[1]
  <2>1. PICK v \in ring : c = v[1]
    BY <1>2
  <2>2. PICK id \in Available(backends) : \E i \in 0 .. backends[id].VnodeCount - 1 : v = <<id, i>>
    BY RebuildMember DEF RingInSync
  <2>3. QED
    BY <2>1, <2>2
<1>3. QED
  BY <1>1, <1>2 DEF Chosen, Nearest

(* adjust() changes vnode counts only, and leaves each at one or more. *)
LEMMA AdjustKeeps ==
  ASSUME NEW bs, IsBackends(bs), NEW r \in Adjust(bs)
  PROVE  /\ IsBackends(r)
         /\ DOMAIN r = DOMAIN bs
         /\ \A id \in DOMAIN bs : r[id].ActiveReqs = bs[id].ActiveReqs
<1>1. CASE r = bs
  BY <1>1
<1>2. CASE \E p \in HotCool(bs) : r = MoveVnode(bs, p[1], p[2])
  <2>1. PICK p \in HotCool(bs) : r = MoveVnode(bs, p[1], p[2])
    BY <1>2
  <2>2. p[1] \in DOMAIN bs /\ p[2] \in DOMAIN bs
    BY DEF HotCool, Adjustable, Available
  <2>3. CASE r # bs
    <3>1. /\ bs[p[1]].ActiveReqs > bs[p[2]].ActiveReqs
          /\ bs[p[1]].VnodeCount > 1
          /\ r = [bs EXCEPT ![p[1]].VnodeCount = @ - 1, ![p[2]].VnodeCount = @ + 1]
      BY <2>1, <2>3 DEF MoveVnode
    <3>2. bs[p[1]] \in Backend /\ bs[p[2]] \in Backend
      BY <2>2 DEF IsBackends
    <3>3. p[1] # p[2]
      BY <3>1, <3>2 DEF Backend
    <3>4. DOMAIN r = DOMAIN bs
      BY <3>1
    <3>5. ASSUME NEW id \in DOMAIN bs
          PROVE  /\ r[id] \in Backend
                 /\ r[id].VnodeCount >= 1
                 /\ r[id].ActiveReqs = bs[id].ActiveReqs
      <4>1. CASE id = p[1]
        BY <4>1, <3>1, <3>2, <3>3 DEF IsBackends, Backend
      <4>2. CASE id = p[2]
        BY <4>2, <3>1, <3>2, <3>3 DEF IsBackends, Backend
      <4>3. CASE id # p[1] /\ id # p[2]
        BY <4>3, <3>1 DEF IsBackends
      <4>4. QED
        BY <4>1, <4>2, <4>3
    <3>6. r \in [DOMAIN r -> Backend]
      BY <3>1, <3>4, <3>5
    <3>7. QED
      BY <3>4, <3>5, <3>6 DEF IsBackends
  <2>4. QED
    BY <2>3, <1>1
<1>3. QED
  BY <1>1, <1>2 DEF Adjust
-----------------------------------------------------------------------------
(***************************************************************************)
(* A step that installs a map of backends and rebuilds the ring keeps the  *)
(* invariant if its counters agree with the requests in flight.            *)
(***************************************************************************)
LEMMA InstallKeepsInv ==
  ASSUME NEW E, NEW bs, IsBackends(bs), Install(bs),
         reqCount' \in Nat, inflight' \in [Ids -> Nat], replaced' \subseteq Ids,
         \A id \in DOMAIN bs : /\ bs[id].ActiveReqs <= inflight'[id]
                               /\ id \in E \ replaced' => bs[id].ActiveReqs = inflight'[id]
  PROVE  RingInvOn(E)'
<1>1. backends' = bs /\ ring' = Rebuild(bs)
  BY DEF Install
<1>2. RingTypeOK'
  BY <1>1, RebuildType DEF RingTypeOK, IsBackends
<1>3. RingInSync' /\ VnodesPositive' /\ AccountedOn(E)'
  BY <1>1 DEF RingInSync, VnodesPositive, AccountedOn, IsBackends
<1>4. QED
  BY <1>2, <1>3 DEF RingInvOn

(* RingInvOn(E) makes the registered backends a map of backends. *)
LEMMA InvBackends ==
  ASSUME NEW E, RingInvOn(E)
  PROVE  IsBackends(backends)
  BY DEF RingInvOn, RingTypeOK, VnodesPositive, IsBackends

(* A struct that is dropped has either no request in flight or is noted.   *)
LEMMA DropStructNotes ==
  ASSUME NEW E, RingInvOn(E), NEW ids \in SUBSET Ids, DropStruct(ids)
  PROVE  /\ replaced' \subseteq Ids
         /\ \A id \in ids : id \notin replaced' => inflight[id] = 0
         /\ \A id \in Ids : id \notin replaced' => id \notin replaced
  BY DEF RingInvOn, RingTypeOK, DropStruct

(* The counts that snapshots and kernel maps name are positive. *)
LEMMA CallerCountPositive ==
  ASSUME NEW c \in CallerCounts
  PROVE  c \in Nat /\ c >= 1
<1>1. c \in 1 .. MaxVnodes
  BY RingAssumption
<1>2. QED
  BY <1>1

LEMMA AddBackendInv ==
  ASSUME NEW E, RingInvOn(E), NEW id \in Ids, NEW b \in NewBackend, AddBackend(id, b)
  PROVE  RingInvOn(E)'
<1> DEFINE nb == IF id \in DOMAIN backends THEN b
                 ELSE [b EXCEPT !.VnodeCount = VnodesPerServer]
           bs == [x \in DOMAIN backends \union {id} |->
                    IF x # id THEN backends[x] ELSE nb]
<1>1. nb \in Backend /\ nb.VnodeCount >= 1 /\ nb.ActiveReqs = 0
  <2>1. b \in Backend /\ b.VnodeCount >= 1 /\ b.ActiveReqs = 0
    <3>1. /\ b.VnodeCount \in CallerCounts /\ b.ActiveReqs = 0
          /\ b.Health \in BOOLEAN /\ b.Stateful \in BOOLEAN /\ b.Draining \in BOOLEAN
      BY Zenon DEF NewBackend
    <3>2. b.VnodeCount \in Nat /\ b.VnodeCount >= 1 /\ b.ActiveReqs \in Nat
      BY <3>1, CallerCountPositive
    <3>3. b = [VnodeCount |-> b.VnodeCount, ActiveReqs |-> b.ActiveReqs, Health |-> b.Health,
               Stateful |-> b.Stateful, Draining |-> b.Draining]
      BY DEF NewBackend
    <3>4. b \in Backend
      BY <3>1, <3>2, <3>3, Zenon DEF Backend
    <3>5. QED
      BY <3>1, <3>2, <3>4
  <2>2. VnodesPerServer \in Nat /\ VnodesPerServer >= 1
    BY RingAssumption
  <2>3. CASE id \in DOMAIN backends
    BY <2>1, <2>3
  <2>4. CASE id \notin DOMAIN backends
    BY <2>1, <2>2, <2>4 DEF Backend
  <2>5. QED
    BY <2>3, <2>4
<1>2. IsBackends(bs)
  BY <1>1, InvBackends DEF IsBackends
<1>3. Install(bs)
  BY DEF AddBackend
<1>4. /\ \A x \in DOMAIN bs : x # id => bs[x] = backends[x]
      /\ bs[id].ActiveReqs = 0
  BY <1>1
<1>5. DropStruct({id}) /\ UNCHANGED <<reqCount, inflight>>
  BY DEF AddBackend
<1>6. \A x \in DOMAIN bs : /\ bs[x].ActiveReqs <= inflight'[x]
                           /\ x \in E \ replaced' => bs[x].ActiveReqs = inflight'[x]
  <2> SUFFICES ASSUME NEW x \in DOMAIN bs
               PROVE  /\ bs[x].ActiveReqs <= inflight'[x]
                      /\ x \in E \ replaced' => bs[x].ActiveReqs = inflight'[x]
    OBVIOUS
  <2>1. CASE x = id
    BY <2>1, <1>4, <1>5, DropStructNotes DEF RingInvOn, RingTypeOK
  <2>2. CASE x # id
    BY <2>2, <1>4, <1>5, DropStructNotes DEF RingInvOn, RingTypeOK, AccountedOn
  <2>3. QED
    BY <2>1, <2>2
<1> HIDE DEF bs, nb
<1>7. QED
  BY <1>2, <1>3, <1>5, <1>6, InstallKeepsInv, DropStructNotes DEF RingInvOn, RingTypeOK

LEMMA RemoveBackendInv ==
  ASSUME NEW E, RingInvOn(E), NEW id \in Ids, RemoveBackend(id)
  PROVE  RingInvOn(E)'
<1> DEFINE bs == [x \in DOMAIN backends \ {id} |-> backends[x]]
<1>1. IsBackends(bs) /\ Install(bs)
  BY InvBackends DEF IsBackends, RemoveBackend
<1>2. DropStruct({id}) /\ UNCHANGED <<reqCount, inflight>>
  BY DEF RemoveBackend
<1>3. \A x \in DOMAIN bs : /\ bs[x].ActiveReqs <= inflight'[x]
                           /\ x \in E \ replaced' => bs[x].ActiveReqs = inflight'[x]
  BY <1>2, DropStructNotes DEF RingInvOn, RingTypeOK, AccountedOn
<1> HIDE DEF bs
<1>4. QED
  BY <1>1, <1>2, <1>3, InstallKeepsInv, DropStructNotes DEF RingInvOn, RingTypeOK

LEMMA ReconcileInv ==
  ASSUME NEW E, RingInvOn(E), NEW kernel \in KernelMaps, ReconcileFromEBPF(kernel)
  PROVE  RingInvOn(E)'
<1> DEFINE bs == [id \in DOMAIN kernel |->
                [VnodeCount |-> kernel[id].count, ActiveReqs |-> 0,
                 Health |-> kernel[id].up, Stateful |-> FALSE, Draining |-> FALSE]]
<1>1. PICK S \in SUBSET Ids : kernel \in [S -> [count : CallerCounts, up : BOOLEAN]]
  BY DEF KernelMaps
<1>2. \A id \in S : kernel[id].count \in Nat /\ kernel[id].count >= 1 /\ kernel[id].up \in BOOLEAN
  <2> SUFFICES ASSUME NEW id \in S
               PROVE  kernel[id].count \in Nat /\ kernel[id].count >= 1 /\ kernel[id].up \in BOOLEAN
    OBVIOUS
  <2>1. kernel[id] \in [count : CallerCounts, up : BOOLEAN]
    BY <1>1
  <2>2. kernel[id].count \in CallerCounts /\ kernel[id].up \in BOOLEAN
    BY <2>1
  <2>3. kernel[id].count \in Nat /\ kernel[id].count >= 1
    BY <2>2, CallerCountPositive
  <2>4. QED
    BY <2>2, <2>3
<1>3. IsBackends(bs)
  BY <1>1, <1>2 DEF IsBackends, Backend
<1>4. Install(bs) /\ DropStruct(Ids) /\ UNCHANGED <<reqCount, inflight>>
  BY DEF ReconcileFromEBPF
<1>5. \A x \in DOMAIN bs : /\ bs[x].ActiveReqs <= inflight'[x]
                           /\ x \in E \ replaced' => bs[x].ActiveReqs = inflight'[x]
  BY <1>1, <1>4, DropStructNotes DEF RingInvOn, RingTypeOK
<1> HIDE DEF bs
<1>6. QED
  BY <1>3, <1>4, <1>5, InstallKeepsInv, DropStructNotes DEF RingInvOn, RingTypeOK

(***************************************************************************)
(* Operations that change fields other than ActiveReqs and then rebuild.   *)
(***************************************************************************)
LEMMA FieldsInv ==
  ASSUME NEW E, RingInvOn(E), NEW bs, IsBackends(bs), Install(bs),
         DOMAIN bs = DOMAIN backends,
         \A x \in DOMAIN bs : bs[x].ActiveReqs = backends[x].ActiveReqs,
         UNCHANGED <<reqCount, inflight, replaced>>
  PROVE  RingInvOn(E)'
<1>1. reqCount' \in Nat /\ inflight' \in [Ids -> Nat] /\ replaced' \subseteq Ids
  BY DEF RingInvOn, RingTypeOK
<1>2. \A id \in DOMAIN bs : /\ bs[id].ActiveReqs <= inflight'[id]
                            /\ id \in E \ replaced' => bs[id].ActiveReqs = inflight'[id]
  BY DEF RingInvOn, AccountedOn
<1>3. QED
  BY <1>1, <1>2, InstallKeepsInv

LEMMA SetFieldsInv ==
  ASSUME NEW E, RingInvOn(E),
         \/ \E id \in Ids, h \in BOOLEAN : SetHealth(id, h)
         \/ \E id \in Ids, d \in BOOLEAN : SetDraining(id, d)
         \/ \E d \in BOOLEAN : SetDrainingAll(d)
         \/ \E id \in Ids, n \in 0 .. MaxVnodes : SetVnodeCount(id, n)
         \/ \E hot \in SUBSET Ids : ProactiveAdjust(hot)
  PROVE  RingInvOn(E)'
<1> USE InvBackends
<1>1. ASSUME NEW id \in Ids, NEW h \in BOOLEAN, SetHealth(id, h)
      PROVE  RingInvOn(E)'
  <2> DEFINE bs == [backends EXCEPT ![id].Health = h]
  <2>1. IsBackends(bs) /\ \A x \in DOMAIN bs : bs[x].ActiveReqs = backends[x].ActiveReqs
    BY <1>1 DEF IsBackends, Backend
  <2>2. QED
    BY <1>1, <2>1, FieldsInv DEF SetHealth
<1>2. ASSUME NEW id \in Ids, NEW d \in BOOLEAN, SetDraining(id, d)
      PROVE  RingInvOn(E)'
  <2> DEFINE bs == [backends EXCEPT ![id].Draining = d]
  <2>1. IsBackends(bs) /\ \A x \in DOMAIN bs : bs[x].ActiveReqs = backends[x].ActiveReqs
    BY <1>2 DEF IsBackends, Backend
  <2>2. QED
    BY <1>2, <2>1, FieldsInv DEF SetDraining
<1>3. ASSUME NEW d \in BOOLEAN, SetDrainingAll(d)
      PROVE  RingInvOn(E)'
  <2> DEFINE bs == [id \in DOMAIN backends |-> [backends[id] EXCEPT !.Draining = d]]
  <2>1. IsBackends(bs) /\ \A x \in DOMAIN bs : bs[x].ActiveReqs = backends[x].ActiveReqs
    BY <1>3 DEF IsBackends, Backend
  <2>2. QED
    BY <1>3, <2>1, FieldsInv DEF SetDrainingAll
<1>4. ASSUME NEW id \in Ids, NEW n \in 0 .. MaxVnodes, SetVnodeCount(id, n)
      PROVE  RingInvOn(E)'
  <2> DEFINE m  == IF n < 1 THEN 1 ELSE n
             bs == [backends EXCEPT ![id].VnodeCount = m]
  <2>1. m \in Nat /\ m >= 1
    BY RingAssumption
  <2> HIDE DEF m
  <2>2. IsBackends(bs) /\ \A x \in DOMAIN bs : bs[x].ActiveReqs = backends[x].ActiveReqs
    BY <1>4, <2>1 DEF IsBackends, Backend
  <2>3. QED
    BY <1>4, <2>2, FieldsInv DEF SetVnodeCount, m
<1>5. ASSUME NEW hot \in SUBSET Ids, ProactiveAdjust(hot)
      PROVE  RingInvOn(E)'
  <2> DEFINE bs == [id \in DOMAIN backends |->
       IF id \in hot \intersect Available(backends) /\ backends[id].VnodeCount > 1
       THEN [backends[id] EXCEPT !.VnodeCount = @ - Reduction(@)]
       ELSE backends[id]]
  <2>1. \A id \in DOMAIN backends : backends[id].VnodeCount > 1 =>
          /\ backends[id].VnodeCount - Reduction(backends[id].VnodeCount) \in Nat
          /\ backends[id].VnodeCount - Reduction(backends[id].VnodeCount) >= 1
    BY ReductionLeavesOne DEF IsBackends, Backend
  <2>2. IsBackends(bs) /\ \A x \in DOMAIN bs : bs[x].ActiveReqs = backends[x].ActiveReqs
    BY <2>1 DEF IsBackends, Backend
  <2>3. QED
    BY <1>5, <2>2, FieldsInv DEF ProactiveAdjust
<1>6. QED
  BY <1>1, <1>2, <1>3, <1>4, <1>5

LEMMA RouteInv ==
  ASSUME NEW E, RingInvOn(E), NEW k \in Keys, Route(k)
  PROVE  RingInvOn(E)'
<1> USE InvBackends
<1>1. PICK c \in Chosen(k) : Route(k)!2!(c)
  BY DEF Route
<1> DEFINE counted == [backends EXCEPT ![c].ActiveReqs = @ + 1]
<1>2. c \in DOMAIN backends /\ c \in Ids /\ c \in Available(backends)
  BY ChosenAvailable DEF RingInvOn, Available, IsBackends
<1>3. /\ inflight' = [inflight EXCEPT ![c] = @ + 1]
      /\ inflight' \in [Ids -> Nat]
      /\ UNCHANGED replaced
  <2>1. inflight' = [inflight EXCEPT ![c] = @ + 1]
    BY <1>1
  <2>2. inflight \in [Ids -> Nat]
    BY DEF RingInvOn, RingTypeOK
  <2>3. UNCHANGED replaced
    BY DEF Route
  <2>4. QED
    BY <1>2, <2>1, <2>2, <2>3
<1>4. IsBackends(counted)
  BY <1>2 DEF IsBackends, Backend
<1>5. /\ DOMAIN counted = DOMAIN backends
      /\ \A id \in DOMAIN backends : /\ counted[id].ActiveReqs <= inflight'[id]
                                     /\ id \in E \ replaced' => counted[id].ActiveReqs = inflight'[id]
  BY <1>2, <1>3 DEF RingInvOn, RingTypeOK, AccountedOn, IsBackends, Backend
<1>6. Rebuild(counted) = Rebuild(backends)
  <2>1. Available(counted) = Available(backends)
    BY <1>2 DEF Available, IsBackends, Backend
  <2>2. \A id \in Available(backends) : counted[id].VnodeCount = backends[id].VnodeCount
    BY <1>2 DEF Available, IsBackends, Backend
  <2> HIDE DEF counted
  <2>3. QED
    BY <2>1, <2>2 DEF Rebuild
<1>7. IsBackends(backends') /\ DOMAIN backends' = DOMAIN backends
      /\ \A id \in DOMAIN backends : backends'[id].ActiveReqs = counted[id].ActiveReqs
  <2> HIDE DEF counted
  <2>1. CASE backends' = counted
    BY <2>1, <1>4, <1>5
  <2>2. CASE backends' \in Adjust(counted)
    BY <2>2, <1>4, <1>5, AdjustKeeps
  <2>3. QED
    BY <2>1, <2>2, <1>1 DEF counted
<1>8. ring' = Rebuild(backends')
  <2>1. ring = Rebuild(counted)
    BY <1>6 DEF RingInvOn, RingInSync
  <2> HIDE DEF counted
  <2>2. \/ backends' = counted /\ ring' = ring
        \/ ring' = IF backends' = counted THEN ring ELSE Rebuild(backends')
    BY <1>1 DEF counted
  <2>3. QED
    BY <2>1, <2>2
<1>9. reqCount' \in Nat
  <2>1. CASE AdjustEveryN = 0
    BY <1>1, <2>1 DEF RingInvOn, RingTypeOK
  <2>2. CASE AdjustEveryN # 0
    <3>1. reqCount' = (reqCount + 1) % AdjustEveryN
      BY <1>1, <2>2
    <3>2. reqCount + 1 \in Nat /\ AdjustEveryN \in Nat
      BY RingAssumption DEF RingInvOn, RingTypeOK
    <3>3. (reqCount + 1) % AdjustEveryN \in Nat
      BY <2>2, <3>2
    <3>4. QED
      BY <3>1, <3>3 DEF RingInvOn, RingTypeOK
  <2>3. QED
    BY <2>1, <2>2
<1> HIDE DEF counted
<1>10. \A id \in DOMAIN backends' :
         /\ backends'[id].ActiveReqs <= inflight'[id]
         /\ id \in E \ replaced' => backends'[id].ActiveReqs = inflight'[id]
  BY <1>5, <1>7
<1>11. replaced' \subseteq Ids
  BY <1>3 DEF RingInvOn, RingTypeOK
<1>12. RingTypeOK'
  BY <1>3, <1>7, <1>8, <1>9, <1>11, RebuildType DEF RingTypeOK, IsBackends
<1>13. QED
  BY <1>7, <1>8, <1>10, <1>12
     DEF RingInvOn, RingInSync, VnodesPositive, AccountedOn, IsBackends

LEMMA ReleaseConnInv ==
  ASSUME NEW E, RingInvOn(E), NEW id \in Ids, ReleaseConn(id)
  PROVE  RingInvOn(E)'
<1> USE InvBackends
<1>1. /\ inflight' = [inflight EXCEPT ![id] = @ - 1]
      /\ inflight' \in [Ids -> Nat]
      /\ UNCHANGED <<ring, reqCount, replaced>>
  BY DEF ReleaseConn, RingInvOn, RingTypeOK
<1>2. CASE id \in DOMAIN backends /\ backends[id].ActiveReqs > 0
  <2>1. backends' = [backends EXCEPT ![id].ActiveReqs = @ - 1]
    BY <1>2 DEF ReleaseConn
  <2>2. IsBackends(backends') /\ DOMAIN backends' = DOMAIN backends
    BY <1>2, <2>1 DEF IsBackends, Backend
  <2>3. \A x \in DOMAIN backends :
          /\ backends'[x].VnodeCount = backends[x].VnodeCount
          /\ backends'[x].Health = backends[x].Health
          /\ backends'[x].Draining = backends[x].Draining
    BY <1>2, <2>1 DEF IsBackends, Backend
  <2>4. Rebuild(backends') = Rebuild(backends)
    BY <2>2, <2>3 DEF Rebuild, Available
  <2>5. AccountedOn(E)'
    BY <1>1, <1>2, <2>1, <2>2 DEF RingInvOn, RingTypeOK, AccountedOn, IsBackends, Backend
  <2>6. QED
    BY <1>1, <2>2, <2>4, <2>5 DEF RingInvOn, RingTypeOK, RingInSync, VnodesPositive, IsBackends
<1>3. CASE ~(id \in DOMAIN backends /\ backends[id].ActiveReqs > 0)
  <2>1. backends' = backends
    BY <1>3 DEF ReleaseConn
  <2>2. AccountedOn(E)'
    BY <1>1, <1>3, <2>1 DEF ReleaseConn, RingInvOn, RingTypeOK, AccountedOn, IsBackends, Backend
  <2>3. QED
    BY <1>1, <2>1, <2>2 DEF RingInvOn, RingTypeOK, RingInSync, VnodesPositive
<1>4. QED
  BY <1>2, <1>3

-----------------------------------------------------------------------------
LEMMA RingInitInv == RingInit => RingInv
<1> SUFFICES ASSUME RingInit
             PROVE  RingInv
  OBVIOUS
<1>1. DOMAIN backends = {} /\ backends \in [DOMAIN backends -> Backend]
  BY DEF RingInit
<1>2. Rebuild(backends) = {}
  BY <1>1 DEF Rebuild, Available
<1>3. QED
  BY <1>1, <1>2 DEF RingInit, RingInv, RingInvOn, RingTypeOK, RingInSync, VnodesPositive, AccountedOn

LEMMA RingStepInv == RingInv /\ [RingNext]_ringVars => RingInv'
<1> SUFFICES ASSUME RingInv, [RingNext]_ringVars
             PROVE  RingInv'
  OBVIOUS
<1>1. CASE Administer
  BY <1>1, AddBackendInv, RemoveBackendInv, ReconcileInv, SetFieldsInv DEF RingInv, Administer
<1>2. CASE Serve
  BY <1>2, RouteInv, ReleaseConnInv DEF RingInv, Serve
<1>3. CASE UNCHANGED ringVars
  BY <1>3 DEF ringVars, RingInv, RingInvOn, RingTypeOK, RingInSync, VnodesPositive, AccountedOn
<1>4. QED
  BY <1>1, <1>2, <1>3 DEF RingNext

(* Every reachable state of the manager satisfies the inductive invariant. *)
THEOREM RingInvariant == RingSpec => []RingInv
<1>1. QED
  BY RingInitInv, RingStepInv, PTL DEF RingSpec

(***************************************************************************)
(* The manager's state is well typed: every operation of ring.go, Route    *)
(* and its adjustment included, yields backends and vnodes.                *)
(***************************************************************************)
THEOREM TypeCorrect == RingSpec => []RingTypeOK
<1>1. RingInv => RingTypeOK
  BY DEF RingInv, RingInvOn
<1>2. QED
  BY <1>1, RingInvariant, PTL

(* The ring is never stale with respect to the registered backends. *)
THEOREM RingStaysInSync == RingSpec => []RingInSync
<1>1. RingInv => RingInSync
  BY DEF RingInv, RingInvOn
<1>2. QED
  BY <1>1, RingInvariant, PTL

(* ActiveReqs never overcounts, and is exact while the struct lives. *)
THEOREM ActiveReqsStayAccounted == RingSpec => []ActiveReqsAccounted
<1>1. RingInv => ActiveReqsAccounted
  BY DEF RingInv, RingInvOn, RingTypeOK, AccountedOn, ActiveReqsAccounted
<1>2. QED
  BY <1>1, RingInvariant, PTL

(* While a backend is up and not draining, the ring is not empty. *)
THEOREM NeverBlackout == RingSpec => []NoBlackout
<1>1. RingInv => NoBlackout
  <2> SUFFICES ASSUME RingInv, NEW id \in Available(backends)
               PROVE  ring # {}
    BY DEF NoBlackout
  <2>1. <<id, 0>> \in Rebuild(backends)
    BY InvBackends, RebuildNonEmpty DEF RingInv
  <2>2. QED
    BY <2>1 DEF RingInv, RingInvOn, RingInSync
<1>2. QED
  BY <1>1, RingInvariant, PTL

(* Only Route adds a request to a backend, and the backend is available. *)
LEMMA StepRoutesToAvailable ==
  ASSUME RingInv, [RingNext]_ringVars, NEW id \in Ids, inflight'[id] > inflight[id]
  PROVE  id \in Available(backends)
<1>1. inflight[id] \in Nat /\ inflight' # inflight
  BY DEF RingInv, RingInvOn, RingTypeOK
<1>2. ASSUME NEW k \in Keys, Route(k)
      PROVE  id \in Available(backends)
  <2>1. PICK c \in Chosen(k) : inflight' = [inflight EXCEPT ![c] = @ + 1]
    BY <1>2 DEF Route
  <2>2. c \in Available(backends)
    BY ChosenAvailable DEF RingInv, RingInvOn
  <2>3. c = id
    BY <1>1, <2>1 DEF RingInv, RingInvOn, RingTypeOK
  <2>4. QED
    BY <2>2, <2>3
<1>3. ASSUME NEW x \in Ids, ReleaseConn(x)
      PROVE  FALSE
  BY <1>1, <1>3 DEF ReleaseConn, RingInv, RingInvOn, RingTypeOK
<1>4. ~Administer
  BY <1>1 DEF Administer, AddBackend, RemoveBackend, ReconcileFromEBPF, SetHealth,
              SetDraining, SetDrainingAll, SetVnodeCount, ProactiveAdjust
<1>5. QED
  BY <1>1, <1>2, <1>3, <1>4 DEF RingNext, Serve, ringVars

(***************************************************************************)
(* No request is routed to a backend that is down or draining.             *)
(***************************************************************************)
THEOREM RoutesOnlyToAvailable == RingSpec => RoutesToAvailable
<1>1. RingInv /\ [RingNext]_ringVars =>
        [\A id \in Ids : inflight'[id] > inflight[id] => id \in Available(backends)]_ringVars
  BY StepRoutesToAvailable
<1>2. QED
  BY <1>1, RingInvariant, PTL DEF RingSpec, RoutesToAvailable

-----------------------------------------------------------------------------
(***************************************************************************)
(* Consistent hashing.  How far a key must walk is only known for vnodes   *)
(* that have a position, so the counts must stay within the bound too.     *)
(***************************************************************************)
IsBounded(bs) == \A id \in DOMAIN bs : bs[id].VnodeCount <= MaxVnodes

(* rebuild() gives a backend the vnodes 0 .. Weight - 1. *)
LEMMA WeightIsVnodes ==
  ASSUME NEW bs, IsBackends(bs), NEW id, NEW i \in Nat
  PROVE  <<id, i>> \in Rebuild(bs) <=> i < Weight(bs, id)
<1>1. CASE id \in Available(bs)
  <2>1. Weight(bs, id) = bs[id].VnodeCount /\ bs[id].VnodeCount \in Nat
    BY <1>1 DEF Weight, IsBackends, Available, Backend
  <2>2. i < Weight(bs, id) => i \in 0 .. bs[id].VnodeCount - 1
    BY <2>1
  <2>3. ASSUME <<id, i>> \in Rebuild(bs)
        PROVE  i < Weight(bs, id)
    <3>1. PICK o \in Available(bs) : \E j \in 0 .. bs[o].VnodeCount - 1 : <<id, i>> = <<o, j>>
      BY <2>3, RebuildMember, Zenon
    <3>2. i \in 0 .. bs[id].VnodeCount - 1
      BY <3>1
    <3>3. QED
      BY <2>1, <3>2
  <2>4. QED
    BY <1>1, <2>2, <2>3, RebuildMember, Zenon
<1>2. CASE id \notin Available(bs)
  <2>1. Weight(bs, id) = 0
    BY <1>2 DEF Weight
  <2>2. <<id, i>> \notin Rebuild(bs)
    BY <1>2, RebuildMember
  <2>3. QED
    BY <2>1, <2>2
<1>3. QED
  BY <1>1, <1>2

(* A vnode on the ring is a backend's, and its distance from a key a number. *)
LEMMA VnodeShape ==
  ASSUME NEW bs, IsBackends(bs), IsBounded(bs), NEW v \in Rebuild(bs), NEW k \in Keys
  PROVE  v = <<v[1], v[2]>> /\ v[2] \in Nat /\ Distance(k, v) \in Nat
<1>1. PICK id \in Available(bs) : \E i \in 0 .. bs[id].VnodeCount - 1 : v = <<id, i>>
  BY RebuildMember
<1>2. PICK i \in 0 .. bs[id].VnodeCount - 1 : v = <<id, i>>
  BY <1>1
<1>3. id \in Ids /\ bs[id].VnodeCount \in Nat /\ bs[id].VnodeCount <= MaxVnodes
  BY DEF IsBackends, IsBounded, Available, Backend
<1>4. i \in 0 .. MaxVnodes - 1 /\ i \in Nat
  BY <1>3, RingAssumption
<1>5. Pos(id, i) \in 0 .. RingSize - 1
  BY <1>3, <1>4, PositionAssumption
<1>6. RingSize \in Nat /\ RingSize > 0 /\ k \in Int
  BY RingAssumption
<1> DEFINE walk == Pos(id, i) - k - 1
<1>7. walk \in Int
  BY <1>5, <1>6
<1> HIDE DEF walk
<1>8. (walk % RingSize) \in Nat
  BY <1>6, <1>7
<1>9. Distance(k, v) = walk % RingSize
  BY <1>2 DEF Distance, walk
<1>10. QED
  BY <1>2, <1>4, <1>8, <1>9

(* Some vnode of a ring that is not empty is nearest to a key. *)
LEMMA NearestExists ==
  ASSUME NEW bs, IsBackends(bs), IsBounded(bs), NEW k \in Keys, Rebuild(bs) # {}
  PROVE  Nearest(k, Rebuild(bs)) # {}
<1> DEFINE walks == {Distance(k, v) : v \in Rebuild(bs)}
<1>1. walks \subseteq Nat /\ walks # {}
  BY VnodeShape
<1> HIDE DEF walks
<1>2. PICK d \in walks : \A e \in walks : ~(<<e, d>> \in OpToRel(<, Nat))
  BY <1>1, NatLessThanWellFounded, WFMin
<1>3. \A e \in walks : ~(e < d)
  BY <1>1, <1>2, Zenon DEF OpToRel
<1>4. \A e \in walks : d <= e
  BY <1>1, <1>3
<1>5. PICK v \in Rebuild(bs) : d = Distance(k, v)
  BY DEF walks
<1>6. \A w \in Rebuild(bs) : Distance(k, v) <= Distance(k, w)
  BY <1>4, <1>5, Zenon DEF walks
<1>7. QED
  BY <1>5, <1>6, Zenon DEF Nearest

(***************************************************************************)
(* A key that leaves a backend whose weight did not shrink finds nearer a  *)
(* vnode that was not there before, so its new owner's weight grew.        *)
(***************************************************************************)
LEMMA KeysLeaveForGrowth ==
  ASSUME NEW bs, NEW bt, IsBackends(bs), IsBackends(bt), IsBounded(bs), IsBounded(bt),
         NEW k \in Keys, NEW id \in Owners(Rebuild(bs), k) \ Owners(Rebuild(bt), k),
         Weight(bt, id) >= Weight(bs, id)
  PROVE  \E o \in Owners(Rebuild(bt), k) : Weight(bt, o) > Weight(bs, o)
<1>1. PICK v \in Nearest(k, Rebuild(bs)) : id = v[1]
  BY DEF Owners
<1>2. v \in Rebuild(bs) /\ \A w \in Rebuild(bs) : Distance(k, v) <= Distance(k, w)
  BY DEF Nearest
<1>3. \A b : b \in {bs, bt} => \A x : Weight(b, x) \in Nat
  BY DEF Weight, IsBackends, Available, Backend
<1>4. v \in Rebuild(bt)
  <2>1. v = <<id, v[2]>> /\ v[2] \in Nat
    BY <1>1, <1>2, VnodeShape
  <2>2. v[2] < Weight(bs, id)
    BY <1>2, <2>1, WeightIsVnodes
  <2>3. v[2] < Weight(bt, id)
    BY <1>3, <2>1, <2>2
  <2>4. QED
    BY <2>1, <2>3, WeightIsVnodes
<1>5. PICK w \in Nearest(k, Rebuild(bt)) : TRUE
  BY <1>4, NearestExists
<1>6. w \in Rebuild(bt) /\ \A u \in Rebuild(bt) : Distance(k, w) <= Distance(k, u)
  BY DEF Nearest
<1>7. w[1] \in Owners(Rebuild(bt), k)
  BY <1>5 DEF Owners
<1>8. w \notin Rebuild(bs)
  <2> SUFFICES ASSUME w \in Rebuild(bs)
               PROVE  FALSE
    OBVIOUS
  <2>1. Distance(k, v) \in Nat /\ Distance(k, w) \in Nat
    BY <1>2, <1>6, VnodeShape
  <2>2. Distance(k, v) <= Distance(k, w) /\ Distance(k, w) <= Distance(k, v)
    BY <1>2, <1>4, <1>6
  <2>3. Distance(k, v) = Distance(k, w)
    BY <2>1, <2>2
  <2>4. v \in Nearest(k, Rebuild(bt))
    BY <1>4, <1>6, <2>3, Zenon DEF Nearest
  <2>5. QED
    BY <1>1, <2>4, Zenon DEF Owners
<1>9. w = <<w[1], w[2]>> /\ w[2] \in Nat
  BY <1>6, VnodeShape
<1>10. w[2] < Weight(bt, w[1]) /\ ~(w[2] < Weight(bs, w[1]))
  BY <1>6, <1>8, <1>9, WeightIsVnodes
<1>11. Weight(bt, w[1]) > Weight(bs, w[1])
  BY <1>3, <1>9, <1>10
<1>12. QED
  BY <1>7, <1>11

(* No operation raises a count above the bound. *)
LEMMA StepBounded ==
  ASSUME RingInv, IsBounded(backends), [RingNext]_ringVars
  PROVE  IsBounded(backends')
<1> USE RingAssumption
<1>1. IsBackends(backends) /\ MaxVnodes \in Nat
  BY InvBackends DEF RingInv
<1>2. ASSUME NEW id \in Ids, NEW b \in NewBackend, AddBackend(id, b)
      PROVE  IsBounded(backends')
  <2>1. b.VnodeCount <= MaxVnodes
    <3>1. b.VnodeCount \in CallerCounts
      BY Zenon DEF NewBackend
    <3>2. b.VnodeCount \in 1 .. MaxVnodes
      BY <3>1
    <3>3. QED
      BY <3>2
  <2>2. [b EXCEPT !.VnodeCount = VnodesPerServer].VnodeCount = VnodesPerServer
    BY DEF NewBackend
  <2>3. /\ DOMAIN backends' = DOMAIN backends \union {id}
        /\ \A x \in DOMAIN backends : x # id => backends'[x] = backends[x]
        /\ backends'[id].VnodeCount \in {b.VnodeCount, VnodesPerServer}
    BY <1>2, <2>2 DEF AddBackend, Install
  <2>4. QED
    BY <2>1, <2>3 DEF IsBounded
<1>3. ASSUME NEW id \in Ids, RemoveBackend(id)
      PROVE  IsBounded(backends')
  BY <1>3 DEF RemoveBackend, Install, IsBounded
<1>4. ASSUME NEW kernel \in KernelMaps, ReconcileFromEBPF(kernel)
      PROVE  IsBounded(backends')
  <2>1. PICK S \in SUBSET Ids : kernel \in [S -> [count : CallerCounts, up : BOOLEAN]]
    BY DEF KernelMaps
  <2>2. \A id \in S : kernel[id].count <= MaxVnodes
    <3> SUFFICES ASSUME NEW id \in S
                 PROVE  kernel[id].count <= MaxVnodes
      OBVIOUS
    <3>1. kernel[id] \in [count : CallerCounts, up : BOOLEAN]
      BY <2>1
    <3>2. kernel[id].count \in 1 .. MaxVnodes
      BY <3>1
    <3>3. QED
      BY <3>2
  <2>3. QED
    BY <1>4, <2>1, <2>2 DEF ReconcileFromEBPF, Install, IsBounded
<1>5. ASSUME NEW id \in Ids, NEW h \in BOOLEAN, SetHealth(id, h) \/ SetDraining(id, h)
      PROVE  IsBounded(backends')
  BY <1>1, <1>5 DEF SetHealth, SetDraining, Install, IsBounded, IsBackends, Backend
<1>6. ASSUME NEW d \in BOOLEAN, SetDrainingAll(d)
      PROVE  IsBounded(backends')
  BY <1>1, <1>6 DEF SetDrainingAll, Install, IsBounded, IsBackends, Backend
<1>7. ASSUME NEW id \in Ids, NEW n \in 0 .. MaxVnodes, SetVnodeCount(id, n)
      PROVE  IsBounded(backends')
  <2> DEFINE m == IF n < 1 THEN 1 ELSE n
  <2>1. m <= MaxVnodes
    OBVIOUS
  <2>2. backends' = [backends EXCEPT ![id].VnodeCount = m]
    BY <1>7 DEF SetVnodeCount, Install
  <2> HIDE DEF m
  <2>3. QED
    BY <1>1, <2>1, <2>2 DEF IsBounded, IsBackends, Backend
<1>8. ASSUME NEW hot \in SUBSET Ids, ProactiveAdjust(hot)
      PROVE  IsBounded(backends')
  <2>1. ASSUME NEW c \in Nat
        PROVE  c - Reduction(c) <= c
    BY DEF Reduction
  <2>2. ASSUME NEW id \in DOMAIN backends
        PROVE  backends'[id].VnodeCount <= backends[id].VnodeCount
    <3>1. backends[id] \in Backend /\ backends[id].VnodeCount \in Nat
      BY <1>1 DEF IsBackends, Backend
    <3>2. [backends[id] EXCEPT !.VnodeCount = @ - Reduction(@)].VnodeCount <= backends[id].VnodeCount
      BY <2>1, <3>1 DEF Backend
    <3>3. QED
      BY <1>8, <3>1, <3>2 DEF ProactiveAdjust, Install
  <2>3. DOMAIN backends' = DOMAIN backends
    BY <1>8 DEF ProactiveAdjust, Install
  <2>4. RingInv'
    BY <1>8, SetFieldsInv DEF RingInv
  <2>5. IsBackends(backends')
    BY <2>4 DEF RingInv, RingInvOn, RingTypeOK, VnodesPositive, IsBackends
  <2>6. QED
    BY <1>1, <2>2, <2>3, <2>5 DEF IsBounded, IsBackends, Backend
<1>9. ASSUME NEW k \in Keys, Route(k)
      PROVE  IsBounded(backends')
  <2>1. PICK c \in Chosen(k) : Route(k)!2!(c)
    BY <1>9 DEF Route
  <2> DEFINE counted == [backends EXCEPT ![c].ActiveReqs = @ + 1]
  <2>2. c \in DOMAIN backends
    BY ChosenAvailable DEF RingInv, RingInvOn, Available
  <2>3. IsBackends(counted) /\ DOMAIN counted = DOMAIN backends /\ IsBounded(counted)
    BY <1>1, <2>2 DEF IsBackends, IsBounded, Backend
  <2> HIDE DEF counted
  <2>4. CASE backends' = counted
    BY <2>3, <2>4
  <2>5. CASE AdjustEveryN # 0
    <3>1. \A id \in DOMAIN backends : backends'[id].VnodeCount <= MaxVnodes
      BY <2>1, <2>5
    <3>2. backends' = counted \/ backends' \in Adjust(counted)
      BY <2>1, <2>5 DEF counted
    <3>3. DOMAIN backends' = DOMAIN backends
      BY <2>3, <3>2, AdjustKeeps
    <3>4. QED
      BY <3>1, <3>3 DEF IsBounded
  <2>6. QED
    BY <2>1, <2>4, <2>5 DEF counted
<1>10. ASSUME NEW id \in Ids, ReleaseConn(id)
       PROVE  IsBounded(backends')
  BY <1>1, <1>10 DEF ReleaseConn, IsBounded, IsBackends, Backend
<1>11. CASE UNCHANGED ringVars
  BY <1>11 DEF ringVars
<1>12. QED
  BY <1>2, <1>3, <1>4, <1>5, <1>6, <1>7, <1>8, <1>9, <1>10, <1>11
     DEF RingNext, Administer, Serve

LEMMA StepDisruptsLittle ==
  ASSUME RingInv, IsBounded(backends), [RingNext]_ringVars, NEW k \in Keys,
         NEW id \in Owners(ring, k) \ Owners(ring', k), Weight(backends', id) >= Weight(backends, id)
  PROVE  \E o \in Owners(ring', k) : Weight(backends', o) > Weight(backends, o)
<1>1. RingInv' /\ IsBounded(backends')
  BY RingStepInv, StepBounded
<1>2. /\ IsBackends(backends) /\ IsBackends(backends')
      /\ ring = Rebuild(backends) /\ ring' = Rebuild(backends')
  BY <1>1 DEF RingInv, RingInvOn, RingInSync, RingTypeOK, VnodesPositive, IsBackends
<1>3. QED
  BY <1>1, <1>2, KeysLeaveForGrowth

(***************************************************************************)
(* Consistent hashing: whatever changes the ring, a key leaves a backend   *)
(* whose weight did not shrink only for a backend whose weight grew.       *)
(***************************************************************************)
THEOREM DisruptionTheorem == RingSpec => MinimalDisruption
<1>1. RingInit => IsBounded(backends)
  BY DEF RingInit, IsBounded
<1>2. RingInv /\ IsBounded(backends) /\ [RingNext]_ringVars => IsBounded(backends')
  BY StepBounded
<1>3. RingInv /\ IsBounded(backends) /\ [RingNext]_ringVars =>
        [\A k \in Keys : \A id \in Owners(ring, k) \ Owners(ring', k) :
           Weight(backends', id) >= Weight(backends, id) =>
             \E o \in Owners(ring', k) : Weight(backends', o) > Weight(backends, o)]_ringVars
  BY StepDisruptsLittle
<1>4. IsBounded(backends)' <=> IsBounded(backends')
  BY DEF IsBounded
<1>5. QED
  BY <1>1, <1>2, <1>3, <1>4, RingInvariant, PTL DEF RingSpec, MinimalDisruption

(***************************************************************************)
(* Affinity. AffinityInv is not inductive: ReleaseConn and Route keep the  *)
(* counters below the requests in flight only on a ring that is in sync,   *)
(* so it is proved from RingInvOn({}), the manager's invariant without     *)
(* exactness.  PinImmutable needs more, for a Register writes what its     *)
(* caller learnt two lock sections ago: PinsGuarded says that what it      *)
(* learnt still holds.                                                     *)
(***************************************************************************)

(* Caller c is serving a request of session s. *)
Serves(c, s) == call[c] # Idle /\ call[c].key = s

(***************************************************************************)
(* A session that never raced has at most one caller, and if that caller   *)
(* has missed, no live record has appeared since.                          *)
(***************************************************************************)
PinsGuarded ==
  \A s \in Sessions \ raced : \A c \in Callers : Serves(c, s) =>
    /\ \A d \in Callers : Serves(d, s) => d = c
    /\ call[c].step \in {"ring", "register"} => ~Live(s)

AffinityIInv == RingInvOn({}) /\ AffinityTypeOK /\ PinsGuarded

-----------------------------------------------------------------------------
(* The places a caller can be at, and what it holds there. *)
LEMMA CallShape ==
  ASSUME NEW l \in Call
  PROVE  /\ l = Idle <=> l.step = "idle"
         /\ l # Idle => l.key \in Sessions
         /\ l.step \in {"verify", "expire", "register"} => l.id \in Ids
<1>1. CASE l = Idle
  BY <1>1 DEF Idle
<1>2. CASE l \in [step : {"ring"}, key : Sessions]
  <2>1. l.step = "ring" /\ l.key \in Sessions
    BY <1>2
  <2>2. l # Idle
    BY <2>1 DEF Idle
  <2>3. QED
    BY <2>1, <2>2
<1>3. CASE l \in [step : {"verify", "expire", "register"}, key : Sessions, id : Ids]
  <2>1. l.step \in {"verify", "expire", "register"} /\ l.key \in Sessions /\ l.id \in Ids
    BY <1>3
  <2>2. l # Idle
    BY <2>1 DEF Idle
  <2>3. QED
    BY <2>1, <2>2
<1>4. QED
  BY <1>1, <1>2, <1>3, Zenon DEF Call

LEMMA ToRingShape ==
  ASSUME NEW s \in Sessions
  PROVE  ToRing(s) \in Call /\ ToRing(s).key = s /\ ToRing(s).step = "ring"
<1>1. ToRing(s) \in [step : {"ring"}, key : Sessions]
  BY DEF ToRing
<1>2. QED
  BY <1>1, Zenon DEF Call, ToRing

LEMMA HeldIdShape ==
  ASSUME NEW s \in Sessions, NEW id \in Ids, NEW p \in {"verify", "expire", "register"}
  PROVE  LET l == [step |-> p, key |-> s, id |-> id]
         IN  l \in Call /\ l.key = s /\ l.step = p
<1>1. [step |-> p, key |-> s, id |-> id]
        \in [step : {"verify", "expire", "register"}, key : Sessions, id : Ids]
  OBVIOUS
<1>2. QED
  BY <1>1, Zenon DEF Call

(* A caller's step moves that caller only. *)
LEMMA GotoMoves ==
  ASSUME call \in [Callers -> Call], NEW c \in Callers, NEW l \in Call, Goto(c, l)
  PROVE  /\ call' \in [Callers -> Call]
         /\ call'[c] = l
         /\ \A d \in Callers \ {c} : call'[d] = call[d]
  BY DEF Goto

(* Registering a pin touches the record of its session only. *)
LEMMA WithRecord ==
  ASSUME NEW s \in Sessions, NEW id \in Ids,
         DOMAIN sessions \subseteq Sessions, sessions \in [DOMAIN sessions -> Record]
  PROVE  /\ DOMAIN With(s, id) = DOMAIN sessions \union {s}
         /\ With(s, id) \in [DOMAIN With(s, id) -> Record]
         /\ \A x \in DOMAIN sessions \ {s} : With(s, id)[x] = sessions[x]
<1>1. [backendID |-> id, expired |-> FALSE] \in Record
  BY DEF Record
<1>2. QED
  BY <1>1 DEF With

-----------------------------------------------------------------------------
(***************************************************************************)
(* A caller that goes idle, or goes on with the same session, keeps the    *)
(* guard if no record comes to life and it is not on a miss while its      *)
(* record lives.                                                           *)
(***************************************************************************)
LEMMA MoveGuarded ==
  ASSUME AffinityIInv, NEW c \in Callers, NEW l \in Call, NEW k, Goto(c, l), raced' = raced,
         \A s \in Sessions : Live(s)' => Live(s),
         l # Idle => Serves(c, k) /\ l.key = k,
         l # Idle /\ l.step \in {"ring", "register"} /\ k \notin raced => ~Live(k)'
  PROVE  PinsGuarded'
<1>1. /\ call'[c] = l
      /\ \A d \in Callers \ {c} : call'[d] = call[d]
  BY GotoMoves DEF AffinityIInv, AffinityTypeOK
<1> SUFFICES ASSUME NEW s \in Sessions, s \notin raced, NEW e \in Callers, Serves(e, s)'
             PROVE  /\ \A d \in Callers : Serves(d, s)' => d = e
                    /\ call'[e].step \in {"ring", "register"} => ~Live(s)'
  BY DEF PinsGuarded
<1>2. \A d \in Callers : Serves(d, s)' => Serves(d, s)
  BY <1>1 DEF Serves
<1>3. \A d \in Callers : Serves(d, s)' => d = e
  BY <1>2 DEF AffinityIInv, PinsGuarded
<1>4. call'[e].step \in {"ring", "register"} => ~Live(s)'
  <2>1. CASE e = c
    BY <1>1, <2>1 DEF Serves
  <2>2. CASE e # c
    BY <1>1, <1>2, <2>2 DEF AffinityIInv, PinsGuarded
  <2>3. QED
    BY <2>1, <2>2
<1>5. QED
  BY <1>3, <1>4

(* Steps of others than callers bring no record to life. *)
LEMMA ShrinkGuarded ==
  ASSUME PinsGuarded, UNCHANGED <<call, raced>>,
         \A s \in Sessions : Live(s)' => Live(s)
  PROVE  PinsGuarded'
  BY DEF PinsGuarded, Serves

(***************************************************************************)
(* Deleting records, or ageing one, leaves the table well typed and brings *)
(* no record to life.                                                      *)
(***************************************************************************)
LEMMA TableShrinks ==
  ASSUME DOMAIN sessions \subseteq Sessions, sessions \in [DOMAIN sessions -> Record],
         \/ \E s \in Sessions : sessions' = Without(s)
         \/ \E s \in Sessions : Live(s) /\ sessions' = [sessions EXCEPT ![s].expired = TRUE]
         \/ sessions' = [s \in {x \in DOMAIN sessions : ~sessions[x].expired} |-> sessions[s]]
  PROVE  /\ DOMAIN sessions' \subseteq DOMAIN sessions
         /\ sessions' \in [DOMAIN sessions' -> Record]
         /\ \A x \in DOMAIN sessions' : sessions'[x].backendID = sessions[x].backendID
         /\ \A s \in Sessions : Live(s)' => Live(s)
<1>1. ASSUME NEW s \in Sessions, sessions' = Without(s)
      PROVE  /\ DOMAIN sessions' \subseteq DOMAIN sessions
             /\ \A x \in DOMAIN sessions' : sessions'[x] = sessions[x]
             /\ sessions' \in [DOMAIN sessions' -> Record]
  BY <1>1 DEF Without
<1>2. ASSUME NEW s \in Sessions, Live(s), sessions' = [sessions EXCEPT ![s].expired = TRUE]
      PROVE  /\ DOMAIN sessions' = DOMAIN sessions
             /\ \A x \in DOMAIN sessions' : sessions'[x] \in Record
             /\ \A x \in DOMAIN sessions' : sessions'[x].backendID = sessions[x].backendID
             /\ \A x \in DOMAIN sessions' : ~sessions'[x].expired => ~sessions[x].expired
             /\ sessions' \in [DOMAIN sessions' -> Record]
  <2> DEFINE rec == [sessions[s] EXCEPT !.expired = TRUE]
  <2>1. s \in DOMAIN sessions /\ ~sessions[s].expired /\ sessions[s] \in Record
    BY <1>2 DEF Live, Pinned
  <2>2. rec \in Record /\ rec.backendID = sessions[s].backendID
    BY <2>1 DEF Record
  <2>3. sessions' = [sessions EXCEPT ![s] = rec]
    BY <1>2, Zenon
  <2> HIDE DEF rec
  <2>4. QED
    BY <2>1, <2>2, <2>3
<1>3. ASSUME sessions' = [s \in {x \in DOMAIN sessions : ~sessions[x].expired} |-> sessions[s]]
      PROVE  /\ DOMAIN sessions' \subseteq DOMAIN sessions
             /\ \A x \in DOMAIN sessions' : sessions'[x] = sessions[x]
             /\ sessions' \in [DOMAIN sessions' -> Record]
  BY <1>3
<1>4. QED
  BY <1>1, <1>2, <1>3 DEF Live, Pinned

-----------------------------------------------------------------------------
LEMMA InitAffinity == AffinityInit => AffinityIInv
<1> SUFFICES ASSUME AffinityInit
             PROVE  AffinityIInv
  OBVIOUS
<1>1. VnodesPerServer \in Nat /\ VnodesPerServer >= 1
  BY RingAssumption
<1>2. IsBackends(backends) /\ DOMAIN backends = Ids
  BY <1>1 DEF AffinityInit, IsBackends, Backend
<1>3. RingTypeOK
  BY <1>2, RebuildType DEF AffinityInit, RingTypeOK, IsBackends
<1>4. RingInvOn({})
  BY <1>2, <1>3 DEF AffinityInit, RingInvOn, RingInSync, VnodesPositive, AccountedOn, IsBackends
<1>5. Idle \in Call
  BY Zenon DEF Call
<1>6. AffinityTypeOK
  BY <1>3, <1>5, AffinityAssumption DEF AffinityInit, AffinityTypeOK
<1>7. PinsGuarded
  BY DEF AffinityInit, PinsGuarded, Serves
<1>8. QED
  BY <1>4, <1>6, <1>7 DEF AffinityIInv

-----------------------------------------------------------------------------
LEMMA LookupInv ==
  ASSUME AffinityIInv, NEW c \in Callers, NEW s \in Sessions, Lookup(c, s)
  PROVE  AffinityIInv'
<1>1. /\ UNCHANGED <<ringVars, sessions>>
      /\ DOMAIN sessions \subseteq Sessions /\ sessions \in [DOMAIN sessions -> Record]
      /\ call \in [Callers -> Call]
  BY DEF Lookup, AffinityIInv, AffinityTypeOK
<1>2. PICK l \in Call : /\ Goto(c, l) /\ l.key = s
                        /\ l.step \in {"ring", "register"} => ~Live(s)
  <2>1. CASE Live(s) /\ Goto(c, [step |-> "verify", key |-> s, id |-> sessions[s].backendID])
    <3> DEFINE l == [step |-> "verify", key |-> s, id |-> sessions[s].backendID]
    <3>1. sessions[s].backendID \in Ids
      BY <1>1, <2>1 DEF Live, Pinned, Record
    <3>2. l \in Call /\ l.key = s /\ l.step = "verify"
      BY <3>1, HeldIdShape, Zenon
    <3>3. ~(l.step \in {"ring", "register"})
      BY <3>2
    <3>4. QED
      BY <2>1, <3>2, <3>3, Zenon
  <2>2. CASE ~Live(s) /\ Goto(c, ToRing(s))
    BY <2>2, ToRingShape, Zenon
  <2>3. QED
    BY <2>1, <2>2, Zenon DEF Lookup, Live
<1>3. expirers' \in [Sessions -> 0 .. MaxExpirers]
  <2>1. CASE UNCHANGED expirers
    BY <2>1 DEF AffinityIInv, AffinityTypeOK
  <2>2. CASE expirers[s] < MaxExpirers /\ expirers' = [expirers EXCEPT ![s] = @ + 1]
    <3>1. expirers \in [Sessions -> 0 .. MaxExpirers] /\ expirers[s] + 1 \in 0 .. MaxExpirers
      BY <2>2, AffinityAssumption DEF AffinityIInv, AffinityTypeOK
    <3>2. QED
      BY <2>2, <3>1
  <2>3. QED
    BY <2>1, <2>2, Zenon DEF Lookup
<1>4. /\ call' \in [Callers -> Call]
      /\ call'[c] = l
      /\ \A d \in Callers \ {c} : call'[d] = call[d]
  BY <1>1, <1>2, GotoMoves, Zenon
<1>5. /\ raced' \subseteq Sessions
      /\ raced \subseteq raced'
      /\ s \notin raced' => \A d \in Callers \ {c} : ~Serves(d, s)
  BY DEF Lookup, NoteRace, Serves, AffinityIInv, AffinityTypeOK
<1>6. \A x : Live(x)' <=> Live(x)
  BY <1>1 DEF Live, Pinned
<1>7. PinsGuarded'
  <2> SUFFICES ASSUME NEW x \in Sessions, x \notin raced', NEW e \in Callers, Serves(e, x)'
               PROVE  /\ \A d \in Callers : Serves(d, x)' => d = e
                      /\ call'[e].step \in {"ring", "register"} => ~Live(x)
    BY <1>6, Zenon DEF PinsGuarded
  <2>1. CASE x = s
    <3>1. \A d \in Callers \ {c} : ~Serves(d, s)'
      BY <1>4, <1>5, <2>1 DEF Serves
    <3>2. e = c
      BY <2>1, <3>1
    <3>3. QED
      BY <1>2, <1>4, <2>1, <3>1, <3>2
  <2>2. CASE x # s
    <3>1. \A d \in Callers : Serves(d, x)' => Serves(d, x) /\ call'[d] = call[d]
      BY <1>2, <1>4, <2>2 DEF Serves
    <3>2. QED
      BY <1>5, <3>1 DEF AffinityIInv, PinsGuarded
  <2>3. QED
    BY <2>1, <2>2
<1>8. RingInvOn({})' /\ RingTypeOK'
  BY <1>1 DEF AffinityIInv, RingInvOn, ringVars, RingTypeOK, RingInSync, VnodesPositive, AccountedOn
<1>9. QED
  BY <1>1, <1>3, <1>4, <1>5, <1>7, <1>8 DEF AffinityIInv, AffinityTypeOK

(* Steps that leave the manager alone keep its invariant. *)
LEMMA RingUntouched ==
  ASSUME NEW E, RingInvOn(E), UNCHANGED ringVars
  PROVE  RingInvOn(E)' /\ RingTypeOK'
  BY DEF RingInvOn, ringVars, RingTypeOK, RingInSync, VnodesPositive, AccountedOn

LEMMA VerifyInv ==
  ASSUME AffinityIInv, NEW c \in Callers, Verify(c)
  PROVE  AffinityIInv'
<1>1. /\ UNCHANGED <<backends, ring, reqCount, replaced, sessions, expirers, raced>>
      /\ call \in [Callers -> Call] /\ call[c] \in Call
      /\ RingTypeOK /\ inflight \in [Ids -> Nat]
  BY DEF Verify, AffinityIInv, AffinityTypeOK, RingTypeOK
<1>2. /\ call[c] # Idle /\ call[c].step = "verify"
      /\ call[c].key \in Sessions /\ call[c].id \in Ids
  BY <1>1, CallShape DEF Verify
<1>3. \A x : Live(x)' <=> Live(x)
  BY <1>1 DEF Live, Pinned
<1>4. CASE inflight' = [inflight EXCEPT ![call[c].id] = @ + 1] /\ Goto(c, Idle)
  <2>1. Idle \in Call
    BY Zenon DEF Call
  <2>2. PinsGuarded'
    BY <1>1, <1>3, <1>4, <2>1, MoveGuarded, Zenon
  <2>3. call' \in [Callers -> Call]
    BY <1>1, <1>4, <2>1, GotoMoves, Zenon
  <2>4. inflight' \in [Ids -> Nat] /\ \A id \in Ids : inflight[id] <= inflight'[id]
    BY <1>1, <1>2, <1>4
  <2>5. AccountedOn({})'
    <3>1. \A id \in DOMAIN backends : id \in Ids /\ backends[id].ActiveReqs \in Nat
      BY <1>1 DEF RingTypeOK, Backend
    <3>2. QED
      BY <1>1, <2>4, <3>1 DEF AffinityIInv, RingInvOn, AccountedOn
  <2>6. RingInvOn({})' /\ RingTypeOK'
    BY <1>1, <2>4, <2>5 DEF AffinityIInv, RingInvOn, RingTypeOK, RingInSync, VnodesPositive
  <2>7. QED
    BY <1>1, <2>2, <2>3, <2>6 DEF AffinityIInv, AffinityTypeOK
<1>5. CASE inflight' = inflight /\ Goto(c, [call[c] EXCEPT !.step = "expire"])
  <2> DEFINE l == [call[c] EXCEPT !.step = "expire"]
  <2>1. l \in Call /\ l.step = "expire" /\ l.key = call[c].key
    <3>1. call[c] \in [step : {"verify", "expire", "register"}, key : Sessions, id : Ids]
      <4>1. call[c] \notin [step : {"ring"}, key : Sessions]
        BY <1>2
      <4>2. QED
        BY <1>1, <1>2, <4>1, Zenon DEF Call
    <3>2. l = [step |-> "expire", key |-> call[c].key, id |-> call[c].id]
      BY <3>1
    <3>3. /\ [step |-> "expire", key |-> call[c].key, id |-> call[c].id] \in Call
          /\ [step |-> "expire", key |-> call[c].key, id |-> call[c].id].key = call[c].key
      BY <1>2, HeldIdShape, Zenon
    <3>4. l.step = "expire"
      BY <3>2
    <3>5. QED
      BY <3>2, <3>3, <3>4, Zenon
  <2> HIDE DEF l
  <2>2. PinsGuarded'
    <3>1. Goto(c, l) /\ ~(l.step \in {"ring", "register"})
      BY <1>5, <2>1 DEF l
    <3>2. Serves(c, call[c].key)
      BY <1>2 DEF Serves
    <3>3. QED
      BY <1>1, <1>3, <2>1, <3>1, <3>2, MoveGuarded, Zenon
  <2>3. call' \in [Callers -> Call]
    BY <1>1, <1>5, <2>1, GotoMoves, Zenon DEF l
  <2>4. RingInvOn({})' /\ RingTypeOK'
    BY <1>1, <1>5, RingUntouched DEF AffinityIInv, ringVars
  <2>5. QED
    BY <1>1, <2>2, <2>3, <2>4 DEF AffinityIInv, AffinityTypeOK
<1>6. QED
  BY <1>4, <1>5, Zenon DEF Verify

LEMMA ExpireDownInv ==
  ASSUME AffinityIInv, NEW c \in Callers, ExpireDown(c)
  PROVE  AffinityIInv'
<1> PICK k : k = call[c].key
  OBVIOUS
<1>1. /\ UNCHANGED <<ringVars, expirers, raced>> /\ Goto(c, ToRing(k))
      /\ call \in [Callers -> Call] /\ call[c] \in Call
      /\ DOMAIN sessions \subseteq Sessions /\ sessions \in [DOMAIN sessions -> Record]
  BY DEF ExpireDown, AffinityIInv, AffinityTypeOK
<1>2. Serves(c, k) /\ k \in Sessions
  BY <1>1, CallShape DEF ExpireDown, Serves
<1>3. ToRing(k) \in Call /\ ToRing(k).key = k
  BY <1>2, ToRingShape
<1>4. /\ sessions' = Without(k)
      /\ \A s \in Sessions : Live(s)' => Live(s)
      /\ DOMAIN sessions' \subseteq DOMAIN sessions
      /\ sessions' \in [DOMAIN sessions' -> Record]
  BY <1>1, <1>2, TableShrinks DEF ExpireDown
<1>5. ~Live(k)'
  BY <1>4 DEF Without, Live, Pinned
<1>6. PinsGuarded'
  BY <1>1, <1>2, <1>3, <1>4, <1>5, MoveGuarded, Zenon
<1>7. call' \in [Callers -> Call]
  BY <1>1, <1>3, GotoMoves, Zenon
<1>8. RingInvOn({})' /\ RingTypeOK'
  BY <1>1, RingUntouched DEF AffinityIInv
<1>9. QED
  BY <1>1, <1>4, <1>6, <1>7, <1>8 DEF AffinityIInv, AffinityTypeOK

LEMMA RouteRingInv ==
  ASSUME AffinityIInv, NEW c \in Callers, NEW q \in Keys, RouteRing(c, q)
  PROVE  AffinityIInv'
<1> PICK k : k = call[c].key
  OBVIOUS
<1>1. /\ UNCHANGED <<sessions, expirers, raced>>
      /\ call \in [Callers -> Call] /\ call[c] \in Call
  BY DEF RouteRing, AffinityIInv, AffinityTypeOK
<1>2. Serves(c, k) /\ k \in Sessions /\ call[c].step = "ring"
  BY <1>1, CallShape DEF RouteRing, Serves
<1>3. PICK id \in Ids : Goto(c, [step |-> "register", key |-> k, id |-> id])
  BY DEF RouteRing
<1>4. PICK l \in Call : Goto(c, l) /\ l.key = k
  <2>1. /\ [step |-> "register", key |-> k, id |-> id] \in Call
        /\ [step |-> "register", key |-> k, id |-> id].key = k
    BY <1>2, HeldIdShape
  <2>2. QED
    BY <1>3, <2>1, Zenon
<1>5. \A x : Live(x)' <=> Live(x)
  BY <1>1 DEF Live, Pinned
<1>6. k \notin raced => ~Live(k)
  BY <1>2 DEF AffinityIInv, PinsGuarded
<1>7. PinsGuarded'
  BY <1>1, <1>2, <1>4, <1>5, <1>6, MoveGuarded, Zenon
<1>8. call' \in [Callers -> Call]
  BY <1>1, <1>4, GotoMoves, Zenon
<1>9. RingInvOn({})' /\ RingTypeOK'
  BY RouteInv DEF RouteRing, AffinityIInv, RingInvOn
<1>10. QED
  BY <1>1, <1>7, <1>8, <1>9 DEF AffinityIInv, AffinityTypeOK

LEMMA RouteFailsInv ==
  ASSUME AffinityIInv, NEW c \in Callers, RouteFails(c)
  PROVE  AffinityIInv'
<1>1. /\ UNCHANGED <<ringVars, sessions, expirers, raced>> /\ Goto(c, Idle)
      /\ call \in [Callers -> Call]
  BY DEF RouteFails, AffinityIInv, AffinityTypeOK
<1>2. Idle \in Call
  BY Zenon DEF Call
<1>3. \A x : Live(x)' <=> Live(x)
  BY <1>1 DEF Live, Pinned
<1>4. PinsGuarded'
  BY <1>1, <1>2, <1>3, MoveGuarded, Zenon
<1>5. call' \in [Callers -> Call]
  BY <1>1, <1>2, GotoMoves, Zenon
<1>6. RingInvOn({})' /\ RingTypeOK'
  BY <1>1, RingUntouched DEF AffinityIInv
<1>7. QED
  BY <1>1, <1>4, <1>5, <1>6 DEF AffinityIInv, AffinityTypeOK

(***************************************************************************)
(* The one step that brings a record to life is the last of its caller,    *)
(* and leaves nobody serving the session if it never raced.                *)
(***************************************************************************)
LEMMA RegisterInv ==
  ASSUME AffinityIInv, NEW c \in Callers, Register(c)
  PROVE  AffinityIInv'
<1> PICK k : k = call[c].key
  OBVIOUS
<1>1. /\ UNCHANGED <<ringVars, expirers, raced>> /\ Goto(c, Idle)
      /\ call \in [Callers -> Call] /\ call[c] \in Call
      /\ DOMAIN sessions \subseteq Sessions /\ sessions \in [DOMAIN sessions -> Record]
  BY DEF Register, AffinityIInv, AffinityTypeOK
<1>2. call[c] # Idle /\ k \in Sessions /\ call[c].id \in Ids
  BY <1>1, CallShape DEF Register
<1>3. Idle \in Call
  BY Zenon DEF Call
<1>4. /\ call' \in [Callers -> Call]
      /\ call'[c] = Idle
      /\ \A d \in Callers \ {c} : call'[d] = call[d]
  BY <1>1, <1>3, GotoMoves, Zenon
<1>5. /\ DOMAIN sessions' \subseteq Sessions
      /\ sessions' \in [DOMAIN sessions' -> Record]
      /\ \A x : x # k => (x \in DOMAIN sessions' <=> x \in DOMAIN sessions)
      /\ \A x \in DOMAIN sessions : x # k => sessions'[x] = sessions[x]
  <2>1. CASE sessions' = sessions
    BY <1>1, <2>1
  <2>2. CASE sessions' = With(k, call[c].id)
    <3>1. /\ DOMAIN With(k, call[c].id) = DOMAIN sessions \union {k}
          /\ With(k, call[c].id) \in [DOMAIN With(k, call[c].id) -> Record]
          /\ \A x \in DOMAIN sessions \ {k} : With(k, call[c].id)[x] = sessions[x]
      BY <1>1, <1>2, WithRecord
    <3>2. QED
      BY <1>1, <1>2, <2>2, <3>1
  <2>3. QED
    BY <2>1, <2>2 DEF Register
<1>6. \A x : x # k => (Live(x)' <=> Live(x))
  BY <1>5 DEF Live, Pinned
<1>7. PinsGuarded'
  <2> SUFFICES ASSUME NEW s \in Sessions, s \notin raced, NEW e \in Callers, Serves(e, s)'
               PROVE  /\ \A d \in Callers : Serves(d, s)' => d = e
                      /\ call'[e].step \in {"ring", "register"} => ~Live(s)'
    BY <1>1, Zenon DEF PinsGuarded
  <2>1. \A d \in Callers : Serves(d, s)' => Serves(d, s) /\ d # c /\ call'[d] = call[d]
    BY <1>4 DEF Serves
  <2>2. s # k
    BY <1>2, <2>1 DEF AffinityIInv, PinsGuarded, Serves
  <2>3. QED
    BY <1>6, <2>1, <2>2 DEF AffinityIInv, PinsGuarded
<1>8. RingInvOn({})' /\ RingTypeOK'
  BY <1>1, RingUntouched DEF AffinityIInv
<1>9. QED
  BY <1>1, <1>4, <1>5, <1>7, <1>8 DEF AffinityIInv, AffinityTypeOK

(* Records are deleted, or age, behind the callers' backs. *)
LEMMA TableStepInv ==
  ASSUME AffinityIInv, \/ \E s \in Sessions : LazyExpire(s) \/ Expire(s) \/ Age(s)
                       \/ GC
  PROVE  AffinityIInv'
<1>1. /\ DOMAIN sessions \subseteq Sessions /\ sessions \in [DOMAIN sessions -> Record]
      /\ UNCHANGED <<ringVars, call, raced>>
  BY DEF AffinityIInv, AffinityTypeOK, LazyExpire, Expire, Age, GC
<1>2. \/ \E s \in Sessions : sessions' = Without(s)
      \/ \E s \in Sessions : Live(s) /\ sessions' = [sessions EXCEPT ![s].expired = TRUE]
      \/ sessions' = [s \in {x \in DOMAIN sessions : ~sessions[x].expired} |-> sessions[s]]
  BY Zenon DEF LazyExpire, Expire, Age, GC
<1>3. /\ DOMAIN sessions' \subseteq DOMAIN sessions
      /\ sessions' \in [DOMAIN sessions' -> Record]
      /\ \A s \in Sessions : Live(s)' => Live(s)
  BY <1>1, <1>2, TableShrinks, Zenon
<1>4. expirers' \in [Sessions -> 0 .. MaxExpirers]
  <2>1. CASE UNCHANGED expirers
    BY <2>1 DEF AffinityIInv, AffinityTypeOK
  <2>2. ASSUME NEW s \in Sessions, LazyExpire(s)
        PROVE  expirers' \in [Sessions -> 0 .. MaxExpirers]
    <3>1. expirers \in [Sessions -> 0 .. MaxExpirers] /\ expirers[s] - 1 \in 0 .. MaxExpirers
      BY <2>2, AffinityAssumption DEF AffinityIInv, AffinityTypeOK, LazyExpire
    <3>2. QED
      BY <2>2, <3>1 DEF LazyExpire
  <2>3. QED
    BY <2>1, <2>2 DEF Expire, Age, GC
<1>5. PinsGuarded'
  BY <1>1, <1>3, ShrinkGuarded, Zenon DEF AffinityIInv
<1>6. RingInvOn({})' /\ RingTypeOK'
  BY <1>1, RingUntouched DEF AffinityIInv
<1>7. QED
  BY <1>1, <1>3, <1>4, <1>5, <1>6 DEF AffinityIInv, AffinityTypeOK

LEMMA RingMovesInv ==
  ASSUME AffinityIInv, RingMoves
  PROVE  AffinityIInv'
<1>1. UNCHANGED <<sessions, expirers, call, raced>>
  BY DEF RingMoves
<1>2. RingInvOn({})
  BY DEF AffinityIInv
<1>3. RingInvOn({})'
  <2>1. ASSUME NEW id \in Ids, ReleaseConn(id) \/ RemoveBackend(id)
        PROVE  RingInvOn({})'
    BY <1>2, <2>1, ReleaseConnInv, RemoveBackendInv
  <2>2. CASE \/ \E id \in Ids, h \in BOOLEAN : SetHealth(id, h)
             \/ \E id \in Ids, d \in BOOLEAN : SetDraining(id, d)
    BY <1>2, <2>2, SetFieldsInv
  <2>3. QED
    BY <2>1, <2>2 DEF RingMoves
<1>4. RingTypeOK'
  BY <1>3 DEF RingInvOn
<1>5. PinsGuarded'
  BY <1>1 DEF AffinityIInv, PinsGuarded, Serves, Live, Pinned
<1>6. QED
  BY <1>1, <1>3, <1>4, <1>5 DEF AffinityIInv, AffinityTypeOK

LEMMA NextAffinity == AffinityIInv /\ [AffinityNext]_affVars => AffinityIInv'
<1> SUFFICES ASSUME AffinityIInv, [AffinityNext]_affVars
             PROVE  AffinityIInv'
  OBVIOUS
<1>1. ASSUME NEW c \in Callers, CallerStep(c)
      PROVE  AffinityIInv'
  BY <1>1, LookupInv, VerifyInv, ExpireDownInv, RouteRingInv, RouteFailsInv, RegisterInv
     DEF CallerStep
<1>2. CASE \/ \E s \in Sessions : LazyExpire(s) \/ Expire(s) \/ Age(s)
           \/ GC
  BY <1>2, TableStepInv
<1>3. CASE RingMoves
  BY <1>3, RingMovesInv
<1>4. CASE UNCHANGED affVars
  <2>1. RingInvOn({})' /\ RingTypeOK'
    BY <1>4, RingUntouched DEF AffinityIInv, affVars
  <2>2. UNCHANGED <<sessions, expirers, call, raced>>
    BY <1>4 DEF affVars
  <2>3. PinsGuarded'
    BY <2>2 DEF AffinityIInv, PinsGuarded, Serves, Live, Pinned
  <2>4. QED
    BY <2>1, <2>2, <2>3 DEF AffinityIInv, AffinityTypeOK
<1>5. QED
  BY <1>1, <1>2, <1>3, <1>4 DEF AffinityNext

(* Every reachable state satisfies the inductive invariant. *)
THEOREM AffinityInvariant == AffinitySpec => []AffinityIInv
<1>1. QED
  BY InitAffinity, NextAffinity, PTL DEF AffinitySpec

(***************************************************************************)
(* Every state is well typed and no counter of the ring exceeds the        *)
(* requests in flight, although RouteStateful's hits bypass Route.         *)
(***************************************************************************)
THEOREM AffinityTheorem == AffinitySpec => []AffinityInv
<1>1. AffinityIInv => AffinityInv
  BY DEF AffinityIInv, AffinityInv, RingInvOn, AccountedOn
<1>2. QED
  BY <1>1, AffinityInvariant, PTL

(* What a step does to the record of a session that is pinned throughout. *)
LEMMA StepKeepsPins ==
  ASSUME AffinityIInv, [AffinityNext]_affVars, NEW s \in Sessions, s \notin raced',
         Live(s), Pinned(s)'
  PROVE  sessions'[s].backendID = sessions[s].backendID
<1>1. DOMAIN sessions \subseteq Sessions /\ sessions \in [DOMAIN sessions -> Record]
  BY DEF AffinityIInv, AffinityTypeOK
<1>2. CASE sessions' = sessions
  BY <1>2
<1>3. ASSUME NEW c \in Callers, Register(c)
      PROVE  sessions'[s].backendID = sessions[s].backendID
  <2>1. raced' = raced /\ call[c] \in Call
    BY <1>3 DEF Register, AffinityIInv, AffinityTypeOK
  <2>2. call[c] # Idle /\ call[c].key \in Sessions /\ call[c].id \in Ids /\ call[c].step = "register"
    BY <1>3, <2>1, CallShape DEF Register
  <2>3. call[c].key # s
    BY <2>1, <2>2 DEF AffinityIInv, PinsGuarded, Serves
  <2>4. CASE sessions' = With(call[c].key, call[c].id)
    BY <1>1, <2>2, <2>3, <2>4, WithRecord DEF Live, Pinned
  <2>5. QED
    BY <1>2, <1>3, <2>4 DEF Register
<1>4. ASSUME \/ \E x \in Sessions : sessions' = Without(x)
             \/ \E x \in Sessions : Live(x) /\ sessions' = [sessions EXCEPT ![x].expired = TRUE]
             \/ sessions' = [x \in {y \in DOMAIN sessions : ~sessions[y].expired} |-> sessions[x]]
      PROVE  sessions'[s].backendID = sessions[s].backendID
  <2>1. \A x \in DOMAIN sessions' : sessions'[x].backendID = sessions[x].backendID
    BY <1>1, <1>4, TableShrinks, Zenon
  <2>2. QED
    BY <2>1 DEF Pinned
<1>5. ASSUME NEW c \in Callers, ExpireDown(c)
      PROVE  \E x \in Sessions : sessions' = Without(x)
  BY <1>5, CallShape DEF ExpireDown, AffinityIInv, AffinityTypeOK
<1>6. CASE \E c \in Callers : CallerStep(c)
  <2>1. PICK c \in Callers : CallerStep(c)
    BY <1>6
  <2>2. \/ sessions' = sessions
        \/ Register(c)
        \/ ExpireDown(c)
    BY <2>1 DEF CallerStep, Lookup, Verify, RouteRing, RouteFails
  <2>3. QED
    BY <1>2, <1>3, <1>4, <1>5, <2>2
<1>7. CASE \/ \E x \in Sessions : LazyExpire(x) \/ Expire(x) \/ Age(x)
           \/ GC
  BY <1>4, <1>7, Zenon DEF LazyExpire, Expire, Age, GC
<1>8. CASE RingMoves \/ UNCHANGED affVars
  BY <1>2, <1>8 DEF RingMoves, affVars
<1>9. QED
  BY <1>6, <1>7, <1>8 DEF AffinityNext

(***************************************************************************)
(* "Once registered, the backend assignment never changes for that         *)
(* session": RouteStateful's Register overwrites no live record with       *)
(* another backend, unless two requests of the session were served at once.*)
(***************************************************************************)
THEOREM PinTheorem == AffinitySpec => PinImmutable
<1>1. AffinityIInv /\ [AffinityNext]_affVars =>
        [\A s \in Sessions \ raced' :
           Live(s) /\ Pinned(s)' => sessions'[s].backendID = sessions[s].backendID]_affVars
  BY StepKeepsPins
<1>2. QED
  BY <1>1, AffinityInvariant, PTL DEF AffinitySpec, PinImmutable

-----------------------------------------------------------------------------
(***************************************************************************)
(* Slow start. SlowStartInv says what the ring has when no SetVnodeCount   *)
(* is owed.  It is not inductive, for the tick goroutine owes one while it *)
(* holds no lock: OwedFollowsRamp relates what it is about to write to the *)
(* ramp, and DoneAtTarget what it is about to delete.                      *)
(***************************************************************************)

(* The goroutine is on its way to SetVnodeCount(id, tick.count). *)
Owed(id) == tick.step = "apply" /\ tick.id = id

RingFollowsRamp ==
  \A id \in (DOMAIN restoring \intersect DOMAIN backends) \ touched :
    restoring[id] > 0 /\ ~Owed(id) => backends[id].VnodeCount = restoring[id]

(* A ramp begun again behind the tick's back is still at 0. *)
OwedFollowsRamp ==
  tick.step = "apply" =>
    /\ tick.id \in Ids
    /\ tick.count > 0
    /\ tick.id \in DOMAIN restoring =>
         /\ restoring[tick.id] \in {0, tick.count}
         /\ tick.id \notin tick.young =>
              tick.id \in tick.seen /\ restoring[tick.id] = tick.count

DoneAtTarget ==
  /\ tick.step = "idle" => tick.done = {}
  /\ \A id \in (tick.done \intersect DOMAIN restoring) \ tick.young :
       id \in tick.seen /\ restoring[id] = VnodesPerServer

SlowStartIInv ==
  RingInv /\ SlowStartTypeOK /\ RingFollowsRamp /\ OwedFollowsRamp /\ DoneAtTarget

-----------------------------------------------------------------------------
(* The next rung of a ramp. *)
LEMMA NextRung ==
  ASSUME NEW id, restoring[id] \in 0 .. VnodesPerServer
  PROVE  NextCount(id) \in 0 .. VnodesPerServer /\ NextCount(id) > 0
<1> DEFINE n == restoring[id]
<1>1. VnodesPerServer \in Nat /\ VnodesPerServer >= 1 /\ BatchSize \in Nat /\ BatchSize >= 1
  BY RingAssumption, SlowStartAssumption
<1>2. ASSUME NEW a \in Nat, NEW b \in Nat
      PROVE  Min({a, b}) = IF a <= b THEN a ELSE b
  <2>1. \E x \in {a, b} : \A y \in {a, b} : x <= y
    OBVIOUS
  <2>2. Min({a, b}) \in {a, b} /\ \A y \in {a, b} : Min({a, b}) <= y
    BY <2>1, Zenon DEF Min
  <2>3. QED
    BY <2>2
<1>3. n \in Nat /\ n + BatchSize \in Nat
  BY <1>1
<1>4. NextCount(id) =
        IF n + BatchSize <= VnodesPerServer THEN n + BatchSize ELSE VnodesPerServer
  BY <1>1, <1>2, <1>3 DEF NextCount
<1> HIDE DEF n
<1>5. QED
  BY <1>1, <1>3, <1>4

(* The fields of the tick goroutine's state. *)
LEMMA TickFields ==
  ASSUME tick \in Tick
  PROVE  /\ tick.step \in {"idle", "held", "apply"}
         /\ tick.due \subseteq Ids /\ tick.seen \subseteq Ids /\ tick.done \subseteq Ids
         /\ tick.young \subseteq Ids
         /\ tick.id \in Ids \union {0} /\ tick.count \in 0 .. VnodesPerServer
  BY DEF Tick

LEMMA IdleTickType == IdleTick \in Tick
<1>1. VnodesPerServer \in Nat /\ 0 \in 0 .. VnodesPerServer
  BY RingAssumption
<1>2. QED
  BY <1>1 DEF IdleTick, Tick

-----------------------------------------------------------------------------
LEMMA InitSlowStart == SlowStartInit => SlowStartIInv
<1> SUFFICES ASSUME SlowStartInit
             PROVE  SlowStartIInv
  OBVIOUS
<1>1. VnodesPerServer \in Nat /\ VnodesPerServer >= 1
  BY RingAssumption
<1>2. IsBackends(backends) /\ DOMAIN backends = Ids
  BY <1>1 DEF SlowStartInit, IsBackends, Backend
<1>3. RingTypeOK
  BY <1>2, RebuildType DEF SlowStartInit, RingTypeOK, IsBackends
<1>4. RingInv
  BY <1>2, <1>3 DEF SlowStartInit, RingInv, RingInvOn, RingInSync, VnodesPositive, AccountedOn,
                    IsBackends
<1>5. DOMAIN restoring = {} /\ restoring \in [DOMAIN restoring -> 0 .. VnodesPerServer]
  BY DEF SlowStartInit
<1>6. SlowStartTypeOK
  BY <1>3, <1>5, IdleTickType DEF SlowStartInit, SlowStartTypeOK
<1>7. tick.step = "idle" /\ tick.done = {}
  BY DEF SlowStartInit, IdleTick
<1>8. QED
  BY <1>4, <1>5, <1>6, <1>7
     DEF SlowStartIInv, RingFollowsRamp, OwedFollowsRamp, DoneAtTarget

(* Steps that leave the manager alone keep its invariant. *)
LEMMA ManagerUntouched ==
  ASSUME RingInv, UNCHANGED ringVars
  PROVE  RingInv' /\ RingTypeOK'
  BY DEF RingInv, RingInvOn, ringVars, RingTypeOK, RingInSync, VnodesPositive, AccountedOn

(***************************************************************************)
(* A ramp begins, at 0.  While a tick runs it is young, so that nothing is *)
(* said of it; between ticks nothing is owed or done.                      *)
(***************************************************************************)
LEMMA BeginInv ==
  ASSUME SlowStartIInv, NEW id \in Ids, BeginSlowStart(id)
  PROVE  SlowStartIInv'
<1>1. /\ UNCHANGED <<ringVars, errors, moves, touched>>
      /\ id \notin DOMAIN restoring
      /\ DOMAIN restoring' = DOMAIN restoring \union {id}
      /\ restoring'[id] = 0
      /\ \A x \in DOMAIN restoring : restoring'[x] = restoring[x]
      /\ restoring' \in [DOMAIN restoring \union {id} -> 0 .. VnodesPerServer]
  <2>1. 0 \in 0 .. VnodesPerServer
    BY RingAssumption
  <2>2. QED
    BY <2>1 DEF BeginSlowStart, SlowStartIInv, SlowStartTypeOK
<1>2. /\ tick \in Tick /\ tick' \in Tick
      /\ tick'.step = tick.step /\ tick'.id = tick.id /\ tick'.count = tick.count
      /\ tick'.seen = tick.seen /\ tick'.done = tick.done
      /\ tick.young \subseteq tick'.young
      /\ tick.step # "idle" => id \in tick'.young
  BY DEF BeginSlowStart, SlowStartIInv, SlowStartTypeOK, Tick
<1>3. RingInv' /\ RingTypeOK' /\ UNCHANGED backends
  BY <1>1, ManagerUntouched DEF SlowStartIInv, ringVars
<1>4. SlowStartTypeOK'
  BY <1>1, <1>2, <1>3 DEF SlowStartIInv, SlowStartTypeOK
<1>5. RingFollowsRamp'
  BY <1>1, <1>2, <1>3 DEF SlowStartIInv, RingFollowsRamp, Owed
<1>6. OwedFollowsRamp'
  BY <1>1, <1>2 DEF SlowStartIInv, OwedFollowsRamp
<1>7. DoneAtTarget'
  BY <1>1, <1>2 DEF SlowStartIInv, DoneAtTarget
<1>8. QED
  BY <1>3, <1>4, <1>5, <1>6, <1>7 DEF SlowStartIInv

LEMMA CancelInv ==
  ASSUME SlowStartIInv, NEW id \in Ids, CancelSlowStart(id)
  PROVE  SlowStartIInv'
<1>1. /\ UNCHANGED <<ringVars, errors, moves, touched>>
      /\ DOMAIN restoring' = DOMAIN restoring \ {id}
      /\ restoring' \in [DOMAIN restoring' -> 0 .. VnodesPerServer]
      /\ \A x \in DOMAIN restoring \ {id} : restoring'[x] = restoring[x]
  BY DEF CancelSlowStart, SlowStartIInv, SlowStartTypeOK
<1>2. /\ tick \in Tick /\ tick' \in Tick
      /\ tick'.step = tick.step /\ tick'.id = tick.id /\ tick'.count = tick.count
      /\ tick'.seen = tick.seen \ {id} /\ tick'.done = tick.done
      /\ tick'.young = tick.young
  BY DEF CancelSlowStart, SlowStartIInv, SlowStartTypeOK, Tick
<1>3. RingInv' /\ RingTypeOK' /\ UNCHANGED backends
  BY <1>1, ManagerUntouched DEF SlowStartIInv, ringVars
<1>4. SlowStartTypeOK'
  BY <1>1, <1>2, <1>3 DEF SlowStartIInv, SlowStartTypeOK
<1>5. RingFollowsRamp'
  BY <1>1, <1>2, <1>3 DEF SlowStartIInv, RingFollowsRamp, Owed
<1>6. OwedFollowsRamp'
  BY <1>1, <1>2 DEF SlowStartIInv, OwedFollowsRamp
<1>7. DoneAtTarget'
  BY <1>1, <1>2 DEF SlowStartIInv, DoneAtTarget
<1>8. QED
  BY <1>3, <1>4, <1>5, <1>6, <1>7 DEF SlowStartIInv

LEMMA StartTickInv ==
  ASSUME SlowStartIInv, StartTick
  PROVE  SlowStartIInv'
<1>1. /\ UNCHANGED <<ringVars, restoring, errors, moves, touched>>
      /\ tick.step = "idle"
      /\ tick' = [step |-> "held", due |-> DOMAIN restoring, seen |-> {}, young |-> {},
                  done |-> {}, id |-> 0, count |-> 0]
  BY DEF StartTick, IdleTick
<1>2. RingInv' /\ RingTypeOK' /\ UNCHANGED backends
  BY <1>1, ManagerUntouched DEF SlowStartIInv, ringVars
<1>3. tick' \in Tick
  <2>1. 0 \in 0 .. VnodesPerServer
    BY RingAssumption
  <2>2. QED
    BY <1>1, <2>1 DEF SlowStartIInv, SlowStartTypeOK, Tick
<1>4. tick'.step = "held" /\ tick'.done = {}
  BY <1>1
<1>5. QED
  BY <1>1, <1>2, <1>3, <1>4 DEF SlowStartIInv, SlowStartTypeOK, RingFollowsRamp,
     OwedFollowsRamp, DoneAtTarget, Owed

(***************************************************************************)
(* An iteration of the loop: the ramp is advanced before the ring, so what *)
(* the goroutine then owes is what the ramp says.                          *)
(***************************************************************************)
LEMMA VisitInv ==
  ASSUME SlowStartIInv, NEW id \in Ids, Visit(id)
  PROVE  SlowStartIInv'
<1> DEFINE n == NextCount(id)
<1>1. /\ UNCHANGED <<ringVars, errors, moves, touched>>
      /\ tick.step = "held" /\ id \in DOMAIN restoring \ tick.seen
      /\ restoring \in [DOMAIN restoring -> 0 .. VnodesPerServer]
      /\ tick \in Tick
  BY DEF Visit, SlowStartIInv, SlowStartTypeOK
<1>2. n \in 0 .. VnodesPerServer /\ n > 0
  BY <1>1, NextRung
<1>3. RingInv' /\ RingTypeOK' /\ UNCHANGED backends
  BY <1>1, ManagerUntouched DEF SlowStartIInv, ringVars
<1>4. CASE id \in errors
  <2>1. UNCHANGED restoring /\ tick' = [tick EXCEPT !.seen = @ \union {id}]
    BY <1>4 DEF Visit
  <2>2. /\ tick' \in Tick
        /\ tick'.step = "held" /\ tick'.done = tick.done /\ tick'.young = tick.young
        /\ tick.seen \subseteq tick'.seen
    BY <1>1, <2>1 DEF Tick
  <2>3. SlowStartTypeOK'
    BY <1>1, <1>3, <2>1, <2>2 DEF SlowStartIInv, SlowStartTypeOK
  <2>4. RingFollowsRamp'
    BY <1>1, <1>3, <2>1, <2>2 DEF SlowStartIInv, RingFollowsRamp, Owed
  <2>5. OwedFollowsRamp' /\ DoneAtTarget'
    BY <1>1, <2>1, <2>2 DEF SlowStartIInv, OwedFollowsRamp, DoneAtTarget
  <2>6. QED
    BY <1>3, <2>3, <2>4, <2>5 DEF SlowStartIInv
<1>5. CASE id \notin errors
  <2>1. /\ restoring' = [restoring EXCEPT ![id] = n]
        /\ tick' = [tick EXCEPT !.seen = @ \union {id}, !.step = "apply", !.id = id, !.count = n]
    BY <1>5 DEF Visit, Unlock
  <2> HIDE DEF n
  <2>2. /\ restoring' \in [DOMAIN restoring -> 0 .. VnodesPerServer]
        /\ restoring'[id] = n
        /\ \A x \in DOMAIN restoring \ {id} : restoring'[x] = restoring[x]
    BY <1>1, <1>2, <2>1
  <2>3. /\ tick' \in Tick
        /\ tick'.step = "apply" /\ tick'.id = id /\ tick'.count = n
        /\ tick'.done = tick.done /\ tick'.seen = tick.seen \union {id}
        /\ tick'.young = tick.young
    BY <1>1, <1>2, <2>1 DEF Tick
  <2>4. SlowStartTypeOK'
    BY <1>1, <1>3, <2>2, <2>3 DEF SlowStartIInv, SlowStartTypeOK
  <2>5. RingFollowsRamp'
    BY <1>1, <1>3, <2>2, <2>3 DEF SlowStartIInv, RingFollowsRamp, Owed
  <2>6. OwedFollowsRamp'
    BY <1>1, <1>2, <2>2, <2>3 DEF OwedFollowsRamp
  <2>7. DoneAtTarget'
    BY <1>1, <2>2, <2>3 DEF SlowStartIInv, DoneAtTarget
  <2>8. QED
    BY <1>3, <2>4, <2>5, <2>6, <2>7 DEF SlowStartIInv
<1>6. QED
  BY <1>4, <1>5

(***************************************************************************)
(* SetVnodeCount pays what is owed: afterwards the ring has what the ramp  *)
(* says, unless the ramp was begun again in between and stands at 0.       *)
(***************************************************************************)
LEMMA ApplyInv ==
  ASSUME SlowStartIInv, Apply
  PROVE  SlowStartIInv'
<1>1. /\ UNCHANGED <<restoring, errors, moves>> /\ touched' = touched \ {tick.id}
      /\ tick.step = "apply" /\ tick \in Tick
      /\ tick' = [tick EXCEPT !.step = "held", !.id = 0, !.count = 0,
                    !.done = IF tick.count >= VnodesPerServer THEN @ \union {tick.id} ELSE @]
  BY DEF Apply, ApplyCount, Relock, SlowStartIInv, SlowStartTypeOK
<1>2. /\ tick.id \in Ids
      /\ tick.count \in 1 .. VnodesPerServer
      /\ tick.id \in DOMAIN restoring =>
           /\ restoring[tick.id] \in {0, tick.count}
           /\ tick.id \notin tick.young =>
                tick.id \in tick.seen /\ restoring[tick.id] = tick.count
  <2>1. VnodesPerServer \in Nat /\ tick.count \in 0 .. VnodesPerServer
    BY <1>1, TickFields, RingAssumption
  <2>2. QED
    BY <1>1, <2>1 DEF SlowStartIInv, OwedFollowsRamp
<1>3. /\ tick' \in Tick
      /\ tick'.step = "held" /\ tick'.seen = tick.seen /\ tick'.young = tick.young
      /\ tick'.done = IF tick.count >= VnodesPerServer THEN tick.done \union {tick.id} ELSE tick.done
  <2>1. 0 \in 0 .. VnodesPerServer
    BY RingAssumption
  <2>2. (IF tick.count >= VnodesPerServer THEN tick.done \union {tick.id} ELSE tick.done)
           \in SUBSET Ids
    BY <1>1, <1>2, TickFields
  <2>3. QED
    BY <1>1, <2>1, <2>2 DEF Tick
<1>4. ASSUME SetVnodeCount(tick.id, tick.count)
      PROVE  RingInv' /\ RingFollowsRamp'
  <2>1. RingInv'
    <3>1. tick.count \in 0 .. MaxVnodes
      BY <1>2, RingAssumption
    <3>2. QED
      BY <1>2, <1>4, <3>1, SetFieldsInv, Zenon DEF SlowStartIInv, RingInv
  <2>2. /\ DOMAIN backends' = DOMAIN backends
        /\ tick.id \in DOMAIN backends
        /\ backends'[tick.id].VnodeCount = tick.count
        /\ \A x \in DOMAIN backends \ {tick.id} : backends'[x] = backends[x]
    <3>1. backends[tick.id] \in Backend
      BY <1>4 DEF SetVnodeCount, SlowStartIInv, SlowStartTypeOK, RingTypeOK
    <3>2. backends' = [backends EXCEPT ![tick.id].VnodeCount = tick.count]
      <4>1. ~(tick.count < 1)
        BY <1>2, RingAssumption
      <4>2. QED
        BY <1>4, <4>1, Zenon DEF SetVnodeCount, Install
    <3>3. QED
      BY <1>4, <3>1, <3>2 DEF SetVnodeCount, Backend
  <2>3. RingFollowsRamp'
    BY <1>1, <1>2, <1>3, <2>2 DEF SlowStartIInv, RingFollowsRamp, Owed
  <2>4. QED
    BY <2>1, <2>3
<1>5. ASSUME tick.id \notin DOMAIN backends, UNCHANGED ringVars
      PROVE  RingInv' /\ RingFollowsRamp'
  <2>1. RingInv' /\ UNCHANGED backends
    BY <1>5, ManagerUntouched DEF SlowStartIInv, ringVars
  <2>2. RingFollowsRamp'
    BY <1>1, <1>3, <1>5, <2>1 DEF SlowStartIInv, RingFollowsRamp, Owed
  <2>3. QED
    BY <2>1, <2>2
<1>6. RingInv' /\ RingFollowsRamp'
  BY <1>4, <1>5 DEF Apply, ApplyCount
<1>7. RingTypeOK'
  BY <1>6 DEF RingInv, RingInvOn
<1>8. SlowStartTypeOK'
  BY <1>1, <1>3, <1>7 DEF SlowStartIInv, SlowStartTypeOK
<1>9. OwedFollowsRamp'
  BY <1>3 DEF OwedFollowsRamp
<1>10. DoneAtTarget'
  <2>1. CASE tick.count >= VnodesPerServer
    <3>1. tick.count = VnodesPerServer
      BY <1>2, <2>1, RingAssumption
    <3>2. tick'.done = tick.done \union {tick.id}
      BY <1>3, <2>1
    <3>3. QED
      BY <1>1, <1>2, <1>3, <3>1, <3>2 DEF SlowStartIInv, DoneAtTarget
  <2>2. CASE ~(tick.count >= VnodesPerServer)
    BY <1>1, <1>3, <2>2 DEF SlowStartIInv, DoneAtTarget
  <2>3. QED
    BY <2>1, <2>2
<1>11. QED
  BY <1>6, <1>8, <1>9, <1>10 DEF SlowStartIInv

LEMMA FinishInv ==
  ASSUME SlowStartIInv, Finish
  PROVE  SlowStartIInv'
<1>1. /\ UNCHANGED <<ringVars, errors, moves, touched>> /\ tick' = IdleTick
      /\ tick.step = "held"
      /\ DOMAIN restoring' = DOMAIN restoring \ tick.done
      /\ restoring' \in [DOMAIN restoring' -> 0 .. VnodesPerServer]
      /\ \A x \in DOMAIN restoring' : restoring'[x] = restoring[x]
  BY DEF Finish, SlowStartIInv, SlowStartTypeOK
<1>2. RingInv' /\ RingTypeOK' /\ UNCHANGED backends
  BY <1>1, ManagerUntouched DEF SlowStartIInv, ringVars
<1>3. tick' \in Tick /\ tick'.step = "idle" /\ tick'.done = {}
  BY <1>1, IdleTickType DEF IdleTick
<1>4. SlowStartTypeOK'
  BY <1>1, <1>2, <1>3 DEF SlowStartIInv, SlowStartTypeOK
<1>5. RingFollowsRamp'
  BY <1>1, <1>2 DEF SlowStartIInv, RingFollowsRamp, Owed
<1>6. OwedFollowsRamp' /\ DoneAtTarget'
  BY <1>3 DEF OwedFollowsRamp, DoneAtTarget
<1>7. QED
  BY <1>2, <1>4, <1>5, <1>6 DEF SlowStartIInv

LEMMA ErrorRateInv ==
  ASSUME SlowStartIInv, NEW id \in Ids, ErrorRate(id)
  PROVE  SlowStartIInv'
<1>1. UNCHANGED <<ringVars, restoring, tick, moves, touched>> /\ errors' \subseteq Ids
  BY DEF ErrorRate, SlowStartIInv, SlowStartTypeOK
<1>2. RingInv' /\ RingTypeOK' /\ UNCHANGED backends
  BY <1>1, ManagerUntouched DEF SlowStartIInv, ringVars
<1>3. QED
  BY <1>1, <1>2 DEF SlowStartIInv, SlowStartTypeOK, RingFollowsRamp, Owed,
     OwedFollowsRamp, DoneAtTarget

(***************************************************************************)
(* Whatever else the manager does: an id that is not touched afterwards is *)
(* registered as before, with the vnode count it had.                      *)
(***************************************************************************)
LEMMA FleetMovesRamp ==
  ASSUME SlowStartIInv, FleetMoves
  PROVE  SlowStartIInv'
<1>1. UNCHANGED <<restoring, tick, errors>> /\ moves \in Nat /\ moves' = moves + 1
  BY DEF FleetMoves, SlowStartIInv, SlowStartTypeOK
<1>2. RingInv'
  BY RingStepInv DEF FleetMoves, SlowStartIInv
<1>3. RingTypeOK'
  BY <1>2 DEF RingInv, RingInvOn
<1>4. touched' = touched \union Rewritten /\ Rewritten \subseteq Ids
  BY <1>3 DEF FleetMoves, Rewritten, RingTypeOK
<1>5. SlowStartTypeOK'
  BY <1>1, <1>3, <1>4 DEF SlowStartIInv, SlowStartTypeOK
<1>6. RingFollowsRamp'
  <2> SUFFICES ASSUME NEW id \in (DOMAIN restoring \intersect DOMAIN backends') \ touched',
                      restoring[id] > 0, ~Owed(id)
               PROVE  backends'[id].VnodeCount = restoring[id]
    BY <1>1 DEF RingFollowsRamp, Owed
  <2>1. id \in DOMAIN backends /\ backends'[id].VnodeCount = backends[id].VnodeCount
    BY <1>4 DEF Rewritten
  <2>2. id \notin touched
    BY <1>4
  <2>3. QED
    BY <2>1, <2>2 DEF SlowStartIInv, RingFollowsRamp
<1>7. OwedFollowsRamp' /\ DoneAtTarget'
  BY <1>1 DEF SlowStartIInv, OwedFollowsRamp, DoneAtTarget
<1>8. QED
  BY <1>2, <1>5, <1>6, <1>7 DEF SlowStartIInv

LEMMA NextSlowStart == SlowStartIInv /\ [SlowStartNext]_slowVars => SlowStartIInv'
<1> SUFFICES ASSUME SlowStartIInv, [SlowStartNext]_slowVars
             PROVE  SlowStartIInv'
  OBVIOUS
<1>1. ASSUME NEW id \in Ids, BeginSlowStart(id) \/ CancelSlowStart(id) \/ ErrorRate(id)
      PROVE  SlowStartIInv'
  BY <1>1, BeginInv, CancelInv, ErrorRateInv
<1>2. CASE TickStep
  BY <1>2, StartTickInv, VisitInv, ApplyInv, FinishInv DEF TickStep
<1>3. CASE FleetMoves
  BY <1>3, FleetMovesRamp
<1>4. CASE UNCHANGED slowVars
  <2>1. UNCHANGED <<ringVars, restoring, tick, errors, moves, touched>>
    BY <1>4 DEF slowVars
  <2>2. RingInv' /\ RingTypeOK' /\ UNCHANGED backends
    BY <2>1, ManagerUntouched DEF SlowStartIInv, ringVars
  <2>3. QED
    BY <2>1, <2>2 DEF SlowStartIInv, SlowStartTypeOK, RingFollowsRamp, Owed,
       OwedFollowsRamp, DoneAtTarget
<1>5. QED
  BY <1>1, <1>2, <1>3, <1>4 DEF SlowStartNext

(* Every reachable state satisfies the inductive invariant. *)
THEOREM SlowStartInvariant == SlowStartSpec => []SlowStartIInv
<1>1. QED
  BY InitSlowStart, NextSlowStart, PTL DEF SlowStartSpec

(***************************************************************************)
(* The ring has what the ramp says whenever the tick goroutine owes        *)
(* nothing and nobody else has written the vnode count since it did.       *)
(***************************************************************************)
THEOREM SlowStartTheorem == SlowStartSpec => []SlowStartInv
<1>1. SlowStartIInv => SlowStartInv
  BY DEF SlowStartIInv, SlowStartInv, RingFollowsRamp, Owed
<1>2. QED
  BY <1>1, SlowStartInvariant, PTL

(* A ramp leaves the map by being finished or by being cancelled. *)
LEMMA StepEndsFinishedRamps ==
  ASSUME SlowStartIInv, [SlowStartNext]_slowVars,
         NEW id \in DOMAIN restoring \ DOMAIN restoring', tick.step = "held",
         id \notin tick.young
  PROVE  restoring[id] = VnodesPerServer
<1>1. CASE Finish
  <2>1. id \in tick.done
    BY <1>1 DEF Finish
  <2>2. QED
    BY <2>1 DEF SlowStartIInv, DoneAtTarget
<1>2. restoring' # restoring
  OBVIOUS
<1>3. ASSUME NEW x \in Ids, Visit(x)
      PROVE  FALSE
  <2>1. DOMAIN restoring' = DOMAIN restoring
    BY <1>3 DEF Visit
  <2>2. QED
    BY <2>1
<1>4. ~(\E x \in Ids : BeginSlowStart(x) \/ CancelSlowStart(x) \/ ErrorRate(x))
  BY <1>2 DEF BeginSlowStart, CancelSlowStart, Free, ErrorRate
<1>5. ~StartTick /\ ~Apply /\ ~FleetMoves
  BY <1>2 DEF StartTick, Apply, ApplyCount, FleetMoves
<1>6. QED
  BY <1>1, <1>2, <1>3, <1>4, <1>5 DEF SlowStartNext, TickStep, slowVars

(***************************************************************************)
(* A tick takes a ramp that was there when it began off the map only at    *)
(* its target, whatever was begun, cancelled, registered or routed while   *)
(* it had let go of the lock.  Of a ramp begun meanwhile nothing is said:  *)
(* cancelled and begun again, it can be deleted for the old one.           *)
(***************************************************************************)
THEOREM RampTheorem == SlowStartSpec => OnlyFinishedRampsEnd
<1>1. SlowStartIInv /\ [SlowStartNext]_slowVars =>
        [\A id \in DOMAIN restoring \ DOMAIN restoring' :
           tick.step = "held" /\ id \notin tick.young
             => restoring[id] = VnodesPerServer]_slowVars
  BY StepEndsFinishedRamps
<1>2. QED
  BY <1>1, SlowStartInvariant, PTL DEF SlowStartSpec, OnlyFinishedRampsEnd
=============================================================================
