------------------------------ MODULE Consensus ------------------------------
(***************************************************************************)
(* Ring-state synchronisation between load-balancer nodes: the Coordinator *)
(* of controlplane/internal/consensus/coordinator.go over a StateStore.    *)
(* A node that takes the leader lock publishes its ring periodically; any  *)
(* other node watches the key and copies what arrives into its own ring.   *)
(*                                                                         *)
(* The store.  Put and Watch follow MemStateStore (mem_store.go): every    *)
(* watcher has a bounded channel, and an event that does not fit is        *)
(* dropped.  The lock and the replay of the current value at the start of  *)
(* a watch follow the StateStore interface, whose lock is held by one node *)
(* and carries a lease.  MemStateStore grants every TryLock; it serves     *)
(* clusters of one node.                                                   *)
(*                                                                         *)
(* Abstractions.  A ring is the view it has of each backend: absent, up or *)
(* down.  Versions are UnixNano times, used only in comparisons: they are  *)
(* kept as their ranks among the versions in use, and the clocks of the    *)
(* nodes agree.                                                            *)
(***************************************************************************)
EXTENDS Integers, FiniteSets, Sequences

CONSTANTS
  Nodes,      \* load-balancer nodes
  NoNode,     \* no holder of the lock
  Ids,        \* backend identifiers
  ChanCap,    \* capacity of a watch channel (16 in the code)
  MaxFaults   \* bound: faults and changes made by the environment

ASSUME ConsensusAssumption ==
  NoNode \notin Nodes /\ ChanCap \in Nat \ {0} /\ MaxFaults \in Nat

VARIABLES
  pc,            \* where the Run loop of each node is
  lock,          \* holder of the leader lock in the store
  lost,          \* history: nodes that still lead after their lease expired
  stored,        \* the snapshot under the state key
  chan,          \* watch channel of each node
  lastVersion,   \* Coordinator.lastVersion of each node
  ringOf,        \* the ring of each node
  job,           \* the snapshot a node is collecting, writing or applying
  budget         \* faults and changes the environment may still make

consVars == <<pc, lock, lost, stored, chan, lastVersion, ringOf, job, budget>>

Views == {"absent", "up", "down"}

NoRing == [id \in Ids |-> "absent"]

Registered(r) == {id \in Ids : r[id] # "absent"}

NoJob == [ring |-> NoRing, todo |-> {}, version |-> 0]

Leading(n) == pc[n] \in {"lead", "collect", "put"}

Following(n) == pc[n] \in {"watch", "apply"}

(* A ring starts empty, or as ReconcileFromEBPF restored it. *)
ConsensusInit ==
  /\ pc = [n \in Nodes |-> "elect"]
  /\ lock = NoNode
  /\ lost = {}
  /\ stored = [ring |-> NoRing, version |-> 0]
  /\ chan = [n \in Nodes |-> <<>>]
  /\ lastVersion = [n \in Nodes |-> 0]
  /\ ringOf \in [Nodes -> {NoRing, [id \in Ids |-> "up"]}]
  /\ job = [n \in Nodes |-> NoJob]
  /\ budget = MaxFaults

-----------------------------------------------------------------------------
(* The election loop of Run. *)

Disturbance == budget > 0 /\ budget' = budget - 1

GoTo(n, l) == pc' = [pc EXCEPT ![n] = l]

(* TryLock succeeds. *)
Acquire(n) ==
  /\ pc[n] = "elect"
  /\ lock = NoNode
  /\ lock' = n
  /\ GoTo(n, "lead")
  /\ UNCHANGED <<lost, stored, chan, lastVersion, ringOf, job, budget>>

(* TryLock finds another holder: runFollower.  (Its error changes nothing.) *)
Follow(n) ==
  /\ pc[n] = "elect"
  /\ lock # NoNode
  /\ GoTo(n, "subscribe")
  /\ UNCHANGED <<lock, lost, stored, chan, lastVersion, ringOf, job, budget>>

(* Get of the key's revision, or Watch, returns an error: Run starts over. *)
SubscribeFails(n) ==
  /\ Disturbance
  /\ pc[n] = "subscribe"
  /\ GoTo(n, "elect")
  /\ UNCHANGED <<lock, lost, stored, chan, lastVersion, ringOf, job>>

(***************************************************************************)
(* Get and Watch.  A store may start the stream with the current value, which the  *)
(* node may have applied already; MemStateStore sends future events only.  *)
(***************************************************************************)
Watch(n) ==
  /\ pc[n] = "subscribe"
  /\ \E replay \in {<<>>, <<stored>>} :
       /\ replay # <<>> => stored.version > 0
       /\ chan' = [chan EXCEPT ![n] = replay]
  /\ GoTo(n, "watch")
  /\ UNCHANGED <<lock, lost, stored, lastVersion, ringOf, job, budget>>

-----------------------------------------------------------------------------
(* The leader. *)

(* A tick of runLeader; publishRingState lists the registered backends. *)
BeginPublish(n) ==
  /\ pc[n] = "lead"
  /\ job' = [job EXCEPT ![n] = [NoJob EXCEPT !.todo = Registered(ringOf[n])]]
  /\ GoTo(n, "collect")
  /\ UNCHANGED <<lock, lost, stored, chan, lastVersion, ringOf, budget>>

(* BackendInfo(id), each call under its own lock; nil once removed. *)
CollectBackend(n) ==
  /\ pc[n] = "collect"
  /\ \E id \in job[n].todo :
       job' = [job EXCEPT ![n].ring[id] = ringOf[n][id], ![n].todo = @ \ {id}]
  /\ UNCHANGED <<pc, lock, lost, stored, chan, lastVersion, ringOf, budget>>

(* Versions in use, and the rank that stands for one of them. *)
Versions ==
  {0, stored.version} \union {lastVersion[n] : n \in Nodes}
    \union {job[n].version : n \in Nodes}
    \union UNION {{chan[n][i].version : i \in 1 .. Len(chan[n])} : n \in Nodes}

Rank(v) == Cardinality({w \in Versions : w < v})

Ranked(s) == [s EXCEPT !.version = Rank(@)]

(***************************************************************************)
(* time.Now(): a version above all others, which are ranked anew.  Other   *)
(* nodes may stamp and write snapshots before this one is written.         *)
(***************************************************************************)
Stamp(n) ==
  /\ pc[n] = "collect"
  /\ job[n].todo = {}
  /\ stored' = Ranked(stored)
  /\ chan' = [f \in Nodes |-> [i \in 1 .. Len(chan[f]) |-> Ranked(chan[f][i])]]
  /\ lastVersion' = [f \in Nodes |-> Rank(lastVersion[f])]
  /\ job' = [f \in Nodes |->
               IF f = n THEN [job[n] EXCEPT !.version = Cardinality(Versions)]
               ELSE Ranked(job[f])]
  /\ GoTo(n, "put")
  /\ UNCHANGED <<lock, lost, ringOf, budget>>

(* Put sends to a watcher without blocking: a full channel misses it. *)
Delivered(q, s) == IF Len(q) < ChanCap THEN Append(q, s) ELSE q

(* The snapshot replaces what the store has, whatever its version. *)
Put(n) ==
  LET s == [ring |-> job[n].ring, version |-> job[n].version] IN
  /\ pc[n] = "put"
  /\ stored' = s
  /\ chan' = [f \in Nodes |-> IF Following(f) THEN Delivered(chan[f], s) ELSE chan[f]]
  /\ job' = [job EXCEPT ![n] = NoJob]
  /\ GoTo(n, "lead")
  /\ UNCHANGED <<lock, lost, lastVersion, ringOf, budget>>

(* A node releases the lock only if its own session still holds it. *)
Release(n) == lock' = IF lock = n THEN NoNode ELSE lock

PutFailsFreesLock(n) ==
  /\ Disturbance
  /\ pc[n] = "put"
  /\ lock' = NoNode
  /\ lost' = lost \ {n}
  /\ job' = [job EXCEPT ![n] = NoJob]
  /\ GoTo(n, "elect")
  /\ UNCHANGED <<stored, chan, lastVersion, ringOf>>

(* Put returns an error: runLeader gives up and Run starts over. *)
PutFails(n) ==
  /\ Disturbance
  /\ pc[n] = "put"
  /\ Release(n)
  /\ lost' = lost \ {n}
  /\ job' = [job EXCEPT ![n] = NoJob]
  /\ GoTo(n, "elect")
  /\ UNCHANGED <<stored, chan, lastVersion, ringOf>>

-----------------------------------------------------------------------------
(* The follower. *)

(***************************************************************************)
(* runFollower takes an event; applySnapshot discards it unless its        *)
(* version is above the last one applied.                                  *)
(***************************************************************************)
Receive(n) ==
  /\ pc[n] = "watch"
  /\ chan[n] # <<>>
  /\ chan' = [chan EXCEPT ![n] = Tail(@)]
  /\ LET s == Head(chan[n]) IN
     IF s.version <= lastVersion[n]
     THEN UNCHANGED <<pc, lastVersion, job>>
     ELSE /\ lastVersion' = [lastVersion EXCEPT ![n] = s.version]
          /\ job' = [job EXCEPT ![n].ring = s.ring, ![n].todo = Registered(s.ring)]
          /\ GoTo(n, IF Registered(s.ring) = {} THEN "watch" ELSE "apply")
  /\ UNCHANGED <<lock, lost, stored, ringOf, budget>>

CopiedIfNew(n, id) ==
  IF ringOf[n][id] = "absent" THEN [ringOf EXCEPT ![n][id] = job[n].ring[id]] ELSE ringOf

(* AddBackend, SetHealth and SetVnodeCount with the leader's values. *)
Copied(n, id) == [ringOf EXCEPT ![n][id] = job[n].ring[id]]

(***************************************************************************)
(* One turn of the loop of applySnapshot.  A backend that the snapshot     *)
(* does not name is left as it is.                                         *)
(***************************************************************************)
ApplyBackend(n) ==
  /\ pc[n] = "apply"
  /\ \E id \in job[n].todo :
       /\ ringOf' = Copied(n, id)
       /\ job' = [job EXCEPT ![n] = IF @.todo = {id} THEN NoJob
                                    ELSE [@ EXCEPT !.todo = @ \ {id}]]
       /\ GoTo(n, IF job[n].todo = {id} THEN "watch" ELSE "apply")
  /\ UNCHANGED <<lock, lost, stored, chan, lastVersion, budget>>

(* The channel is closed or carries an error: back to the election. *)
WatchError(n) ==
  /\ Disturbance
  /\ pc[n] = "watch"
  /\ chan' = [chan EXCEPT ![n] = <<>>]
  /\ GoTo(n, "elect")
  /\ UNCHANGED <<lock, lost, stored, lastVersion, ringOf, job>>

-----------------------------------------------------------------------------
(* Machines, leases and the rest of the control plane. *)

(* The process of n ends, at whatever point of its loops it is. *)
Halt(n) ==
  /\ Disturbance
  /\ pc[n] # "down"
  /\ GoTo(n, "down")
  /\ lost' = lost \ {n}
  /\ chan' = [chan EXCEPT ![n] = <<>>]
  /\ job' = [job EXCEPT ![n] = NoJob]
  /\ UNCHANGED <<stored, lastVersion, ringOf>>

(* The machine fails: the lock stays with its lease. *)
Crash(n) == Halt(n) /\ UNCHANGED lock

(* ctx is cancelled: runLeader releases the lock on its way out. *)
Stop(n) == Leading(n) /\ Halt(n) /\ Release(n)

(* A new process: no version applied, backends as its host left them. *)
Restart(n) ==
  /\ pc[n] = "down"
  /\ GoTo(n, "elect")
  /\ lastVersion' = [lastVersion EXCEPT ![n] = 0]
  /\ UNCHANGED <<lock, lost, stored, chan, ringOf, job, budget>>

(* The lease of a holder that is gone runs out. *)
LeaseExpires ==
  /\ \A n \in Nodes : lock = n => ~Leading(n)
  /\ lock # NoNode
  /\ lock' = NoNode
  /\ UNCHANGED <<pc, lost, stored, chan, lastVersion, ringOf, job, budget>>

(* The lease of a stalled or cut-off leader runs out; it does not notice. *)
LoseLock(n) ==
  /\ Disturbance
  /\ lock = n
  /\ Leading(n)
  /\ lock' = NoNode
  /\ lost' = lost \union {n}
  /\ UNCHANGED <<pc, stored, chan, lastVersion, ringOf, job>>

(* The health checker or an operator changes the node's ring. *)
LocalChange(n, id) ==
  /\ Disturbance
  /\ pc[n] # "down"
  /\ \E v \in Views \ {ringOf[n][id]} : ringOf' = [ringOf EXCEPT ![n][id] = v]
  /\ UNCHANGED <<pc, lock, lost, stored, chan, lastVersion, job>>

Coordinate(n) ==
  \/ Acquire(n) \/ Follow(n) \/ Watch(n)
  \/ BeginPublish(n) \/ CollectBackend(n) \/ Stamp(n) \/ Put(n)
  \/ Receive(n) \/ ApplyBackend(n)

Disturb(n) ==
  \/ SubscribeFails(n) \/ PutFails(n) \/ WatchError(n)
  \/ Crash(n) \/ Stop(n) \/ Restart(n) \/ LoseLock(n)
  \/ \E id \in Ids : LocalChange(n, id)

ConsensusNext ==
  \/ \E n \in Nodes : Coordinate(n) \/ Disturb(n)
  \/ LeaseExpires

(***************************************************************************)
(* Every running coordinator keeps taking its steps, a ticker drives the   *)
(* leader, and the store drops the lease of a holder that is gone.  A      *)
(* crashed node need not come back.                                        *)
(***************************************************************************)
Fairness ==
  /\ \A n \in Nodes : WF_consVars(Coordinate(n))
  /\ WF_consVars(LeaseExpires)

ConsensusSpec == ConsensusInit /\ [][ConsensusNext]_consVars /\ Fairness

-----------------------------------------------------------------------------
(* Properties. *)

(***************************************************************************)
(* Single writer: but for nodes whose lease ran out under them, at most    *)
(* one node believes it is the leader, whatever crashes, failed writes and *)
(* releases went before.                                                   *)
(***************************************************************************)
SingleWriter ==
  \A n, o \in Nodes \ lost : Leading(n) /\ Leading(o) => n = o

(***************************************************************************)
(* Convergence: once the rings are left alone, a node that keeps           *)
(* following comes to hold every backend of the one remaining leader as    *)
(* the leader holds it, although channels drop events, streams replay old  *)
(* ones and a snapshot is collected and applied piecemeal.                 *)
(***************************************************************************)
Agrees(n, l) == \A id \in Registered(ringOf[l]) : ringOf[n][id] = ringOf[l][id]

CatchUp ==
  \A l, n \in Nodes :
    <>[](Following(n) /\ \A o \in Nodes : Leading(o) <=> o = l)
      => <>[]Agrees(n, l)

(***************************************************************************)
(* "Automatic leader failover (lock expires if leader crashes; TTL-based)" *)
(* (coordinator.go): some node ends up leading unless all of them fail.    *)
(***************************************************************************)
Failover ==
  []<>((\A n \in Nodes : pc[n] = "down") \/ (\E n \in Nodes : Leading(n)))
=============================================================================
