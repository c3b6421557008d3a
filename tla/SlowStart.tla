----------------------------- MODULE SlowStart ------------------------------
(***************************************************************************)
(* Slow start of recovered backends: SlowStartController and its methods   *)
(* on Manager (controlplane/internal/ring/slowstart.go).                   *)
(*                                                                         *)
(* The controller has a mutex of its own.  The tick goroutine holds it     *)
(* while it ranges over the map of ramps, but lets go of it around every   *)
(* call of SetVnodeCount, in the middle of the loop; BeginSlowStart and    *)
(* CancelSlowStart of other goroutines slip in there.                      *)
(*                                                                         *)
(* Ranging over a Go map: an entry deleted before it is met is skipped, an *)
(* entry added meanwhile may or may not be met, and no entry is met twice; *)
(* a key deleted and added again is a new entry, which may be met although *)
(* the old one was.  paused only keeps a line out of the log: left out.    *)
(***************************************************************************)
EXTENDS Ring

CONSTANTS
  BatchSize,   \* SlowStartController.batchSize, default applied
  MaxMoves     \* bound: operations of the manager beside the ticks

ASSUME SlowStartAssumption == BatchSize \in Nat \ {0} /\ MaxMoves \in Nat

VARIABLES
  restoring,   \* SlowStartController.restoring: id |-> currentVnodes
  tick,        \* the local state of the tick goroutine
  errors,      \* ids whose error rate is above maxErrorPct (environment)
  moves,       \* how many of the MaxMoves operations have been made
  touched      \* history: ids whose VnodeCount was last written by another

slowVars == <<ringVars, restoring, tick, errors, moves, touched>>

(***************************************************************************)
(* held: the goroutine has the mutex, between two iterations.  apply: it   *)
(* released the mutex to call SetVnodeCount(id, count).  due are the       *)
(* entries the range has to meet, seen those it has met, done the local    *)
(* variable; young (history) are the ramps begun while this tick ran.      *)
(***************************************************************************)
Tick == [step : {"idle", "held", "apply"}, due : SUBSET Ids, seen : SUBSET Ids,
         young : SUBSET Ids, done : SUBSET Ids,
         id : Ids \union {0}, count : 0 .. VnodesPerServer]

IdleTick == [step |-> "idle", due |-> {}, seen |-> {}, young |-> {}, done |-> {},
             id |-> 0, count |-> 0]

SlowStartTypeOK ==
  /\ RingTypeOK
  /\ DOMAIN restoring \subseteq Ids
  /\ restoring \in [DOMAIN restoring -> 0 .. VnodesPerServer]
  /\ tick \in Tick
  /\ errors \subseteq Ids
  /\ moves \in Nat
  /\ touched \subseteq Ids

(* Registered backends at full weight, nothing ramping. *)
SlowStartInit ==
  /\ backends = [id \in Ids |-> [VnodeCount |-> VnodesPerServer, ActiveReqs |-> 0,
                                 Health |-> TRUE, Stateful |-> FALSE, Draining |-> FALSE]]
  /\ ring = Rebuild(backends)
  /\ reqCount = 0
  /\ inflight = [id \in Ids |-> 0]
  /\ replaced = {}
  /\ restoring = [id \in {} |-> 0]
  /\ tick = IdleTick
  /\ errors = {}
  /\ moves = 0
  /\ touched = {}

Free == tick.step # "held"

-----------------------------------------------------------------------------
(* A second call for a backend that is already ramping is ignored. *)
BeginSlowStart(id) ==
  /\ Free
  /\ id \notin DOMAIN restoring
  /\ restoring' = [x \in DOMAIN restoring \union {id} |-> IF x = id THEN 0 ELSE restoring[x]]
  /\ tick' = IF tick.step = "idle" THEN tick ELSE [tick EXCEPT !.young = @ \union {id}]
  /\ UNCHANGED <<ringVars, errors, moves, touched>>

CancelSlowStart(id) ==
  /\ Free
  /\ id \in DOMAIN restoring
  /\ restoring' = [x \in DOMAIN restoring \ {id} |-> restoring[x]]
  /\ tick' = [tick EXCEPT !.due = @ \ {id}, !.seen = @ \ {id}]
  /\ UNCHANGED <<ringVars, errors, moves, touched>>

StartTick ==
  /\ tick.step = "idle"
  /\ tick' = [IdleTick EXCEPT !.step = "held", !.due = DOMAIN restoring]
  /\ UNCHANGED <<ringVars, restoring, errors, moves, touched>>

NextCount(id) == Min({restoring[id] + BatchSize, VnodesPerServer})

Unlock(id, n) ==
  tick' = [tick EXCEPT !.seen = @ \union {id}, !.step = "apply", !.id = id, !.count = n]

VisitAppliesOld(id) ==
  /\ tick.step = "held"
  /\ id \in DOMAIN restoring \ tick.seen
  /\ restoring' = [restoring EXCEPT ![id] = NextCount(id)]
  /\ Unlock(id, restoring[id])
  /\ UNCHANGED <<ringVars, errors, moves, touched>>

(* The next iteration meets id: pause, or advance its ramp and unlock. *)
Visit(id) ==
  /\ tick.step = "held"
  /\ id \in DOMAIN restoring \ tick.seen
  /\ \/ /\ id \in errors
        /\ tick' = [tick EXCEPT !.seen = @ \union {id}]
        /\ UNCHANGED restoring
     \/ /\ id \notin errors
        /\ restoring' = [restoring EXCEPT ![id] = NextCount(id)]
        /\ Unlock(id, NextCount(id))
  /\ UNCHANGED <<ringVars, errors, moves, touched>>

(* SetVnodeCount; an id that is no longer registered is ignored. *)
ApplyCount ==
  /\ tick.step = "apply"
  /\ \/ SetVnodeCount(tick.id, tick.count)
     \/ tick.id \notin DOMAIN backends /\ UNCHANGED ringVars
  /\ touched' = touched \ {tick.id}
  /\ UNCHANGED <<restoring, errors, moves>>

Relock(ended) ==
  tick' = [tick EXCEPT !.step = "held", !.id = 0, !.count = 0,
                       !.done = IF ended THEN @ \union {tick.id} ELSE @]

ApplyDoneEarly == ApplyCount /\ Relock(TRUE)

ApplyNeverDone == ApplyCount /\ Relock(tick.count > VnodesPerServer)

(* The call, the lock again, and the note that a ramp has reached its end. *)
Apply == ApplyCount /\ Relock(tick.count >= VnodesPerServer)

(* The loop is over: the finished ramps are deleted, by id. *)
Finish ==
  /\ tick.step = "held"
  /\ tick.due \subseteq tick.seen
  /\ restoring' = [x \in DOMAIN restoring \ tick.done |-> restoring[x]]
  /\ tick' = IdleTick
  /\ UNCHANGED <<ringVars, errors, moves, touched>>

TickStep == StartTick \/ (\E id \in Ids : Visit(id)) \/ Apply \/ Finish

ErrorRate(id) ==
  /\ errors' = (errors \ {id}) \union ({id} \ errors)
  /\ UNCHANGED <<ringVars, restoring, tick, moves, touched>>

(***************************************************************************)
(* Everything else the manager does meanwhile: registrations, snapshots,   *)
(* explicit weights, predictive cuts, reconciliation, Route and its        *)
(* adjust.  Many of them write VnodeCount as well.                         *)
(***************************************************************************)
Rewritten ==
  {id \in DOMAIN backends' :
     id \in DOMAIN backends => backends'[id].VnodeCount # backends[id].VnodeCount}

FleetMoves ==
  /\ moves < MaxMoves
  /\ RingNext
  /\ moves' = moves + 1
  /\ touched' = touched \union Rewritten
  /\ UNCHANGED <<restoring, tick, errors>>

SlowStartNext ==
  \/ \E id \in Ids : BeginSlowStart(id) \/ CancelSlowStart(id) \/ ErrorRate(id)
  \/ TickStep
  \/ FleetMoves

(***************************************************************************)
(* RunSlowStart's ticker keeps ticking and a started tick runs to its end: *)
(* the range makes one pass over a finite table, so that it meets each     *)
(* entry that was there and is over some day, however often others get the *)
(* lock in between.                                                        *)
(***************************************************************************)
SlowStartSpec ==
  /\ SlowStartInit
  /\ [][SlowStartNext]_slowVars
  /\ WF_slowVars(TickStep)
  /\ \A id \in Ids : SF_slowVars(id \in tick.due /\ Visit(id))
  /\ SF_slowVars(Finish)

-----------------------------------------------------------------------------
(* Properties. *)

(***************************************************************************)
(* A ramp does not last for ever: once the backend's error rate stays low, *)
(* slowStartTick takes it to its target and off the map, whatever happens  *)
(* to the map between the iterations.                                      *)
(***************************************************************************)
RampEnds ==
  \A id \in Ids :
    <>[](id \notin errors) => (id \in DOMAIN restoring ~> id \notin DOMAIN restoring)

(***************************************************************************)
(* "BeginSlowStart enqueues a backend for gradual vnode restoration": a    *)
(* ramp that was there when the tick began is taken off the map by it only *)
(* at its target.  done is kept by id, so this cannot be said of a ramp    *)
(* begun while the tick had let go of the lock (young).                    *)
(***************************************************************************)
OnlyFinishedRampsEnd ==
  [][\A id \in DOMAIN restoring \ DOMAIN restoring' :
       tick.step = "held" /\ id \notin tick.young
         => restoring[id] = VnodesPerServer]_slowVars

(***************************************************************************)
(* Every state is well typed, and the ring and the ramp agree although     *)
(* they have different locks: when the tick owes id no SetVnodeCount and   *)
(* nobody has written its VnodeCount since the last one, a ramp that has   *)
(* started is what the ring has.                                           *)
(***************************************************************************)
SlowStartInv ==
  /\ SlowStartTypeOK
  /\ \A id \in (DOMAIN restoring \intersect DOMAIN backends) \ touched :
       restoring[id] > 0 /\ tick.id # id
         => backends[id].VnodeCount = restoring[id]
=============================================================================
