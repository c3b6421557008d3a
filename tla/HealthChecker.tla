--------------------------- MODULE HealthChecker ----------------------------
(***************************************************************************)
(* Active health checking of one backend                                   *)
(* (controlplane/internal/health/checker.go).                              *)
(*                                                                         *)
(* Every tick starts a goroutine per endpoint; a probe may take as long as *)
(* the interval, so several checks of one endpoint can be under way.  A    *)
(* check updates the endpoint's counters under ep.mu and changes the ring  *)
(* after it released that lock: the two are separate steps.                *)
(***************************************************************************)
EXTENDS Integers, FiniteSetsExt

CONSTANTS
  FailThreshold,   \* cfg.FailThreshold
  MinSuccesses,    \* cfg.MinSuccessesBeforeRestore, defaults applied
  Checks,          \* check goroutines that can be under way at once
  MaxEndpoints     \* bound: endpoint structs alive at once

ASSUME HealthAssumption ==
  /\ FailThreshold \in Nat \ {0}
  /\ MinSuccesses \in Nat \ {0}
  /\ MaxEndpoints \in Nat \ {0}

VARIABLES
  up,          \* the backend answers its health URL with a 2xx
  endpoints,   \* the BackendEndpoint structs, by index
  current,     \* index of the registered struct, 0 when deregistered
  check,       \* the local state of every check goroutine
  health,      \* the backend's Health flag in the ring
  disturbed    \* history: checks overlapped, or the endpoint was re-registered

healthVars == <<up, endpoints, current, check, health, disturbed>>

(* Counters only matter up to their thresholds and saturate one above. *)
BackendEndpoint == [FailCount : 0 .. FailThreshold + 1,
                    consecutiveSuccesses : 0 .. MinSuccesses + 1]

Fresh == [FailCount |-> 0, consecutiveSuccesses |-> 0]

(***************************************************************************)
(* A check is not running, waits for an answer, has a result to record, or *)
(* has recorded it and still owes the ring a call.  warm says that the     *)
(* recorded success was the one that completes the warm-up.                *)
(***************************************************************************)
Check == [step : {"none", "probing", "pass", "fail", "up", "recover", "down"},
          ep : 0 .. MaxEndpoints, warm : BOOLEAN]

NoCheck == [step |-> "none", ep |-> 0, warm |-> FALSE]

HealthTypeOK ==
  /\ up \in BOOLEAN
  /\ endpoints \in [1 .. MaxEndpoints -> BackendEndpoint]
  /\ current \in 0 .. MaxEndpoints
  /\ check \in [Checks -> Check]
  /\ health \in BOOLEAN
  /\ disturbed \in BOOLEAN

(* The backend is registered, up, and Health is TRUE in the ring. *)
HealthInit ==
  /\ up = TRUE
  /\ endpoints = [e \in 1 .. MaxEndpoints |-> Fresh]
  /\ current = 1
  /\ check = [c \in Checks |-> NoCheck]
  /\ health = TRUE
  /\ disturbed = FALSE

Goto(c, step) ==
  check' = [check EXCEPT ![c] = IF step = "none" THEN NoCheck ELSE [@ EXCEPT !.step = step]]

-----------------------------------------------------------------------------
(* Register: a new struct replaces the endpoint; running checks keep theirs. *)
Register ==
  /\ \E e \in 1 .. MaxEndpoints :
       /\ e # current
       /\ \A c \in Checks : e # check[c].ep
       /\ endpoints' = [endpoints EXCEPT ![e] = Fresh]
       /\ current' = e
  /\ disturbed' = TRUE
  /\ UNCHANGED <<up, check, health>>

Deregister ==
  /\ current' = 0
  /\ disturbed' = TRUE
  /\ UNCHANGED <<up, endpoints, check, health>>

(* A tick starts a check of the registered endpoint. *)
RunCheck(c) ==
  /\ check[c].step = "none"
  /\ current # 0
  /\ check' = [check EXCEPT ![c] = [step |-> "probing", ep |-> current, warm |-> FALSE]]
  /\ disturbed' = (disturbed \/ \E d \in Checks : check[d].step # "none")
  /\ UNCHANGED <<up, endpoints, current, health>>

(* The probe is answered, or times out. *)
Answer(c) ==
  /\ check[c].step = "probing"
  /\ Goto(c, IF up THEN "pass" ELSE "fail")
  /\ UNCHANGED <<up, endpoints, current, health, disturbed>>

MarkPassForgetsDown(c) ==
  LET ep == endpoints[check[c].ep]
      n  == Min({ep.consecutiveSuccesses + 1, MinSuccesses + 1})
  IN
  /\ check[c].step = "pass"
  /\ endpoints' = [endpoints EXCEPT ![check[c].ep] =
                     [FailCount |-> 0, consecutiveSuccesses |-> n]]
  /\ Goto(c, IF n = MinSuccesses THEN "recover" ELSE "none")
  /\ UNCHANGED <<up, current, health, disturbed>>

(* The locked part of markPass. *)
MarkPass(c) ==
  LET ep      == endpoints[check[c].ep]
      wasDown == ep.FailCount >= FailThreshold
      n       == Min({ep.consecutiveSuccesses + 1, MinSuccesses + 1})
      warm    == n = MinSuccesses
  IN
  /\ check[c].step = "pass"
  /\ endpoints' = [endpoints EXCEPT ![check[c].ep] =
                     [FailCount |-> 0, consecutiveSuccesses |-> n]]
  /\ check' = [check EXCEPT ![c] =
                 IF wasDown   THEN [@ EXCEPT !.step = "up", !.warm = warm]
                 ELSE IF warm THEN [@ EXCEPT !.step = "recover"]
                 ELSE NoCheck]
  /\ UNCHANGED <<up, current, health, disturbed>>

(* ring.SetHealth(id, true). *)
SetUp(c) ==
  /\ check[c].step = "up"
  /\ health' = TRUE
  /\ Goto(c, IF check[c].warm THEN "recover" ELSE "none")
  /\ UNCHANGED <<up, endpoints, current, disturbed>>

(* onRecovered: the callback that begins the slow start. *)
Recovered(c) ==
  /\ check[c].step = "recover"
  /\ Goto(c, "none")
  /\ UNCHANGED <<up, endpoints, current, health, disturbed>>

MarkFailOnlyAtThreshold(c) ==
  LET n == Min({endpoints[check[c].ep].FailCount + 1, FailThreshold + 1}) IN
  /\ check[c].step = "fail"
  /\ endpoints' = [endpoints EXCEPT ![check[c].ep] =
                     [FailCount |-> n, consecutiveSuccesses |-> 0]]
  /\ Goto(c, IF n = FailThreshold THEN "down" ELSE "none")
  /\ UNCHANGED <<up, current, health, disturbed>>

MarkFailLate(c) ==
  LET n == Min({endpoints[check[c].ep].FailCount + 1, FailThreshold + 1}) IN
  /\ check[c].step = "fail"
  /\ endpoints' = [endpoints EXCEPT ![check[c].ep] =
                     [FailCount |-> n, consecutiveSuccesses |-> 0]]
  /\ Goto(c, IF n > FailThreshold THEN "down" ELSE "none")
  /\ UNCHANGED <<up, current, health, disturbed>>

(* The locked part of markFail. *)
MarkFail(c) ==
  LET n == Min({endpoints[check[c].ep].FailCount + 1, FailThreshold + 1}) IN
  /\ check[c].step = "fail"
  /\ endpoints' = [endpoints EXCEPT ![check[c].ep] =
                     [FailCount |-> n, consecutiveSuccesses |-> 0]]
  /\ Goto(c, IF n >= FailThreshold THEN "down" ELSE "none")
  /\ UNCHANGED <<up, current, health, disturbed>>

(* ring.SetHealth(id, false). *)
SetDown(c) ==
  /\ check[c].step = "down"
  /\ health' = FALSE
  /\ Goto(c, "none")
  /\ UNCHANGED <<up, endpoints, current, disturbed>>

CheckStep(c) ==
  Answer(c) \/ MarkPass(c) \/ SetUp(c) \/ Recovered(c) \/ MarkFail(c) \/ SetDown(c)

(* The backend crashes, hangs, or comes back. *)
Flip ==
  /\ up' = ~up
  /\ UNCHANGED <<endpoints, current, check, health, disturbed>>

HealthNext ==
  \/ Flip \/ Register \/ Deregister
  \/ \E c \in Checks : RunCheck(c) \/ CheckStep(c)

(***************************************************************************)
(* The ticker keeps ticking, and goroutines run to their end (the HTTP     *)
(* client gives up after two seconds).                                     *)
(***************************************************************************)
HealthFairness == \A c \in Checks : WF_healthVars(RunCheck(c)) /\ WF_healthVars(CheckStep(c))

HealthSpec == HealthInit /\ [][HealthNext]_healthVars /\ HealthFairness

-----------------------------------------------------------------------------
(* Properties. *)

(***************************************************************************)
(* A monitored backend that stays dead ends up, and stays, out of the      *)
(* ring: a late success of an overlapping check, or one of a struct that   *)
(* was replaced, puts it back only for a while.                            *)
(***************************************************************************)
DownWhenDead ==
  \A e \in 1 .. MaxEndpoints : <>[](~up /\ current = e) => <>[](~health)

(***************************************************************************)
(* "If the backend was down and just came back, re-enable health in the    *)
(* ring": a backend that stays up ends up, and stays, in the ring, as long *)
(* as its checks did not overlap and it was not registered again (a late   *)
(* SetHealth(false) of an overlapping check is never repaired).            *)
(***************************************************************************)
RecoversUndisturbed == [](~disturbed) /\ <>[]up => <>[]health

(***************************************************************************)
(* Every state is well typed and, as long as checks do not overlap, the    *)
(* ring agrees with the failure counter between two checks, although they  *)
(* have different locks; and a backend that is DOWN in the ring never gets *)
(* the recovery callback, which cuts its vnodes and ramps them up.         *)
(***************************************************************************)
HealthAgrees ==
  /\ (\A c \in Checks : check[c].step \notin {"up", "down"})
       => (health <=> endpoints[current].FailCount < FailThreshold)
  /\ (\E c \in Checks : check[c].step = "recover") => health

HealthInv == HealthTypeOK /\ (~disturbed => HealthAgrees)
=============================================================================
