---------------------------- MODULE DaemonProofs ----------------------------
(***************************************************************************)
(* Proofs about two components of the daemon that meet only in the ring:   *)
(* the coordinator (Consensus) and the health checker (HealthChecker).     *)
(*                                                                         *)
(* SingleWriter, for every set of nodes, channel capacity and number of    *)
(* faults.  It is not inductive: that the leaders agree says nothing about *)
(* the lock that the next Acquire will test.  The strengthening LockInv    *)
(* ties every leader with a live lease to the lock.                        *)
(*                                                                         *)
(* HealthInv, for every pair of thresholds, every set of check goroutines  *)
(* and every number of endpoint structs.  It speaks of the moments between *)
(* two checks and is not inductive: a check that has recorded its result   *)
(* and not yet called the ring must carry a result that still agrees with  *)
(* the failure counter when it does.  It does as long as it is the only    *)
(* check under way and works on the registered struct, which is what       *)
(* "undisturbed" comes to.                                                 *)
(***************************************************************************)
EXTENDS Consensus, HealthChecker, TLAPS

-----------------------------------------------------------------------------
(* The coordinator. *)

PCs == {"down", "elect", "lead", "collect", "put", "subscribe", "watch", "apply"}

LeaderHoldsLock == \A n \in Nodes \ lost : Leading(n) => lock = n

LockInv ==
  /\ pc \in [Nodes -> PCs]
  /\ LeaderHoldsLock

(* Initially every coordinator is at the top of Run, so nobody leads. *)
LEMMA LockInvInit == ConsensusInit => LockInv
  BY DEF ConsensusInit, LockInv, LeaderHoldsLock, Leading, PCs

(***************************************************************************)
(* Steps of the coordinator itself.  Only Acquire makes a leader, and it   *)
(* finds the lock free: then no leader with a live lease is left.          *)
(***************************************************************************)
LEMMA CoordinateKeepsLockInv ==
  ASSUME LockInv, NEW n \in Nodes, Coordinate(n)
  PROVE  LockInv'
<1> USE DEF LockInv, LeaderHoldsLock, Leading, PCs, GoTo
<1>1. CASE Acquire(n)
  BY <1>1, ConsensusAssumption DEF Acquire
<1>2. CASE Follow(n)
  BY <1>2 DEF Follow
<1>3. CASE Watch(n)
  BY <1>3 DEF Watch
<1>4. CASE BeginPublish(n)
  BY <1>4 DEF BeginPublish
<1>5. CASE CollectBackend(n)
  BY <1>5 DEF CollectBackend
<1>6. CASE Put(n)
  BY <1>6 DEF Put
<1>7. CASE Receive(n)
  <2>1. pc' = pc \/ (pc[n] = "watch" /\ \E l \in {"watch", "apply"} : GoTo(n, l))
    BY <1>7 DEF Receive
  <2>2. lock' = lock /\ lost' = lost
    BY <1>7 DEF Receive
  <2> QED
    BY <2>1, <2>2
<1>8. CASE ApplyBackend(n)
  <2>1. pc[n] = "apply" /\ \E l \in {"watch", "apply"} : GoTo(n, l)
    BY <1>8 DEF ApplyBackend
  <2>2. lock' = lock /\ lost' = lost
    BY <1>8 DEF ApplyBackend
  <2> QED
    BY <2>1, <2>2
<1>9. CASE Stamp(n)
  BY <1>9 DEF Stamp
<1> QED
  BY <1>1, <1>2, <1>3, <1>4, <1>5, <1>6, <1>7, <1>8, <1>9 DEF Coordinate

(***************************************************************************)
(* Faults.  A node that gives up or stops releases only its own lock, and  *)
(* a leader whose lease expires is counted in lost from then on.           *)
(***************************************************************************)
LEMMA DisturbKeepsLockInv ==
  ASSUME LockInv, NEW n \in Nodes, Disturb(n)
  PROVE  LockInv'
<1> USE DEF LockInv, LeaderHoldsLock, Leading, PCs, GoTo
<1>1. CASE PutFails(n)
  BY <1>1 DEF PutFails, Release
<1>2. CASE WatchError(n)
  BY <1>2 DEF WatchError
<1>3. CASE Crash(n)
  BY <1>3 DEF Crash, Halt
<1>4. CASE Stop(n)
  BY <1>4 DEF Stop, Halt, Release
<1>5. CASE Restart(n)
  BY <1>5 DEF Restart
<1>6. CASE LoseLock(n)
  BY <1>6 DEF LoseLock
<1>7. ASSUME NEW id \in Ids, LocalChange(n, id)
      PROVE  LockInv'
  BY <1>7 DEF LocalChange
<1>8. CASE SubscribeFails(n)
  BY <1>8 DEF SubscribeFails
<1> QED
  BY <1>1, <1>2, <1>3, <1>4, <1>5, <1>6, <1>7, <1>8 DEF Disturb

LEMMA LockInvStep == LockInv /\ [ConsensusNext]_consVars => LockInv'
<1> SUFFICES ASSUME LockInv, [ConsensusNext]_consVars
             PROVE  LockInv'
  OBVIOUS
<1>1. CASE \E n \in Nodes : Coordinate(n)
  BY <1>1, CoordinateKeepsLockInv
<1>2. CASE \E n \in Nodes : Disturb(n)
  BY <1>2, DisturbKeepsLockInv
<1>3. CASE LeaseExpires
  BY <1>3 DEF LeaseExpires, LockInv, LeaderHoldsLock, Leading
<1>4. CASE UNCHANGED consVars
  BY <1>4 DEF consVars, LockInv, LeaderHoldsLock, Leading
<1> QED
  BY <1>1, <1>2, <1>3, <1>4 DEF ConsensusNext

(***************************************************************************)
(* At most one node leads with a live lease (coordinator.go, "Single-      *)
(* writer consistency for ring mutations"), in every execution.            *)
(***************************************************************************)
THEOREM OneWriter == ConsensusSpec => []SingleWriter
<1>1. LockInv => SingleWriter
  BY DEF LockInv, LeaderHoldsLock, SingleWriter
<1> QED
  BY <1>1, LockInvInit, LockInvStep, PTL DEF ConsensusSpec

-----------------------------------------------------------------------------
(* The health checker. *)

Running(c) == check[c].step # "none"

(* A check that has work to do knows a struct to do it on. *)
ChecksHaveEndpoint == \A c \in Checks : Running(c) => check[c].ep \in 1 .. MaxEndpoints

(* One check at a time, of the registered struct. *)
OneCheck ==
  /\ current \in 1 .. MaxEndpoints
  /\ \A c \in Checks : Running(c) => check[c].ep = current
  /\ \A c, d \in Checks : Running(c) /\ Running(d) => c = d

(* The call that a check still owes the ring says what the counter says. *)
OwedAgrees ==
  \A c \in Checks :
    /\ check[c].step = "up" => endpoints[current].FailCount < FailThreshold
    /\ check[c].step = "down" => endpoints[current].FailCount >= FailThreshold

Undisturbed == OneCheck /\ OwedAgrees /\ HealthAgrees

HealthIInv ==
  /\ HealthTypeOK
  /\ ChecksHaveEndpoint
  /\ ~disturbed => Undisturbed

-----------------------------------------------------------------------------
(* The lesser of two numbers, where the counters saturate. *)
LEMMA MinOfTwo ==
  ASSUME NEW a \in Int, NEW b \in Int
  PROVE  Min({a, b}) = IF a <= b THEN a ELSE b
<1>1. Min({a, b}) = CHOOSE x \in {a, b} : \A y \in {a, b} : x <= y
  BY DEF Min
<1>2. CASE a <= b
  BY <1>1, <1>2
<1>3. CASE ~(a <= b)
  BY <1>1, <1>3
<1> QED
  BY <1>2, <1>3

LEMMA HealthInitInv == HealthInit => HealthIInv
<1> SUFFICES ASSUME HealthInit
             PROVE  HealthIInv
  OBVIOUS
<1>1. Fresh \in BackendEndpoint /\ NoCheck \in Check /\ 1 \in 1 .. MaxEndpoints
  BY HealthAssumption DEF Fresh, BackendEndpoint, NoCheck, Check
<1>2. HealthTypeOK
  <2>1. current \in 0 .. MaxEndpoints
    BY <1>1 DEF HealthInit
  <2> QED
    BY <1>1, <2>1 DEF HealthInit, HealthTypeOK
<1>3. \A c \in Checks : check[c].step = "none"
  BY DEF HealthInit, NoCheck
<1>4. endpoints[current].FailCount < FailThreshold
  BY <1>1, HealthAssumption DEF HealthInit, Fresh
<1> QED
  BY <1>1, <1>2, <1>3, <1>4 DEF HealthInit, HealthIInv, ChecksHaveEndpoint, Undisturbed,
     OneCheck, OwedAgrees, HealthAgrees, Running

-----------------------------------------------------------------------------
(* What an undisturbed check may rely on. *)
LEMMA Alone ==
  ASSUME HealthIInv, NEW c \in Checks, Running(c), ~disturbed
  PROVE  /\ current \in 1 .. MaxEndpoints /\ check[c].ep = current
         /\ \A d \in Checks \ {c} : check[d].step = "none"
         /\ check[c].step \notin {"up", "down"}
              => (health <=> endpoints[current].FailCount < FailThreshold)
         /\ check[c].step = "up" => endpoints[current].FailCount < FailThreshold
         /\ check[c].step = "down" => endpoints[current].FailCount >= FailThreshold
<1>1. OneCheck /\ OwedAgrees /\ HealthAgrees
  BY DEF HealthIInv, Undisturbed
<1>2. \A d \in Checks \ {c} : check[d].step = "none"
  BY <1>1 DEF OneCheck, Running
<1>3. check[c].step \notin {"up", "down"} => \A d \in Checks : check[d].step \notin {"up", "down"}
  BY <1>2
<1>4. check[c].step \notin {"up", "down"}
        => (health <=> endpoints[current].FailCount < FailThreshold)
  BY <1>1, <1>3 DEF HealthAgrees
<1> QED
  BY <1>1, <1>2, <1>4 DEF OneCheck, OwedAgrees

(* Where check c leaves counter and ring when it moves on to p. *)
LeavesAgreeing(p) ==
  LET down == endpoints'[current].FailCount >= FailThreshold
  IN  /\ p.step = "up" => ~down
      /\ p.step = "down" => down
      /\ p.step \notin {"up", "down"} => (health' <=> ~down)
      /\ p.step = "recover" => health'

(* What a step of check c has to show: the rest of the invariant follows. *)
LEMMA CheckMoves ==
  ASSUME HealthIInv, NEW c \in Checks, Running(c), NEW p \in Check,
         check' = [check EXCEPT ![c] = p],
         p.step # "none" => p.ep = check[c].ep,
         endpoints' \in [1 .. MaxEndpoints -> BackendEndpoint], health' \in BOOLEAN,
         UNCHANGED <<up, current, disturbed>>,
         ~disturbed => LeavesAgreeing(p)
  PROVE  HealthIInv'
<1>1. check \in [Checks -> Check]
  BY DEF HealthIInv, HealthTypeOK
<1>2. \A d \in Checks : check'[d] = IF d = c THEN p ELSE check[d]
  BY <1>1
<1>3. HealthTypeOK'
  <2>1. check' \in [Checks -> Check]
    BY <1>1
  <2> QED
    BY <2>1 DEF HealthIInv, HealthTypeOK
<1>4. ChecksHaveEndpoint'
  BY <1>2 DEF HealthIInv, ChecksHaveEndpoint, Running
<1>5. ASSUME ~disturbed
      PROVE  Undisturbed'
  <2>1. /\ current \in 1 .. MaxEndpoints /\ check[c].ep = current
        /\ \A d \in Checks \ {c} : check[d].step = "none"
    BY <1>5, Alone
  <2>2. \A d \in Checks \ {c} : check'[d].step = "none"
    BY <1>2, <2>1
  <2>3. check'[c] = p
    BY <1>2
  <2>4. OneCheck'
    BY <2>1, <2>2, <2>3 DEF OneCheck, Running
  <2>5. endpoints'[current].FailCount \in Int /\ FailThreshold \in Int
    BY <2>1, HealthAssumption DEF BackendEndpoint
  <2>6. OwedAgrees'
    BY <1>5, <2>2, <2>3, <2>5 DEF OwedAgrees, LeavesAgreeing
  <2>7. HealthAgrees'
    <3>1. (\E d \in Checks : check'[d].step = "recover") => p.step = "recover"
      BY <2>2, <2>3
    <3>2. (\A d \in Checks : check'[d].step \notin {"up", "down"}) => p.step \notin {"up", "down"}
      BY <2>3
    <3> QED
      BY <1>5, <2>5, <3>1, <3>2 DEF HealthAgrees, LeavesAgreeing
  <2> QED
    BY <2>4, <2>6, <2>7 DEF Undisturbed
<1> QED
  BY <1>3, <1>4, <1>5 DEF HealthIInv

(* Goto moves a check to a step and forgets its struct at the end. *)
LEMMA GotoParts ==
  ASSUME HealthIInv, NEW c \in Checks, Running(c),
         NEW step \in {"none", "probing", "pass", "fail", "up", "recover", "down"},
         Goto(c, step)
  PROVE  \E p \in Check : /\ check' = [check EXCEPT ![c] = p]
                          /\ p.step = step
                          /\ step # "none" => p.ep = check[c].ep
<1> DEFINE p == IF step = "none" THEN NoCheck ELSE [check[c] EXCEPT !.step = step]
<1>1. check[c] \in Check
  BY DEF HealthIInv, HealthTypeOK
<1>2. NoCheck \in Check /\ NoCheck.step = "none"
  BY HealthAssumption DEF NoCheck, Check
<1>3. p \in Check /\ p.step = step /\ (step # "none" => p.ep = check[c].ep)
  BY <1>1, <1>2 DEF Check
<1>4. check' = [check EXCEPT ![c] = p]
  BY DEF Goto
<1> HIDE DEF p
<1> QED
  BY <1>3, <1>4

-----------------------------------------------------------------------------
(* The steps of a check. *)
LEMMA AnswerKeeps ==
  ASSUME HealthIInv, NEW c \in Checks, Answer(c)
  PROVE  HealthIInv'
<1>1. Running(c) /\ check[c].step = "probing" /\ UNCHANGED <<up, endpoints, current, health, disturbed>>
  BY DEF Answer, Running
<1>2. PICK p \in Check : /\ check' = [check EXCEPT ![c] = p]
                         /\ p.step \in {"pass", "fail"} /\ p.ep = check[c].ep
  <2>1. Goto(c, "pass") \/ Goto(c, "fail")
    BY DEF Answer
  <2> QED
    BY <1>1, <2>1, GotoParts
<1>3. /\ endpoints' \in [1 .. MaxEndpoints -> BackendEndpoint] /\ health' \in BOOLEAN
      /\ endpoints \in [1 .. MaxEndpoints -> BackendEndpoint]
  BY <1>1 DEF HealthIInv, HealthTypeOK
<1>4. ASSUME ~disturbed
      PROVE  LeavesAgreeing(p)
  <2>1. /\ current \in 1 .. MaxEndpoints
        /\ health <=> endpoints[current].FailCount < FailThreshold
    BY <1>1, <1>4, Alone
  <2>2. endpoints[current].FailCount \in Int /\ FailThreshold \in Int
    BY <1>3, <2>1, HealthAssumption DEF BackendEndpoint
  <2> QED
    BY <1>1, <1>2, <2>1, <2>2 DEF LeavesAgreeing
<1> QED
  BY <1>1, <1>2, <1>3, <1>4, CheckMoves

(* A success clears the failure counter; if it was at the threshold the ring  *)
(* is owed a SetHealth(true), otherwise the ring already agrees.              *)
LEMMA MarkPassKeeps ==
  ASSUME HealthIInv, NEW c \in Checks, MarkPass(c)
  PROVE  HealthIInv'
<1> DEFINE ep      == endpoints[check[c].ep]
           wasDown == ep.FailCount >= FailThreshold
           n       == Min({ep.consecutiveSuccesses + 1, MinSuccesses + 1})
           warm    == n = MinSuccesses
           p       == IF wasDown   THEN [check[c] EXCEPT !.step = "up", !.warm = warm]
                      ELSE IF warm THEN [check[c] EXCEPT !.step = "recover"]
                      ELSE NoCheck
<1>1. /\ Running(c) /\ check[c].step = "pass" /\ UNCHANGED <<up, current, health, disturbed>>
      /\ check[c] \in Check /\ check[c].ep \in 1 .. MaxEndpoints
      /\ endpoints \in [1 .. MaxEndpoints -> BackendEndpoint]
  BY DEF MarkPass, Running, HealthIInv, HealthTypeOK, ChecksHaveEndpoint
<1>2. /\ endpoints' = [endpoints EXCEPT ![check[c].ep] =
                         [FailCount |-> 0, consecutiveSuccesses |-> n]]
      /\ check' = [check EXCEPT ![c] = p]
  BY DEF MarkPass
<1>3. n \in 0 .. MinSuccesses + 1
  <2>1. ep.consecutiveSuccesses \in 0 .. MinSuccesses + 1
    BY <1>1 DEF BackendEndpoint
  <2> QED
    BY <2>1, MinOfTwo, HealthAssumption
<1>4. endpoints' \in [1 .. MaxEndpoints -> BackendEndpoint]
  <2> HIDE DEF n
  <2>1. [FailCount |-> 0, consecutiveSuccesses |-> n] \in BackendEndpoint
    BY <1>3, HealthAssumption DEF BackendEndpoint
  <2> QED
    BY <1>1, <1>2, <2>1
<1>5. /\ p \in Check /\ (p.step # "none" => p.ep = check[c].ep)
      /\ p.step \in {"none", "recover", "up"} /\ (p.step = "up" <=> wasDown)
  <2>1. NoCheck \in Check /\ NoCheck.step = "none"
    BY HealthAssumption DEF NoCheck, Check
  <2>2. warm \in BOOLEAN
    OBVIOUS
  <2> HIDE DEF warm, wasDown
  <2> QED
    BY <1>1, <2>1, <2>2 DEF Check
<1>6. health' \in BOOLEAN
  BY <1>1 DEF HealthIInv, HealthTypeOK
<1>7. ASSUME ~disturbed
      PROVE  LeavesAgreeing(p)
  <2>1. /\ check[c].ep = current /\ current \in 1 .. MaxEndpoints
        /\ health <=> endpoints[current].FailCount < FailThreshold
    BY <1>1, <1>7, Alone
  <2>2. endpoints[current].FailCount \in Int /\ FailThreshold \in Nat \ {0}
    BY <1>1, <2>1, HealthAssumption DEF BackendEndpoint
  <2>3. endpoints'[current].FailCount = 0
    BY <1>1, <1>2, <2>1
  <2>4. ~wasDown => health'
    BY <1>1, <2>1, <2>2
  <2> HIDE DEF p, wasDown
  <2> QED
    BY <1>1, <1>5, <2>2, <2>3, <2>4 DEF LeavesAgreeing
<1> HIDE DEF p
<1> QED
  BY <1>1, <1>2, <1>4, <1>5, <1>6, <1>7, CheckMoves

(* A failure counts; at the threshold and above the ring is owed a           *)
(* SetHealth(false), below it the backend was up before.                     *)
LEMMA MarkFailKeeps ==
  ASSUME HealthIInv, NEW c \in Checks, MarkFail(c)
  PROVE  HealthIInv'
<1> DEFINE ep == endpoints[check[c].ep]
           n  == Min({ep.FailCount + 1, FailThreshold + 1})
<1>1. /\ Running(c) /\ check[c].step = "fail" /\ UNCHANGED <<up, current, health, disturbed>>
      /\ check[c].ep \in 1 .. MaxEndpoints
      /\ endpoints \in [1 .. MaxEndpoints -> BackendEndpoint]
  BY DEF MarkFail, Running, HealthIInv, HealthTypeOK, ChecksHaveEndpoint
<1>2. /\ endpoints' = [endpoints EXCEPT ![check[c].ep] =
                         [FailCount |-> n, consecutiveSuccesses |-> 0]]
      /\ Goto(c, IF n >= FailThreshold THEN "down" ELSE "none")
  BY DEF MarkFail
<1>3. ep.FailCount \in 0 .. FailThreshold + 1
  BY <1>1 DEF BackendEndpoint
<1>4. n \in 0 .. FailThreshold + 1 /\ (n < FailThreshold => ep.FailCount < FailThreshold)
  <2> DEFINE f == ep.FailCount
  <2>1. f \in Nat /\ f <= FailThreshold + 1 /\ FailThreshold \in Nat \ {0}
    BY <1>3, HealthAssumption
  <2>2. n = IF f + 1 <= FailThreshold + 1 THEN f + 1 ELSE FailThreshold + 1
    BY <2>1, MinOfTwo
  <2> HIDE DEF f, n
  <2>3. n \in 0 .. FailThreshold + 1 /\ (n < FailThreshold => f < FailThreshold)
    BY <2>1, <2>2
  <2> QED
    BY <2>3 DEF f
<1>5. endpoints' \in [1 .. MaxEndpoints -> BackendEndpoint]
  <2> HIDE DEF n
  <2>1. [FailCount |-> n, consecutiveSuccesses |-> 0] \in BackendEndpoint
    BY <1>4, HealthAssumption DEF BackendEndpoint
  <2> QED
    BY <1>1, <1>2, <2>1
<1>6. PICK p \in Check : /\ check' = [check EXCEPT ![c] = p]
                         /\ p.step = IF n >= FailThreshold THEN "down" ELSE "none"
                         /\ p.step # "none" => p.ep = check[c].ep
  <2> HIDE DEF n
  <2> QED
    BY <1>1, <1>2, GotoParts
<1>7. health' \in BOOLEAN
  BY <1>1 DEF HealthIInv, HealthTypeOK
<1>8. ASSUME ~disturbed
      PROVE  LeavesAgreeing(p)
  <2>1. /\ check[c].ep = current /\ current \in 1 .. MaxEndpoints
        /\ health <=> ep.FailCount < FailThreshold
    BY <1>1, <1>8, Alone
  <2>2. endpoints'[current].FailCount = n
    BY <1>1, <1>2, <2>1
  <2>3. n < FailThreshold => health'
    BY <1>1, <1>4, <2>1
  <2>4. n \in Int /\ FailThreshold \in Int
    BY <1>4, HealthAssumption
  <2> HIDE DEF n
  <2> QED
    BY <1>6, <2>2, <2>3, <2>4 DEF LeavesAgreeing
<1> QED
  BY <1>1, <1>5, <1>6, <1>7, <1>8, CheckMoves

(* The calls of the ring. *)
LEMMA RingCallKeeps ==
  ASSUME HealthIInv, NEW c \in Checks, SetUp(c) \/ Recovered(c) \/ SetDown(c)
  PROVE  HealthIInv'
<1>1. /\ Running(c) /\ UNCHANGED <<up, endpoints, current, disturbed>>
      /\ endpoints' \in [1 .. MaxEndpoints -> BackendEndpoint]
      /\ health \in BOOLEAN /\ health' \in BOOLEAN
  BY DEF SetUp, Recovered, SetDown, Running, HealthIInv, HealthTypeOK
<1>2. PICK step \in {"none", "recover"} :
        /\ Goto(c, step)
        /\ step = "recover" => SetUp(c)
  BY DEF SetUp, Recovered, SetDown
<1>3. PICK p \in Check : /\ check' = [check EXCEPT ![c] = p]
                         /\ p.step = step
                         /\ p.step # "none" => p.ep = check[c].ep
  BY <1>1, <1>2, GotoParts
<1>4. ASSUME ~disturbed
      PROVE  LeavesAgreeing(p)
  <2>1. /\ current \in 1 .. MaxEndpoints
        /\ check[c].step \notin {"up", "down"}
             => (health <=> endpoints[current].FailCount < FailThreshold)
        /\ check[c].step = "up" => endpoints[current].FailCount < FailThreshold
        /\ check[c].step = "down" => endpoints[current].FailCount >= FailThreshold
    BY <1>1, <1>4, Alone
  <2>2. endpoints[current].FailCount \in Int /\ FailThreshold \in Int
    BY <1>1, <2>1, HealthAssumption DEF BackendEndpoint
  <2>3. CASE SetUp(c)
    BY <1>1, <1>2, <1>3, <2>1, <2>2, <2>3 DEF SetUp, LeavesAgreeing
  <2>4. CASE Recovered(c)
    BY <1>1, <1>2, <1>3, <2>1, <2>2, <2>4 DEF Recovered, SetUp, LeavesAgreeing
  <2>5. CASE SetDown(c)
    BY <1>1, <1>2, <1>3, <2>1, <2>2, <2>5 DEF SetDown, SetUp, LeavesAgreeing
  <2> QED
    BY <2>3, <2>4, <2>5
<1> QED
  BY <1>1, <1>3, <1>4, CheckMoves

(* A tick starts a check; it stays undisturbed if no other is under way. *)
LEMMA RunCheckKeeps ==
  ASSUME HealthIInv, NEW c \in Checks, RunCheck(c)
  PROVE  HealthIInv'
<1> DEFINE p == [step |-> "probing", ep |-> current, warm |-> FALSE]
<1>1. /\ check[c].step = "none" /\ UNCHANGED <<up, endpoints, current, health>>
      /\ check' = [check EXCEPT ![c] = p]
      /\ disturbed' = (disturbed \/ \E d \in Checks : check[d].step # "none")
      /\ current \in 1 .. MaxEndpoints /\ check \in [Checks -> Check]
  <2>1. current # 0 /\ current \in 0 .. MaxEndpoints
    BY DEF RunCheck, HealthIInv, HealthTypeOK
  <2> QED
    BY <2>1, HealthAssumption DEF RunCheck, HealthIInv, HealthTypeOK
<1>2. p \in Check
  BY <1>1, HealthAssumption DEF Check
<1>3. \A d \in Checks : check'[d] = IF d = c THEN p ELSE check[d]
  BY <1>1
<1>4. p.step = "probing" /\ p.ep = current
  OBVIOUS
<1> HIDE DEF p
<1>5. HealthTypeOK'
  <2>1. check' \in [Checks -> Check]
    BY <1>1, <1>2
  <2>2. disturbed' \in BOOLEAN
    BY <1>1
  <2> QED
    BY <1>1, <2>1, <2>2 DEF HealthIInv, HealthTypeOK
<1>6. ChecksHaveEndpoint'
  BY <1>1, <1>3, <1>4 DEF HealthIInv, ChecksHaveEndpoint, Running
<1>7. ASSUME ~disturbed'
      PROVE  Undisturbed'
  <2>1. ~disturbed /\ \A d \in Checks : check[d].step = "none"
    BY <1>1, <1>7
  <2>2. HealthAgrees
    BY <2>1 DEF HealthIInv, Undisturbed
  <2>3. health <=> endpoints[current].FailCount < FailThreshold
    BY <2>1, <2>2 DEF HealthAgrees
  <2> QED
    BY <1>1, <1>3, <1>4, <2>1, <2>3
    DEF Undisturbed, OneCheck, OwedAgrees, HealthAgrees, Running
<1> QED
  BY <1>5, <1>6, <1>7 DEF HealthIInv

(* Registration disturbs, and never touches a struct that a check works on. *)
LEMMA RegisterKeeps ==
  ASSUME HealthIInv, Register \/ Deregister
  PROVE  HealthIInv'
<1>1. /\ disturbed' = TRUE /\ UNCHANGED <<up, check, health>>
      /\ endpoints \in [1 .. MaxEndpoints -> BackendEndpoint]
  BY DEF Register, Deregister, HealthIInv, HealthTypeOK
<1>2. current' \in 0 .. MaxEndpoints
  BY HealthAssumption DEF Register, Deregister
<1>3. endpoints' \in [1 .. MaxEndpoints -> BackendEndpoint]
  <2>1. Fresh \in BackendEndpoint
    BY HealthAssumption DEF Fresh, BackendEndpoint
  <2> QED
    BY <1>1, <2>1 DEF Register, Deregister
<1> QED
  BY <1>1, <1>2, <1>3 DEF HealthIInv, HealthTypeOK, ChecksHaveEndpoint, Running

LEMMA HealthNextInv == HealthIInv /\ [HealthNext]_healthVars => HealthIInv'
<1> SUFFICES ASSUME HealthIInv, [HealthNext]_healthVars
             PROVE  HealthIInv'
  OBVIOUS
<1>1. CASE Flip \/ UNCHANGED healthVars
  <2>1. UNCHANGED <<endpoints, current, check, health, disturbed>>
    BY <1>1 DEF Flip, healthVars
  <2>2. up' \in BOOLEAN
    BY <1>1 DEF Flip, healthVars, HealthIInv, HealthTypeOK
  <2> QED
    BY <2>1, <2>2 DEF HealthIInv, HealthTypeOK, ChecksHaveEndpoint, Undisturbed, OneCheck,
       OwedAgrees, HealthAgrees, Running
<1>2. CASE Register \/ Deregister
  BY <1>2, RegisterKeeps
<1>3. CASE \E c \in Checks : RunCheck(c) \/ CheckStep(c)
  BY <1>3, RunCheckKeeps, AnswerKeeps, MarkPassKeeps, MarkFailKeeps, RingCallKeeps
  DEF CheckStep
<1> QED
  BY <1>1, <1>2, <1>3 DEF HealthNext

-----------------------------------------------------------------------------
(* Counter, pending call and ring fit together in every reachable state. *)
THEOREM HealthInvariant == HealthSpec => []HealthIInv
BY HealthInitInv, HealthNextInv, PTL DEF HealthSpec

(* Between two checks that do not overlap the ring agrees with the failure   *)
(* counter, and a backend that is DOWN never gets the recovery callback.     *)
THEOREM HealthTheorem == HealthSpec => []HealthInv
<1>1. HealthIInv => HealthInv
  BY DEF HealthIInv, HealthInv, Undisturbed
<1> QED
  BY <1>1, HealthInvariant, PTL
=============================================================================
