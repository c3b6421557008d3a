-------------------------- MODULE RateLimitProofs --------------------------
(***************************************************************************)
(* The token bucket for every number of backends, every configuration of   *)
(* rates and every length of a run: its type and AdmissionBounded; and the *)
(* operators' limiter for every limit, window and addresses: AdminBounded. *)
(***************************************************************************)
EXTENDS RateLimit, TLAPS

-----------------------------------------------------------------------------
\* Multiplication by a natural number is monotone.
LEMMA TimesMonotone ==
    ASSUME NEW x \in Nat, NEW y \in Nat, NEW k \in Nat, x <= y
    PROVE  x * k <= y * k /\ k * x <= k * y /\ x * k \in Nat
  OBVIOUS

\* Peak bounds every rate a bucket can get.
LEMMA PeakBounds ==
    /\ Peak \in Nat
    /\ InitRps <= Peak /\ MaxRps <= Peak /\ Floor <= Peak
  BY RateAssumption DEF Peak, AtLeast

\* What DQNRateLimitAdjuster computes from a limit stays in the configured
\* range, and set_rate makes a rate of at least one out of it.
LEMMA AdjustedInRange ==
    ASSUME NEW limit \in Nat, NEW factor \in Nat
    PROVE  /\ Adjusted(limit, factor) \in Nat /\ Adjusted(limit, factor) \in MinRps .. MaxRps
           /\ AtLeast(Floor, Adjusted(limit, factor)) \in 1 .. Peak
  <1>1. Adjusted(limit, factor) \in MinRps .. MaxRps
    <2>1. (limit * factor) \div 10 \in Nat
      OBVIOUS
    <2> QED
      BY <2>1, RateAssumption DEF Adjusted, AtLeast, AtMost
  <1> QED
    BY <1>1, PeakBounds, RateAssumption DEF AtLeast

\* What consume finds in the bucket: no more than a second's worth, and no
\* more than it held plus the refill at the greatest rate.
LEMMA RefilledBounds ==
    ASSUME RateTypeOK, NEW b \in Backends
    PROVE  /\ Refilled(b) \in Nat
           /\ Refilled(b) <= Peak * Q
           /\ Refilled(b) <= tokens[b] + Peak * (now - last[b])
  <1>1. /\ rate[b] \in Nat /\ rate[b] <= Peak
        /\ tokens[b] \in Nat
        /\ now - last[b] \in Nat
        /\ Q \in Nat
    BY RateAssumption DEF RateTypeOK
  <1>2. /\ rate[b] * Q <= Peak * Q
        /\ rate[b] * Q \in Nat
    BY <1>1, PeakBounds, TimesMonotone
  <1>3. /\ rate[b] * (now - last[b]) <= Peak * (now - last[b])
        /\ rate[b] * (now - last[b]) \in Nat
    BY <1>1, PeakBounds, TimesMonotone
  <1>4. Peak * Q \in Nat /\ Peak * (now - last[b]) \in Nat
    BY <1>1, PeakBounds
  <1> QED
    BY <1>1, <1>2, <1>3, <1>4 DEF Refilled, AtMost

-----------------------------------------------------------------------------
LEMMA InitTyped == Init => RateTypeOK
  <1>1. InitRps * Q <= Peak * Q /\ InitRps * Q \in Nat
    BY PeakBounds, TimesMonotone, RateAssumption
  <1> QED
    BY <1>1, PeakBounds, RateAssumption DEF Init, RateTypeOK

LEMMA ConsumeTyped ==
    ASSUME RateTypeOK, NEW b \in Backends, Consume(b)
    PROVE  RateTypeOK'
  <1>1. Refilled(b) \in Nat /\ Refilled(b) <= Peak * Q
    BY RefilledBounds
  <1>2. Peak * Q \in Nat /\ Q \in Nat
    BY PeakBounds, RateAssumption
  <1>3. /\ tokens' \in [Backends -> Nat]
        /\ \A c \in Backends : tokens'[c] <= Peak * Q
    BY <1>1, <1>2 DEF Consume, RateTypeOK
  <1>4. admitted' \in [Backends -> Nat]
    BY DEF Consume, RateTypeOK
  <1>5. last' \in [Backends -> 0 .. now]
    BY DEF Consume, RateTypeOK
  <1> QED
    BY <1>3, <1>4, <1>5 DEF Consume, RateTypeOK

LEMMA UpdateTyped ==
    ASSUME RateTypeOK, NEW healthy \in SUBSET Backends, Update(healthy)
    PROVE  RateTypeOK'
  <1>1. PICK action \in [healthy -> {9, 10, 11}] :
          /\ limits' = [b \in Backends |->
                          IF b \in healthy THEN Adjusted(limits[b], action[b])
                          ELSE limits[b]]
          /\ rate' = [b \in Backends |->
                        IF b \in healthy THEN AtLeast(Floor, limits'[b]) ELSE rate[b]]
    BY DEF Update, SetRate
  <1>2. ASSUME NEW b \in Backends
        PROVE  /\ limits'[b] \in Nat /\ rate'[b] \in 1 .. Peak
               /\ \/ limits'[b] = FirstLimit /\ rate'[b] = InitRps
                  \/ limits'[b] \in MinRps .. MaxRps /\ rate'[b] = SetRate(limits'[b])
    <2>1. CASE b \in healthy
      <3>1. action[b] \in Nat /\ limits[b] \in Nat
        BY <2>1 DEF RateTypeOK
      <3>2. limits'[b] = Adjusted(limits[b], action[b])
        BY <1>1, <2>1
      <3>3. rate'[b] = AtLeast(Floor, limits'[b])
        BY <1>1, <2>1
      <3> QED
        BY <3>1, <3>2, <3>3, AdjustedInRange DEF SetRate
    <2>2. CASE b \notin healthy
      BY <1>1, <2>2 DEF RateTypeOK
    <2> QED
      BY <2>1, <2>2
  <1>3. limits' \in [Backends -> Nat]
    <2>1. limits' = [b \in Backends |-> limits'[b]]
      BY <1>1
    <2> QED
      BY <2>1, <1>2
  <1>4. rate' \in [Backends -> Nat]
    <2>1. rate' = [b \in Backends |-> rate'[b]]
      BY <1>1
    <2>2. \A b \in Backends : rate'[b] \in Nat
      BY <1>2, PeakBounds
    <2> QED
      BY <2>1, <2>2
  <1> QED
    BY <1>2, <1>3, <1>4 DEF Update, RateTypeOK

\* Every step keeps the type.
LEMMA NextTyped == RateTypeOK /\ [Next]_vars => RateTypeOK'
  <1> SUFFICES ASSUME RateTypeOK, [Next]_vars
               PROVE  RateTypeOK'
    OBVIOUS
  <1>1. CASE \E b \in Backends : Consume(b)
    BY <1>1, ConsumeTyped
  <1>2. CASE \E healthy \in SUBSET Backends : Update(healthy)
    BY <1>2, UpdateTyped
  <1>3. CASE \E a \in Addresses : Allow(a)
    BY <1>3 DEF Allow, RateTypeOK, bucketVars, adminVars
  <1>4. CASE Tick
    BY <1>4 DEF Tick, RateTypeOK, bucketVars, adminVars
  <1>5. CASE Mark
    BY <1>5 DEF Mark, RateTypeOK
  <1>6. CASE UNCHANGED vars
    BY <1>6 DEF vars, RateTypeOK
  <1> QED
    BY <1>1, <1>2, <1>3, <1>4, <1>5, <1>6 DEF Next

\* In every reachable state: no bucket holds more than a second of the greatest
\* rate, every limit the adjuster has set is between MinRps and MaxRps, and the
\* bucket runs at it.
THEOREM RateTypeInvariant == Spec => []RateTypeOK
  BY InitTyped, NextTyped, PTL DEF Spec

-----------------------------------------------------------------------------
\* The inductive form: what the bucket still holds counts as admitted, and a
\* bucket that nobody asked since the mark still holds what it held before.
AdmissionInv ==
    \A b \in Backends :
        \/ last[b] < mark /\ admitted[b] = 0
        \/ last[b] >= mark /\
           admitted[b] * Q + tokens[b] <= Peak * Q + Peak * (last[b] - mark)

LEMMA InitAdmission == Init => AdmissionInv
  <1> SUFFICES ASSUME Init, NEW b \in Backends
               PROVE  /\ last[b] >= mark
                      /\ admitted[b] * Q + tokens[b] <= Peak * Q + Peak * (last[b] - mark)
    BY DEF AdmissionInv
  <1>1. InitRps * Q <= Peak * Q /\ InitRps * Q \in Nat
    BY PeakBounds, TimesMonotone, RateAssumption
  <1>2. Peak * Q \in Nat /\ Q \in Nat /\ Peak \in Nat
    BY PeakBounds, RateAssumption
  <1>3. last[b] = 0 /\ mark = 0 /\ admitted[b] = 0 /\ tokens[b] = InitRps * Q
    BY DEF Init
  <1>4. admitted[b] * Q = 0 /\ Peak * (last[b] - mark) = 0
    BY <1>2, <1>3
  <1> QED
    BY <1>1, <1>2, <1>3, <1>4

\* consume keeps the account of the bucket it is called on: what it credits is
\* at most the refill at the greatest rate, and what it takes it counts.
LEMMA ConsumeAdmission ==
    ASSUME RateTypeOK, AdmissionInv, NEW b \in Backends, Consume(b)
    PROVE  AdmissionInv'
  <1>1. mark' = mark /\ last'[b] = now /\ mark <= now
    BY DEF Consume, RateTypeOK
  <1>2. ASSUME NEW c \in Backends, c # b
        PROVE  last'[c] = last[c] /\ tokens'[c] = tokens[c] /\ admitted'[c] = admitted[c]
    BY <1>2 DEF Consume, RateTypeOK
  <1>3. admitted'[b] * Q + tokens'[b] = admitted[b] * Q + Refilled(b)
    <2>1. /\ admitted[b] \in Nat /\ Q \in Nat /\ Refilled(b) \in Nat
          /\ (admitted[b] + 1) * Q = admitted[b] * Q + Q
      BY RefilledBounds, RateAssumption DEF RateTypeOK
    <2>2. CASE Refilled(b) >= Q
      <3>1. admitted'[b] = admitted[b] + 1 /\ tokens'[b] = Refilled(b) - Q
        BY <2>2 DEF Consume, RateTypeOK
      <3> QED
        BY <2>1, <3>1
    <2>3. CASE ~(Refilled(b) >= Q)
      BY <2>3 DEF Consume, RateTypeOK
    <2> QED
      BY <2>2, <2>3
  <1>4. admitted[b] * Q + Refilled(b) <= Peak * Q + Peak * (now - mark)
    <2>1. /\ Peak \in Nat /\ Peak * Q \in Nat /\ Q \in Nat
          /\ now \in Nat /\ mark \in Nat /\ last[b] \in Nat
          /\ mark <= now /\ last[b] <= now
          /\ admitted[b] \in Nat /\ tokens[b] \in Nat
          /\ Refilled(b) \in Nat
      BY PeakBounds, RefilledBounds, RateAssumption DEF RateTypeOK
    <2>2. CASE last[b] < mark /\ admitted[b] = 0
      <3>1. Peak * (now - mark) \in Nat
        BY <2>1
      <3>2. admitted[b] * Q = 0
        BY <2>1, <2>2
      <3> QED
        BY <2>1, <3>1, <3>2, RefilledBounds
    <2>3. CASE /\ last[b] >= mark
               /\ admitted[b] * Q + tokens[b] <= Peak * Q + Peak * (last[b] - mark)
      <3>1. Peak * (now - mark) = Peak * (last[b] - mark) + Peak * (now - last[b])
        BY <2>1
      <3>2. Refilled(b) <= tokens[b] + Peak * (now - last[b])
        BY RefilledBounds
      <3>3. /\ Peak * (now - last[b]) \in Int /\ Peak * (last[b] - mark) \in Int
            /\ admitted[b] * Q \in Int
        BY <2>1
      <3> QED
        BY <2>1, <2>3, <3>1, <3>2, <3>3
    <2> QED
      BY <2>2, <2>3 DEF AdmissionInv
  <1>5. ASSUME NEW c \in Backends
        PROVE  \/ last'[c] < mark' /\ admitted'[c] = 0
               \/ last'[c] >= mark' /\
                  admitted'[c] * Q + tokens'[c] <= Peak * Q + Peak * (last'[c] - mark')
    <2>1. CASE c = b
      <3>1. now >= mark
        BY <1>1 DEF RateTypeOK
      <3> QED
        BY <2>1, <3>1, <1>1, <1>3, <1>4
    <2>2. CASE c # b
      BY <2>2, <1>1, <1>2 DEF AdmissionInv
    <2> QED
      BY <2>1, <2>2
  <1> QED
    BY <1>5 DEF AdmissionInv

\* A new mark starts the account again: a bucket that was asked at this very
\* moment holds at most a second's worth.
LEMMA MarkAdmission ==
    ASSUME RateTypeOK, Mark
    PROVE  AdmissionInv'
  <1>0. mark' = now /\ last' = last /\ tokens' = tokens
    BY DEF Mark
  <1> SUFFICES ASSUME NEW b \in Backends
               PROVE  \/ last[b] < now /\ admitted'[b] = 0
                      \/ last[b] >= now /\
                         admitted'[b] * Q + tokens[b] <= Peak * Q + Peak * (last[b] - now)
    BY <1>0, Zenon DEF AdmissionInv
  <1>1. admitted'[b] = 0
    BY DEF Mark
  <1>5. last[b] \in Nat /\ now \in Nat /\ last[b] <= now
    BY DEF RateTypeOK
  <1>2. /\ last[b] \in Nat /\ now \in Nat
        /\ tokens[b] \in Nat /\ tokens[b] <= Peak * Q
        /\ Peak * Q \in Nat /\ Peak \in Nat /\ Q \in Nat
    BY PeakBounds, RateAssumption DEF RateTypeOK
  <1>3. CASE last[b] < now
    BY <1>1, <1>3
  <1>4. CASE last[b] = now
    <2>1. Peak * (last[b] - now) = 0
      BY <1>2, <1>4
    <2>2. admitted'[b] * Q = 0
      BY <1>1, <1>2
    <2> QED
      BY <1>2, <1>4, <2>1, <2>2
  <1>6. last[b] < now \/ last[b] = now
    BY <1>5
  <1> QED
    BY <1>3, <1>4, <1>6, Zenon

\* Every step keeps the account.
LEMMA NextAdmission == RateTypeOK /\ AdmissionInv /\ [Next]_vars => AdmissionInv'
  <1> SUFFICES ASSUME RateTypeOK, AdmissionInv, [Next]_vars
               PROVE  AdmissionInv'
    OBVIOUS
  <1>1. CASE \E b \in Backends : Consume(b)
    BY <1>1, ConsumeAdmission
  <1>2. CASE \E healthy \in SUBSET Backends : Update(healthy)
    BY <1>2 DEF Update, AdmissionInv
  <1>3. CASE \E a \in Addresses : Allow(a)
    BY <1>3 DEF Allow, AdmissionInv, bucketVars
  <1>4. CASE Tick
    BY <1>4 DEF Tick, AdmissionInv, bucketVars
  <1>5. CASE Mark
    BY <1>5, MarkAdmission
  <1>6. CASE UNCHANGED vars
    BY <1>6 DEF vars, AdmissionInv
  <1> QED
    BY <1>1, <1>2, <1>3, <1>4, <1>5, <1>6 DEF Next

\* The account bounds what was admitted.
LEMMA AccountBounds == RateTypeOK /\ AdmissionInv => AdmissionBounded
  <1> SUFFICES ASSUME RateTypeOK, AdmissionInv, NEW b \in Backends
               PROVE  admitted[b] * Q <= Peak * Q + Peak * (now - mark)
    BY DEF AdmissionBounded
  <1>1. /\ Peak \in Nat /\ Peak * Q \in Nat /\ Q \in Nat
        /\ now - mark \in Nat /\ Peak * (now - mark) \in Nat
        /\ admitted[b] \in Nat /\ tokens[b] \in Nat
        /\ now \in Nat /\ mark \in Nat /\ last[b] \in Nat /\ last[b] <= now
    BY PeakBounds, RateAssumption DEF RateTypeOK
  <1>2. CASE last[b] < mark /\ admitted[b] = 0
    <2>1. admitted[b] * Q = 0
      BY <1>1, <1>2
    <2> QED
      BY <1>1, <2>1
  <1>3. CASE /\ last[b] >= mark
             /\ admitted[b] * Q + tokens[b] <= Peak * Q + Peak * (last[b] - mark)
    <2>1. last[b] - mark \in Nat /\ last[b] - mark <= now - mark
      BY <1>1, <1>3
    <2>2. Peak * (last[b] - mark) <= Peak * (now - mark)
      BY <1>1, <2>1, TimesMonotone
    <2>3. Peak * (last[b] - mark) \in Int /\ admitted[b] * Q \in Int
      BY <1>1
    <2> QED
      BY <1>1, <1>3, <2>2, <2>3
  <1> QED
    BY <1>2, <1>3 DEF AdmissionInv

\* The account of every bucket balances in every reachable state.
THEOREM AdmissionInvariant == Spec => []AdmissionInv
  <1>1. RateTypeOK /\ AdmissionInv /\ [Next]_vars => AdmissionInv'
    BY NextAdmission
  <1> QED
    BY <1>1, InitAdmission, RateTypeInvariant, PTL DEF Spec

\* Between any two moments a bucket admits at most one burst and the refill at
\* the greatest rate, however DQNRateLimitAdjuster moves the rate.
THEOREM AdmissionTheorem == Spec => []AdmissionBounded
  BY AccountBounds, RateTypeInvariant, AdmissionInvariant, PTL

-----------------------------------------------------------------------------
\* Quotient and remainder, and that the quotient grows with the dividend.
LEMMA Division ==
    ASSUME NEW t \in Nat, NEW w \in Nat \ {0}
    PROVE  /\ t \div w \in Nat
           /\ t % w \in 0 .. w - 1
           /\ t = w * (t \div w) + (t % w)
  OBVIOUS

\* A quotient does not shrink when the dividend grows.
LEMMA DivisionMonotone ==
    ASSUME NEW s \in Nat, NEW t \in Nat, NEW w \in Nat \ {0}, s <= t
    PROVE  s \div w <= t \div w
  <1> DEFINE p == s \div w
             q == t \div w
             wp == w * p
             wq == w * q
  <1>1. /\ p \in Nat /\ s % w \in 0 .. w - 1 /\ s = wp + (s % w)
        /\ q \in Nat /\ t % w \in 0 .. w - 1 /\ t = wq + (t % w)
    BY Division
  <1>2. wp \in Nat /\ wq \in Nat
    BY <1>1
  <1> SUFFICES ASSUME q + 1 <= p
               PROVE  FALSE
    BY <1>1
  <1>3. w * (q + 1) = w * q + w
    BY <1>1
  <1> HIDE DEF p, q
  <1>4. w * (q + 1) <= w * p
    BY <1>1, TimesMonotone
  <1>5. wq + w <= wp
    BY <1>3, <1>4
  <1> HIDE DEF wp, wq
  <1>6. t < wq + w /\ wp <= s
    BY <1>1, <1>2
  <1> QED
    BY <1>2, <1>5, <1>6

\* A window starts at a multiple of its length, and not after its moments.
LEMMA WindowStarts ==
    ASSUME NEW t \in Nat
    PROVE  /\ WindowStart(t) = Window * (t \div Window)
           /\ t \div Window \in Nat
           /\ WindowStart(t) \in Nat
  <1>1. Window \in Nat \ {0}
    BY LimiterAssumption
  <1>2. /\ t \div Window \in Nat /\ t % Window \in 0 .. Window - 1
        /\ t = Window * (t \div Window) + (t % Window)
    BY <1>1, Division
  <1>3. Window * (t \div Window) \in Nat
    BY <1>1, <1>2
  <1> QED
    BY <1>2, <1>3 DEF WindowStart

LEMMA WindowStartMonotone ==
    ASSUME NEW s \in Nat, NEW t \in Nat, s <= t
    PROVE  /\ s \div Window <= t \div Window
           /\ WindowStart(s) <= WindowStart(t)
  <1>1. Window \in Nat \ {0}
    BY LimiterAssumption
  <1>2. s \div Window <= t \div Window
    BY <1>1, DivisionMonotone
  <1> QED
    BY <1>1, <1>2, WindowStarts, TimesMonotone

-----------------------------------------------------------------------------
\* The inductive form of AdminBounded. An address whose window began before the
\* observer's has not been let through since; any other has used up at most a
\* budget for each window between the observer's and its own, and in its own
\* what the limiter counted.
Charged(a, k) ==
    /\ budget[a].start = Window * k
    /\ mark \div Window <= k /\ k <= now \div Window
    /\ allowed[a] <= Limit * (k - (mark \div Window)) + budget[a].count

AdminInv ==
    /\ budget \in [Addresses -> [start : Nat \cup {-1}, count : 0 .. Limit]]
    /\ allowed \in [Addresses -> Nat]
    /\ \A a \in Addresses :
          \/ budget[a].start < WindowStart(mark) /\ allowed[a] = 0
          \/ \E k \in Nat : Charged(a, k)

LEMMA InitAdmin == Init => AdminInv
  <1> SUFFICES ASSUME Init
               PROVE  AdminInv
    OBVIOUS
  <1>1. WindowStart(mark) \in Nat
    BY WindowStarts DEF Init
  <1> QED
    BY <1>1, LimiterAssumption DEF Init, AdminInv

\* In a new window the count restarts, and the windows before it have used at
\* most their budgets; in the same window the guard keeps the count.
LEMMA AllowAdmin ==
    ASSUME RateTypeOK, AdminInv, NEW a \in Addresses, Allow(a)
    PROVE  AdminInv'
  <1> DEFINE n == now \div Window
             m == mark \div Window
             fresh == budget[a].start # WindowStart(now)
  <1>1. now \in Nat /\ mark \in Nat /\ mark <= now /\ now' = now /\ mark' = mark
    BY DEF RateTypeOK, Allow
  <1>2. /\ n \in Nat /\ m \in Nat /\ m <= n
        /\ WindowStart(now) = Window * n /\ WindowStart(now) \in Nat
        /\ WindowStart(mark) <= WindowStart(now) /\ WindowStart(mark) \in Nat
    BY <1>1, WindowStarts, WindowStartMonotone
  <1>3. Limit \in Nat \ {0} /\ Window \in Nat \ {0}
    BY LimiterAssumption
  <1>4. /\ budget[a].start \in Nat \cup {-1} /\ budget[a].count \in 0 .. Limit
        /\ allowed[a] \in Nat
    BY DEF AdminInv
  <1>5. CASE fresh \/ budget[a].count < Limit
    <2>1. /\ budget' = [budget EXCEPT ![a] =
                [start |-> WindowStart(now),
                 count |-> IF fresh THEN 1 ELSE @.count + 1]]
          /\ allowed' = [allowed EXCEPT ![a] = @ + 1]
      BY <1>5 DEF Allow
    <2>2. /\ budget'[a].start = Window * n
          /\ budget'[a].count = IF fresh THEN 1 ELSE budget[a].count + 1
          /\ allowed'[a] = allowed[a] + 1
          /\ \A c \in Addresses \ {a} : budget'[c] = budget[c] /\ allowed'[c] = allowed[c]
      BY <2>1, <1>2 DEF AdminInv
    <2>3. budget'[a].count \in 0 .. Limit
      BY <2>2, <1>3, <1>4, <1>5
    <2>4. /\ budget' \in [Addresses -> [start : Nat \cup {-1}, count : 0 .. Limit]]
          /\ allowed' \in [Addresses -> Nat]
      <3>1. [start |-> WindowStart(now), count |-> IF fresh THEN 1 ELSE budget[a].count + 1]
              \in [start : Nat \cup {-1}, count : 0 .. Limit]
        BY <1>2, <2>2, <2>3
      <3> QED
        BY <2>1, <3>1, <1>4 DEF AdminInv
    <2>5. allowed[a] + 1 <= Limit * (n - m) + budget'[a].count
      <3> HIDE DEF n, m
      <3>0. Limit * (n - m) \in Nat
        BY <1>2, <1>3
      <3>1. CASE budget[a].start < WindowStart(mark) /\ allowed[a] = 0
        <4>1. fresh
          BY <3>1, <1>2, <1>4
        <4> QED
          BY <3>0, <3>1, <4>1, <2>2
      <3>2. CASE \E k \in Nat : Charged(a, k)
        <4>1. PICK k \in Nat : Charged(a, k)
          BY <3>2
        <4>2. /\ budget[a].start = Window * k /\ m <= k /\ k <= n
              /\ allowed[a] <= Limit * (k - m) + budget[a].count
          BY <4>1 DEF Charged, n, m
        <4>3. CASE k = n
          BY <4>2, <4>3, <2>2, <1>2, <1>4, <3>0
        <4>4. CASE k # n
          <5>1. Window * k # Window * n
            <6>1. Window * (k + 1) <= Window * n
              BY <4>2, <4>4, <1>2, <1>3, TimesMonotone
            <6> QED
              BY <6>1, <1>3, <1>2
          <5>2. budget'[a].count = 1
            BY <5>1, <4>2, <2>2, <1>2
          <5>3. (k - m) + 1 \in Nat /\ (k - m) + 1 <= n - m /\ k - m \in Nat /\ n - m \in Nat
            BY <4>2, <4>4, <1>2
          <5>4. Limit * ((k - m) + 1) <= Limit * (n - m)
            BY <5>3, <1>3, TimesMonotone
          <5>5. Limit * ((k - m) + 1) = Limit * (k - m) + Limit /\ Limit * (k - m) \in Nat
            BY <5>3, <1>3
          <5> QED
            BY <5>2, <5>4, <5>5, <4>2, <1>3, <1>4, <3>0
        <4> QED
          BY <4>3, <4>4
      <3> QED
        BY <3>1, <3>2 DEF AdminInv
    <2>6. Charged(a, n)'
      BY <2>2, <2>5, <1>1, <1>2 DEF Charged
    <2>7. ASSUME NEW c \in Addresses \ {a}, NEW k \in Nat, Charged(c, k)
          PROVE  Charged(c, k)'
      BY <2>7, <2>2, <1>1 DEF Charged
    <2>8. WindowStart(mark)' = WindowStart(mark)
      BY <1>1 DEF WindowStart
    <2>9. ASSUME NEW c \in Addresses
          PROVE  \/ budget'[c].start < WindowStart(mark)' /\ allowed'[c] = 0
                 \/ \E k \in Nat : Charged(c, k)'
      <3>1. CASE c = a
        BY <3>1, <2>6, <1>1, <1>2
      <3>2. CASE c # a
        BY <3>2, <2>2, <2>7, <2>8 DEF AdminInv
      <3> QED
        BY <3>1, <3>2
    <2> QED
      BY <2>4, <2>9 DEF AdminInv, Charged
  <1>6. CASE ~(fresh \/ budget[a].count < Limit)
    BY <1>6, <1>1 DEF Allow, adminVars, AdminInv, Charged, WindowStart
  <1> QED
    BY <1>5, <1>6

\* Time only moves the end of the span.
LEMMA TickAdmin ==
    ASSUME RateTypeOK, AdminInv, Tick
    PROVE  AdminInv'
  <1>1. /\ now \in Nat /\ now' = now + 1 /\ mark' = mark /\ budget' = budget
        /\ allowed' = allowed
    BY DEF RateTypeOK, Tick, adminVars
  <1>2. now \div Window <= now' \div Window /\ now \div Window \in Nat
        /\ now' \div Window \in Nat
    BY <1>1, WindowStartMonotone, WindowStarts
  <1>3. ASSUME NEW a \in Addresses, NEW k \in Nat, Charged(a, k)
        PROVE  Charged(a, k)'
    BY <1>1, <1>2, <1>3 DEF Charged
  <1> QED
    BY <1>1, <1>3 DEF AdminInv, WindowStart

\* A new mark starts the account again, in the middle of a window that may
\* already be charged.
LEMMA RestartAdmin ==
    ASSUME RateTypeOK, AdminInv, Mark
    PROVE  AdminInv'
  <1>1. /\ now \in Nat /\ mark \in Nat /\ mark <= now
        /\ mark' = now /\ now' = now /\ budget' = budget
        /\ allowed' = [a \in Addresses |-> 0]
    BY DEF RateTypeOK, Mark
  <1> DEFINE n == now \div Window
  <1>2. /\ n \in Nat /\ WindowStart(now) = Window * n
        /\ WindowStart(mark) <= WindowStart(now)
        /\ WindowStart(now) \in Nat /\ WindowStart(mark) \in Nat
    BY <1>1, WindowStarts, WindowStartMonotone
  <1>3. Limit \in Nat /\ Window \in Nat
    BY LimiterAssumption
  <1>4. ASSUME NEW a \in Addresses
        PROVE  \/ budget'[a].start < WindowStart(now) /\ allowed'[a] = 0
               \/ Charged(a, n)'
    <2>1. budget[a].start \in Nat \cup {-1} /\ budget[a].count \in 0 .. Limit
      BY DEF AdminInv
    <2>2. budget[a].start <= WindowStart(now)
      <3>1. CASE budget[a].start < WindowStart(mark)
        BY <3>1, <2>1, <1>2
      <3>2. CASE \E k \in Nat : Charged(a, k)
        BY <3>2, <1>2, <1>3, TimesMonotone DEF Charged
      <3> QED
        BY <3>1, <3>2 DEF AdminInv
    <2>3. CASE budget[a].start = WindowStart(now)
      <3>1. Limit * (n - n) = 0
        BY <1>2, <1>3
      <3> QED
        BY <2>1, <2>3, <3>1, <1>1, <1>2 DEF Charged
    <2>4. CASE budget[a].start < WindowStart(now)
      BY <2>4, <1>1
    <2> QED
      BY <2>1, <2>2, <2>3, <2>4, <1>2
  <1>5. WindowStart(mark)' = WindowStart(now)
    BY <1>1 DEF WindowStart
  <1>6. n' = n
    BY <1>1
  <1> HIDE DEF n
  <1>7. /\ budget' \in [Addresses -> [start : Nat \cup {-1}, count : 0 .. Limit]]
        /\ allowed' \in [Addresses -> Nat]
    BY <1>1 DEF AdminInv
  <1>8. ASSUME NEW a \in Addresses
        PROVE  \/ budget'[a].start < WindowStart(mark)' /\ allowed'[a] = 0
               \/ \E k \in Nat : Charged(a, k)'
    BY <1>1, <1>2, <1>4, <1>5, <1>6
  <1> QED
    BY <1>7, <1>8 DEF AdminInv, Charged

LEMMA NextAdmin == RateTypeOK /\ AdminInv /\ [Next]_vars => AdminInv'
  <1> SUFFICES ASSUME RateTypeOK, AdminInv, [Next]_vars
               PROVE  AdminInv'
    OBVIOUS
  <1> USE DEF AdminInv, Charged, WindowStart, adminVars
  <1>1. CASE \E b \in Backends : Consume(b)
    BY <1>1 DEF Consume
  <1>2. CASE \E healthy \in SUBSET Backends : Update(healthy)
    BY <1>2 DEF Update
  <1>3. CASE UNCHANGED vars
    BY <1>3 DEF vars
  <1> QED
    BY <1>1, <1>2, <1>3, AllowAdmin, TickAdmin, RestartAdmin DEF Next

\* The account of every operator's address balances in every reachable state.
THEOREM AdminInvariant == Spec => []AdminInv
  BY InitAdmin, NextAdmin, RateTypeInvariant, PTL DEF Spec

\* The account bounds what an address was let through.
LEMMA AdminAccountBounds == RateTypeOK /\ AdminInv => AdminBounded
  <1> SUFFICES ASSUME RateTypeOK, AdminInv, NEW a \in Addresses
               PROVE  allowed[a] <= Limit * ((now \div Window) - (mark \div Window) + 1)
    BY DEF AdminBounded
  <1> DEFINE n == now \div Window
             m == mark \div Window
  <1>1. n \in Nat /\ m \in Nat /\ m <= n /\ n - m + 1 \in Nat
    BY WindowStarts, WindowStartMonotone DEF RateTypeOK
  <1>2. Limit \in Nat /\ allowed[a] \in Nat /\ budget[a].count \in 0 .. Limit
    BY LimiterAssumption DEF AdminInv
  <1>3. CASE allowed[a] = 0
    <2> HIDE DEF n, m
    <2>1. Limit * (n - m + 1) \in Nat
      BY <1>1, <1>2
    <2> QED
      BY <2>1, <1>3 DEF n, m
  <1>4. CASE \E k \in Nat : Charged(a, k)
    <2>1. PICK k \in Nat : /\ m <= k /\ k <= n
                           /\ allowed[a] <= Limit * (k - m) + budget[a].count
      BY <1>4 DEF Charged
    <2> HIDE DEF n, m
    <2>2. k - m \in Nat /\ (k - m) + 1 \in Nat /\ (k - m) + 1 <= n - m + 1
      BY <1>1, <2>1
    <2>3. Limit * ((k - m) + 1) <= Limit * (n - m + 1)
      BY <1>1, <1>2, <2>2, TimesMonotone
    <2>4. Limit * ((k - m) + 1) = Limit * (k - m) + Limit
      BY <1>2, <2>2
    <2>5. Limit * (k - m) \in Nat /\ Limit * (n - m + 1) \in Nat
      BY <1>1, <1>2, <2>2
    <2>6. allowed[a] <= Limit * (n - m + 1)
      BY <1>2, <2>1, <2>3, <2>4, <2>5
    <2> QED
      BY <2>6 DEF n, m
  <1> QED
    BY <1>3, <1>4 DEF AdminInv

\* Whenever he starts and however he places his calls, an address gets its
\* budget once for every window the span touches and never more.
THEOREM AdminTheorem == Spec => []AdminBounded
  BY AdminAccountBounds, RateTypeInvariant, AdminInvariant, PTL
=============================================================================
