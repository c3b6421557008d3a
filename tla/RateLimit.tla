----------------------------- MODULE RateLimit -----------------------------
(***************************************************************************)
(* The limits the Python proxy puts on its callers (demo/proxy.py): a      *)
(* token bucket per backend, whose rate DQNRateLimitAdjuster changes from  *)
(* the control loop, and a fixed-window budget per operator address.       *)
(*                                                                         *)
(* Time is counted in ticks, Q of them to the second. A token is Q units,  *)
(* so a rate of r tokens per second is r units per tick and a full bucket  *)
(* holds r * Q units.                                                      *)
(***************************************************************************)
EXTENDS Integers

CONSTANTS
    Backends,    \* the proxy's backends
    Addresses,   \* the addresses operator requests come from
    Allowlist,   \* the ones the allowlist names; an empty list admits all
    Q,           \* ticks in a second
    InitRps,     \* rate_limiting.initial_rps, the first rate of a bucket
    FirstLimit,  \* what MetricsStore.rate_limits starts with
    MinRps,      \* rate_limiting.min_rps
    MaxRps,      \* rate_limiting.max_rps
    Floor,       \* the least rate set_rate accepts
    Limit,       \* _AdminRateLimiter.limit
    Window,      \* ticks in a window of the limiter
    MaxTime      \* bound: ticks a run lasts

ASSUME RateAssumption ==
    /\ Q \in Nat \ {0}
    /\ {InitRps, FirstLimit, MinRps, MaxRps, Floor} \subseteq Nat \ {0}
    /\ MinRps <= MaxRps
ASSUME LimiterAssumption == Limit \in Nat \ {0} /\ Window \in Nat \ {0}
ASSUME TimeAssumption == MaxTime \in Nat

VARIABLES
    now,         \* the clocks; time.monotonic and time.time advance together
    rate,        \* TokenBucket._rate
    tokens,      \* TokenBucket._tokens
    last,        \* TokenBucket._last
    limits,      \* MetricsStore.rate_limits
    budget,      \* _AdminRateLimiter._state: per address, window and count
    mark,        \* history: the moment an observer starts to count
    admitted,    \* history: requests each bucket let through since then
    allowed      \* history: calls the limiter let through since then

vars == <<now, rate, tokens, last, limits, budget, mark, admitted, allowed>>
bucketVars == <<rate, tokens, last, limits, admitted>>
adminVars == <<budget, allowed>>

AtLeast(lo, x) == IF x < lo THEN lo ELSE x
AtMost(hi, x) == IF x > hi THEN hi ELSE x

\* The greatest rate a bucket can ever have.
Peak == AtLeast(InitRps, AtLeast(MaxRps, Floor))

Init ==
    /\ now = 0
    /\ rate = [b \in Backends |-> InitRps]
    /\ tokens = [b \in Backends |-> InitRps * Q]
    /\ last = [b \in Backends |-> 0]
    /\ limits = [b \in Backends |-> FirstLimit]
    /\ budget = [a \in Addresses |-> [start |-> -1, count |-> 0]]
    /\ mark = 0
    /\ admitted = [b \in Backends |-> 0]
    /\ allowed = [a \in Addresses |-> 0]

-----------------------------------------------------------------------------
(***************************************************************************)
(* Token buckets.                                                          *)
(***************************************************************************)

\* What consume finds: the time since the last call is credited at the rate
\* of now, whatever the rate was meanwhile.
Refilled(b) == AtMost(rate[b] * Q, tokens[b] + rate[b] * (now - last[b]))

\* Mutant: a call that gets a token does not advance the clock of the bucket.
ConsumeUnstamped(b) ==
    /\ IF Refilled(b) >= Q
       THEN /\ tokens' = [tokens EXCEPT ![b] = Refilled(b) - Q]
            /\ admitted' = [admitted EXCEPT ![b] = @ + 1]
            /\ UNCHANGED last
       ELSE /\ tokens' = [tokens EXCEPT ![b] = Refilled(b)]
            /\ last' = [last EXCEPT ![b] = now]
            /\ UNCHANGED admitted
    /\ UNCHANGED <<now, rate, limits, mark, adminVars>>

Consume(b) ==
    /\ last' = [last EXCEPT ![b] = now]
    /\ IF Refilled(b) >= Q
       THEN /\ tokens' = [tokens EXCEPT ![b] = Refilled(b) - Q]
            /\ admitted' = [admitted EXCEPT ![b] = @ + 1]
       ELSE /\ tokens' = [tokens EXCEPT ![b] = Refilled(b)]
            /\ UNCHANGED admitted
    /\ UNCHANGED <<now, rate, limits, mark, adminVars>>

\* The new limit: 90, 100 or 110 per cent of the old one, clipped.
Adjusted(limit, factor) ==
    AtMost(MaxRps, AtLeast(MinRps, (limit * factor) \div 10))

\* set_rate keeps a floor of its own.
SetRate(limit) == AtLeast(Floor, limit)

\* DQNRateLimitAdjuster.update, in one turn of the event loop. Exploration
\* never ends (epsilon stays above 0), so any action is possible at any load.
\* An unhealthy backend keeps its limit.
Update(healthy) ==
    \E action \in [healthy -> {9, 10, 11}] :
        /\ limits' = [b \in Backends |->
                        IF b \in healthy THEN Adjusted(limits[b], action[b])
                        ELSE limits[b]]
        /\ rate' = [b \in Backends |->
                      IF b \in healthy THEN SetRate(limits'[b]) ELSE rate[b]]
        /\ UNCHANGED <<now, tokens, last, mark, admitted, adminVars>>

-----------------------------------------------------------------------------
(***************************************************************************)
(* The operators' budget.                                                  *)
(***************************************************************************)

\* _is_ip_allowed.
IsIpAllowed(a) == Allowlist = {} \/ a \in Allowlist

WindowStart(t) == t - (t % Window)

\* Mutant: an operator's new window does not replace the old one.
AllowKept(a) ==
    LET fresh == budget[a].start # WindowStart(now)
    IN  /\ IsIpAllowed(a)
        /\ IF fresh \/ budget[a].count < Limit
           THEN /\ budget' = [budget EXCEPT ![a].count = IF fresh THEN 1 ELSE @ + 1]
                /\ allowed' = [allowed EXCEPT ![a] = @ + 1]
           ELSE UNCHANGED adminVars
        /\ UNCHANGED <<now, mark, bucketVars>>

\* _AdminRateLimiter.allow. An address off the allowlist does not get here; one
\* that does is charged before the admin token is checked.
Allow(a) ==
    LET fresh == budget[a].start # WindowStart(now)
    IN  /\ IsIpAllowed(a)
        /\ IF fresh \/ budget[a].count < Limit
           THEN /\ budget' = [budget EXCEPT ![a] =
                     [start |-> WindowStart(now),
                      count |-> IF fresh THEN 1 ELSE @.count + 1]]
                /\ allowed' = [allowed EXCEPT ![a] = @ + 1]
           ELSE UNCHANGED adminVars
        /\ UNCHANGED <<now, mark, bucketVars>>

-----------------------------------------------------------------------------
Tick ==
    /\ now < MaxTime
    /\ now' = now + 1
    /\ UNCHANGED <<mark, bucketVars, adminVars>>

\* The observer starts again.
Mark ==
    /\ mark' = now
    /\ admitted' = [b \in Backends |-> 0]
    /\ allowed' = [a \in Addresses |-> 0]
    /\ UNCHANGED <<now, rate, tokens, last, limits, budget>>

Next ==
    \/ \E b \in Backends : Consume(b)
    \/ \E healthy \in SUBSET Backends : Update(healthy)
    \/ \E a \in Addresses : Allow(a)
    \/ Tick
    \/ Mark

Spec == Init /\ [][Next]_vars

-----------------------------------------------------------------------------
\* A bucket never holds less than nothing or more than a second of its
\* greatest rate. Limit and rate of a backend are the ones it began with, which
\* nobody compares; or DQNRateLimitAdjuster has been there: then the limit is in
\* the configured range and the bucket runs at it, up to the floor of set_rate.
RateTypeOK ==
    /\ now \in Nat
    /\ mark \in 0 .. now
    /\ rate \in [Backends -> Nat]
    /\ tokens \in [Backends -> Nat]
    /\ last \in [Backends -> 0 .. now]
    /\ limits \in [Backends -> Nat]
    /\ \A b \in Backends :
          \/ limits[b] = FirstLimit /\ rate[b] = InitRps
          \/ limits[b] \in MinRps .. MaxRps /\ rate[b] = SetRate(limits[b])
    /\ admitted \in [Backends -> Nat]
    /\ \A b \in Backends :
          /\ rate[b] \in 1 .. Peak
          /\ tokens[b] <= Peak * Q

\* However the rate is changed, and however late a change is credited for the
\* time before it, between any two moments a bucket admits at most one burst
\* and the refill of that time, both at the greatest rate.
AdmissionBounded ==
    \A b \in Backends : admitted[b] * Q <= Peak * Q + Peak * (now - mark)

\* An address gets its budget once for every window the span touches: twice
\* the limit across a boundary, and never more.
AdminBounded ==
    \A a \in Addresses :
        allowed[a] <= Limit * ((now \div Window) - (mark \div Window) + 1)
=============================================================================
