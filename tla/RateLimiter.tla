----------------------------- MODULE RateLimiter -----------------------------
(***************************************************************************)
(* The token bucket in front of an exchange's REST interface               *)
(* (services/rate-limiter.ts): every request takes its cost from two       *)
(* buckets, or sleeps for as long as the emptier one needs and tries       *)
(* again.  Both shipped configurations fill the two buckets at the same    *)
(* rate (10 a second, 600 a minute), so one tick is the time of one token. *)
(* Callers are fibers: any of them may try first, and the bucket reads the *)
(* wall clock, which may be set in between.                                *)
(***************************************************************************)
EXTENDS Integers, FiniteSetsExt

CONSTANTS
    Callers,
    PerSecond, PerMinute,   \* the capacities
    MaxAsks,                \* bound: requests of each caller
    MaxSets                 \* bound: times the clock is set, by one tick

VARIABLES
    second, minute, \* tokens when the buckets were last updated
    elapsed,        \* now - lastUpdated, of both
    need,           \* [Callers -> cost of the request that waits, or 0]
    nap,            \* [Callers -> ticks it still sleeps]
    asks,           \* [Callers -> requests so far]
    passed,         \* tokens taken in each of the last ticks, this one first
    ahead,          \* ticks the clock has been set forward
    sets

vars == <<second, minute, elapsed, need, nap, asks, passed, ahead, sets>>

Longest == PerMinute + MaxSets

TypeOK ==
    /\ second \in (-MaxSets)..PerSecond /\ minute \in (-MaxSets)..PerMinute
    /\ elapsed \in (-MaxSets)..Longest
    /\ need \in [Callers -> 0..PerSecond]
    /\ nap \in [Callers -> 0..(PerMinute + MaxSets)]
    /\ asks \in [Callers -> 0..MaxAsks]
    /\ passed \in [1..PerMinute -> Nat]
    /\ ahead \in 0..MaxSets /\ sets \in 0..MaxSets

Init ==
    /\ second = PerSecond /\ minute = PerMinute /\ elapsed = 0
    /\ need = [c \in Callers |-> 0] /\ nap = need /\ asks = need
    /\ passed = [i \in 1..PerMinute |-> 0]
    /\ ahead = 0 /\ sets = 0

-----------------------------------------------------------------------------
\* Mutant: a cost above the capacity is not reduced to it.
AskUnbounded(c) ==
    /\ need[c] = 0 /\ asks[c] < MaxAsks
    /\ \E n \in 1..(PerSecond + 1) : need' = [need EXCEPT ![c] = n]
    /\ asks' = [asks EXCEPT ![c] = @ + 1]
    /\ UNCHANGED <<second, minute, elapsed, nap, passed, ahead, sets>>

\* acquire(n): the cost is at most what the buckets can hold.
Ask(c) ==
    /\ need[c] = 0 /\ asks[c] < MaxAsks
    /\ \E n \in 1..(PerSecond + 1) :
          need' = [need EXCEPT ![c] = Min({n, PerSecond, PerMinute})]
    /\ asks' = [asks EXCEPT ![c] = @ + 1]
    /\ UNCHANGED <<second, minute, elapsed, nap, passed, ahead, sets>>

\* Mutant: a bucket fills past its capacity.
RefillUncapped(tokens, capacity) == tokens + elapsed

Refill(tokens, capacity) == Min({capacity, tokens + elapsed})

\* Ref.modify: refill both, then take from both or from neither.
Try(c) ==
    /\ need[c] > 0 /\ nap[c] = 0
    /\ LET s == Refill(second, PerSecond)
           m == Refill(minute, PerMinute)
           n == need[c]
       IN \/ /\ s >= n /\ m >= n
             /\ second' = s - n /\ minute' = m - n
             /\ passed' = [passed EXCEPT ![1] = @ + n]
             /\ need' = [need EXCEPT ![c] = 0]
             /\ UNCHANGED nap
          \/ /\ s < n \/ m < n
             /\ second' = s /\ minute' = m
             /\ nap' = [nap EXCEPT ![c] = Max({n - s, n - m, 1})]
             /\ UNCHANGED <<passed, need>>
    /\ elapsed' = 0
    /\ UNCHANGED <<asks, ahead, sets>>

\* Sleeping does not look at the wall clock.
Tick ==
    /\ elapsed' = Min({elapsed + 1, Longest})
    /\ nap' = [c \in Callers |-> Max({nap[c] - 1, 0})]
    /\ passed' = [i \in 1..PerMinute |-> IF i = 1 THEN 0 ELSE passed[i - 1]]
    /\ UNCHANGED <<second, minute, need, asks, ahead, sets>>

SetClock ==
    /\ sets < MaxSets /\ sets' = sets + 1
    /\ \/ elapsed' = elapsed - 1 /\ UNCHANGED ahead
       \/ elapsed' = Min({elapsed + 1, Longest}) /\ ahead' = ahead + 1
    /\ UNCHANGED <<second, minute, need, nap, asks, passed>>

Next == (\E c \in Callers : Ask(c) \/ Try(c)) \/ Tick \/ SetClock

Spec == Init /\ [][Next]_vars

\* Time passes and an awake fiber runs.  Nobody has to ask.
FairSpec == Spec /\ WF_vars(Tick) /\ \A c \in Callers : WF_vars(Try(c))

-----------------------------------------------------------------------------
(* Properties.                                                             *)

\* The tokens taken in the last k ticks.
Sent[k \in 0..PerMinute] == IF k = 0 THEN 0 ELSE Sent[k - 1] + passed[k]

\* In any k ticks no more goes out than the small bucket holds and k - 1
\* ticks refill, however many fibers wake up together; a clock that was set
\* forward adds what it was set by.  A second (k = PerSecond) can therefore
\* see nearly twice its limit, and a minute its limit and one second's.
BurstBounded == \A k \in 1..PerMinute : Sent[k] <= PerSecond + k - 1 + ahead

\* Without a queue, every request is still served once the others are.
EveryRequestIsServed == \A c \in Callers : need[c] > 0 ~> need[c] = 0
=============================================================================
