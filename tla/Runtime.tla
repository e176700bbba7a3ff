-------------------------------- MODULE Runtime --------------------------------
(***************************************************************************)
(* Three parts that share no state, beside each other: the sweep of a      *)
(* watchlist (Sweep), the limiter of an exchange client (RateLimiter) and  *)
(* the workers of the knob search (Research).  A behaviour chooses at its  *)
(* start which one of them it explores; the other two stay as they begin.  *)
(***************************************************************************)
EXTENDS Sweep

CONSTANTS
    Callers, PerSecond, PerMinute, MaxAsks, MaxSets,    \* of the limiter
    Workers, Goal, MaxMishaps                           \* of the search

ASSUME LimiterAssumption ==
    /\ PerSecond \in Nat \ {0} /\ PerMinute \in Nat \ {0}
    /\ MaxAsks \in Nat /\ MaxSets \in Nat

ASSUME SearchAssumption ==
    Workers \subseteq Nat \ {0} /\ Goal \in Nat \ {0} /\ MaxMishaps \in Nat

VARIABLES part, second, minute, elapsed, need, nap, asks, passed, ahead, sets

Limiter == INSTANCE RateLimiter

VARIABLES lock, champion, claim, worker, best, spoiled, mishaps

Search == INSTANCE Research

limiterVars == <<second, minute, elapsed, need, nap, asks, passed, ahead, sets>>
searchVars == <<lock, champion, claim, worker, best, spoiled, mishaps>>
RuntimeVars == <<part, vars, limiterVars, searchVars>>

\* The parts a behaviour does not explore stay where a fresh one starts.
RuntimeInit ==
    /\ Init /\ Limiter!Init /\ Search!Init
    /\ part \in {"sweep", "limiter", "search"}
    /\ part # "sweep" => limit = 0 /\ explicit
    /\ part # "search" => champion = Search!Fresh

RuntimeNext ==
    /\ UNCHANGED part
    /\ \/ part = "sweep" /\ Next /\ UNCHANGED <<limiterVars, searchVars>>
       \/ part = "limiter" /\ Limiter!Next /\ UNCHANGED <<vars, searchVars>>
       \/ part = "search" /\ Search!Next /\ UNCHANGED <<vars, limiterVars>>

RuntimeSpec ==
    /\ RuntimeInit /\ [][RuntimeNext]_RuntimeVars
    /\ WF_vars(part = "sweep" /\ Loop)
    /\ WF_limiterVars(part = "limiter" /\ Limiter!Tick)
    /\ \A c \in Callers : WF_limiterVars(part = "limiter" /\ Limiter!Try(c))
    /\ WF_searchVars(part = "search" /\ Search!Age)
    /\ \A w \in Workers : WF_searchVars(part = "search" /\ Search!Move(w))

\* The types of the three parts.
RuntimeTypeOK == TypeOK /\ Limiter!TypeOK /\ Search!TypeOK

\* No burst of the limiter exceeds its small bucket and the refill.
BurstBounded == Limiter!BurstBounded

\* Every request that waits at the limiter is served.
EveryRequestIsServed == Limiter!EveryRequestIsServed

\* As long as no living worker loses its lock and no write is cut off, the
\* champion of the knob search only improves (loop.ts under lock.ts).
ChampionOnlyImproves == Search!ChampionOnlyImproves

\* Under the same condition a claim of the knob search is written once.
ClaimStands == Search!ClaimStands

\* The lock file of a search worker that is gone does not block the rest.
AbandonedLockEnds == Search!AbandonedLockEnds

\* A bounded sweep ends.
SweepEnds == part = "sweep" => BoundedRunEnds
=============================================================================
