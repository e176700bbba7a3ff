-------------------------------- MODULE Sweep --------------------------------
(***************************************************************************)
(* The watchlist sweep of one scalp process (cli/scalp.ts) and the ladder  *)
(* portfolio it keeps (paper-trading/ladder-portfolio.ts, repository.ts).  *)
(*                                                                         *)
(* A sweep evaluates the entries of the watchlist, Width at a time, and    *)
(* each of them counts one iteration off; the ladder entries are members   *)
(* of one account: every one reports its capital after its iteration, to   *)
(* the process's own map and to its member row, the sweep ends by adding   *)
(* the rows up, and from time to time the next one starts by re-deriving   *)
(* the members' shares from the map.  What an iteration does to its symbol *)
(* is the matter of Ladder and Grid; here it changes the capital, fails or *)
(* ends the process.  Unrealized profits are left out.                     *)
(***************************************************************************)
EXTENDS Integers, FiniteSets, FiniteSetsExt

CONSTANTS
    Entries,    \* 1..n, the watchlist in its order
    Kind,       \* [Entries -> {"ladder", "grid"}]
    Cohort,     \* entries of the readiness cohort
    Weight,     \* [ladder entries -> allocatedWeight]
    Share,      \* capital allocated for one unit of weight
    MaxCapital, \* bound: a member's capital
    Width,      \* concurrency of the sweep (16 in the code)
    Iterations, \* bound: --iterations
    MaxFaults   \* bound: failed iterations and saves, deaths

ASSUME EntriesAssumption == IsFiniteSet(Entries) /\ Entries \subseteq Nat
ASSUME WidthAssumption == Width \in Nat \ {0}
ASSUME BoundsAssumption ==
    Iterations \in Nat /\ MaxFaults \in Nat /\ MaxCapital \in Nat

Members == {e \in Entries : Kind[e] = "ladder"}

\* A weight that is missing or not positive counts as one.
ASSUME WeightAssumption == Weight \in [Members -> Nat \ {0}] /\ Share \in Nat

Unknown == -1
Total(f) == MapThenSumSet(LAMBDA m : IF f[m] = Unknown THEN 0 ELSE f[m], Members)

VARIABLES
    limit,      \* --iterations; 0 runs for ever
    explicit,   \* the watchlist was named: it owns its cohort symbols
    pc,         \* where the loop is
    at,         \* [Entries -> where the entry is in this sweep]
    remaining,  \* iterations left
    live,       \* ladderLiveCapital: [Members -> reported capital or Unknown]
    plan,       \* ladderRebalancePlan: [Members -> positionPct or Unknown]
    result,     \* [Members -> capital of the iteration that is being reported]
    cash,       \* persisted: capital of the ladder's own row, or Unknown
    member,     \* persisted: capital of the member row, or Unknown
    summary,    \* persisted: capital of the portfolio, or Unknown
    worked,     \* iterations begun since the process started (saturates)
    clean,      \* every entry of this sweep that the cohort does not exclude was
                \* evaluated, and none failed
    faults

memory == <<live, plan, result>>
stored == <<cash, member, summary>>
options == <<limit, explicit>>
vars == <<limit, explicit, pc, at, remaining, live, plan, result, cash, member, summary,
          worked, clean, faults>>

Capitals == 0..MaxCapital
None == [m \in Members |-> Unknown]
Todo == [e \in Entries |-> "todo"]

TypeOK ==
    /\ limit \in 0..Iterations /\ explicit \in BOOLEAN
    /\ pc \in {"down", "plan", "sweep", "summary", "sleep", "ended"}
    /\ at \in [Entries -> {"todo", "work", "save", "count", "done"}]
    /\ remaining \in 0..Iterations
    /\ live \in [Members -> Capitals \cup {Unknown}]
    /\ plan \in [Members -> 0..100 \cup {Unknown}]
    /\ result \in [Members -> Capitals \cup {Unknown}]
    /\ cash \in [Members -> Capitals \cup {Unknown}]
    /\ member \in [Members -> Capitals \cup {Unknown}]
    /\ summary \in Nat \cup {Unknown}
    /\ worked \in Nat /\ clean \in BOOLEAN /\ faults \in 0..MaxFaults

Init ==
    /\ limit \in 0..Iterations /\ explicit \in BOOLEAN
    /\ pc = "down" /\ at = Todo /\ remaining = limit
    /\ live = None /\ plan = None /\ result = None
    /\ cash = None /\ member = None /\ summary = Unknown
    /\ worked = 0 /\ clean = TRUE /\ faults = 0

-----------------------------------------------------------------------------
Fault == faults < MaxFaults /\ faults' = faults + 1
NoFault == UNCHANGED faults
Bounded == limit # 0

\* The process ends, its siblings interrupted where they are.
Abort ==
    /\ pc' = "down" /\ at' = Todo /\ remaining' = limit
    /\ live' = None /\ plan' = None /\ result' = None
    /\ worked' = 0 /\ clean' = TRUE

Start ==
    /\ pc = "down" /\ pc' = "plan"
    /\ UNCHANGED <<options, at, remaining, memory, stored, worked, clean, faults>>

-----------------------------------------------------------------------------
(* ladderRefreshRebalancePlan, when the interval has passed.               *)

\* planLadderPortfolioRebalance: the target is the member's share, by weight,
\* of all the capital; the cap is the target in percent of its own capital.
PositionPct(m) ==
    LET part == (100 * Total(live) * Weight[m]) \div Total(Weight)
    IN IF live[m] > 0 THEN Min({100, part \div live[m]}) ELSE 100

Covered == \A m \in Members : live[m] # Unknown

Refresh ==
    /\ pc = "plan" /\ pc' = "sweep"
    /\ \/ UNCHANGED plan
       \/ /\ Covered /\ Total(live) > 0
          /\ plan' = [m \in Members |-> PositionPct(m)]
    /\ at' = Todo /\ clean' = TRUE
    /\ UNCHANGED <<options, remaining, live, result, stored, worked, faults>>

-----------------------------------------------------------------------------
(* runWatchlistEntry: forEach starts the entries in their order.           *)

Running == {e \in Entries : at[e] \in {"work", "save", "count"}}
Turn(e) ==
    /\ pc = "sweep" /\ at[e] = "todo"
    /\ Cardinality(Running) < Width
    /\ \A d \in Entries : d < e => at[d] # "todo"

Skipped(e) == e \in Cohort /\ ~explicit
BeginWork(e) ==
    /\ at' = [at EXCEPT ![e] = "work"]
    /\ worked' = IF Bounded /\ worked < limit + Width THEN worked + 1 ELSE worked
    /\ UNCHANGED clean

\* Mutant: the iterations left are not asked for.
BeginAlways(e) ==
    /\ Turn(e)
    /\ IF Skipped(e)
       THEN at' = [at EXCEPT ![e] = "done"] /\ UNCHANGED <<worked, clean>>
       ELSE BeginWork(e)
    /\ UNCHANGED <<options, pc, remaining, memory, stored, faults>>

\* Symbols of the readiness cohort are skipped, and so is everything once the
\* iterations are used up.
Begin(e) ==
    /\ Turn(e)
    /\ \/ /\ Skipped(e)
          /\ at' = [at EXCEPT ![e] = "done"] /\ UNCHANGED <<worked, clean>>
       \/ /\ ~Skipped(e) /\ Bounded /\ remaining = 0
          /\ at' = [at EXCEPT ![e] = "done"] /\ clean' = FALSE /\ UNCHANGED worked
       \/ /\ ~Skipped(e) /\ ~(Bounded /\ remaining = 0)
          /\ BeginWork(e)
    /\ UNCHANGED <<options, pc, remaining, memory, stored, faults>>

\* A grid error that is not a network error fails the sweep.
GridIteration(e) ==
    /\ pc = "sweep" /\ at[e] = "work" /\ Kind[e] = "grid"
    /\ \/ /\ at' = [at EXCEPT ![e] = "count"] /\ NoFault
          /\ UNCHANGED <<options, pc, remaining, memory, worked, clean>>
       \/ Abort /\ Fault
    /\ UNCHANGED <<options, stored>>

\* runLadderIteration: the iteration saves its capital; any error at all is
\* turned into a hold with the capital of the row, fresh if it was just saved,
\* or 0 without a row.
LadderIteration(m) ==
    /\ pc = "sweep" /\ at[m] = "work" /\ m \in Members
    /\ at' = [at EXCEPT ![m] = "save"]
    /\ \/ \E change \in {-1, 0, 1} :
             LET new == (IF cash[m] = Unknown THEN Share * Weight[m] ELSE cash[m]) + change
             IN /\ new \in Capitals
                /\ cash' = [cash EXCEPT ![m] = new]
                /\ result' = [result EXCEPT ![m] = new]
                /\ NoFault /\ UNCHANGED clean
       \/ /\ result' = [result EXCEPT ![m] = IF cash[m] = Unknown THEN 0 ELSE cash[m]]
          /\ clean' = FALSE /\ Fault /\ UNCHANGED cash
       \/ /\ cash[m] = Unknown /\ Share * Weight[m] \in Capitals
          /\ cash' = [cash EXCEPT ![m] = Share * Weight[m]]
          /\ result' = [result EXCEPT ![m] = Share * Weight[m]]
          /\ clean' = FALSE /\ Fault
       \/ /\ result' = [result EXCEPT ![m] = 0]     \* the row cannot be read
          /\ clean' = FALSE /\ Fault /\ UNCHANGED cash
    /\ UNCHANGED <<options, pc, remaining, live, plan, member, summary, worked>>

\* Mutant: the row keeps the capital of the first report.
SaveMemberOnce(m) ==
    /\ pc = "sweep" /\ at[m] = "save"
    /\ live' = [live EXCEPT ![m] = result[m]]
    /\ member' = [member EXCEPT ![m] = IF member[m] = Unknown THEN result[m] ELSE @]
    /\ result' = [result EXCEPT ![m] = Unknown]
    /\ at' = [at EXCEPT ![m] = "count"]
    /\ UNCHANGED <<options, pc, remaining, plan, cash, summary, worked, clean, faults>>

\* saveLadderMember: the map, then the row; a failure fails the sweep.
SaveMember(m) ==
    /\ pc = "sweep" /\ at[m] = "save"
    /\ \/ /\ live' = [live EXCEPT ![m] = result[m]]
          /\ member' = [member EXCEPT ![m] = result[m]]
          /\ result' = [result EXCEPT ![m] = Unknown]
          /\ at' = [at EXCEPT ![m] = "count"] /\ NoFault
          /\ UNCHANGED <<options, pc, remaining, plan, worked, clean>>
       \/ Abort /\ Fault /\ UNCHANGED member
    /\ UNCHANGED <<options, cash, summary>>

\* Mutant: only the last iteration is counted off.
CountLast(e) ==
    /\ pc = "sweep" /\ at[e] = "count"
    /\ at' = [at EXCEPT ![e] = "done"]
    /\ remaining' = IF remaining = 1 THEN 0 ELSE remaining
    /\ UNCHANGED <<options, pc, memory, stored, worked, clean, faults>>

Count(e) ==
    /\ pc = "sweep" /\ at[e] = "count"
    /\ at' = [at EXCEPT ![e] = "done"]
    /\ remaining' = IF remaining > 0 /\ Bounded THEN remaining - 1 ELSE remaining
    /\ UNCHANGED <<options, pc, memory, stored, worked, clean, faults>>

\* saveLadderPortfolioSummary adds the member rows up.
Summarize ==
    /\ pc = "sweep" /\ \A e \in Entries : at[e] = "done"
    /\ \/ /\ pc' = "sleep" /\ NoFault
          /\ summary' = Total(member)
          /\ UNCHANGED <<options, at, remaining, memory, worked, clean>>
       \/ Abort /\ Fault /\ UNCHANGED summary
    /\ UNCHANGED <<options, cash, member>>

Sleep ==
    /\ pc = "sleep"
    /\ pc' = IF Bounded /\ remaining = 0 THEN "ended" ELSE "plan"
    /\ UNCHANGED <<options, at, remaining, memory, stored, worked, clean, faults>>

Crash ==
    /\ pc \notin {"down", "ended"} /\ Fault /\ Abort
    /\ UNCHANGED <<options, stored>>

-----------------------------------------------------------------------------
Entry(e) ==
    \/ Begin(e) \/ GridIteration(e) \/ LadderIteration(e)
    \/ SaveMember(e) \/ Count(e)

Loop == Start \/ Refresh \/ (\E e \in Entries : Entry(e)) \/ Summarize \/ Sleep

Next == Loop \/ Crash

Spec == Init /\ [][Next]_vars

\* The process is restarted and every iteration ends; failures are finitely
\* many (MaxFaults).
FairSpec == Spec /\ WF_vars(Loop)

-----------------------------------------------------------------------------
(* Properties.                                                             *)

\* The iterations left are tested before an entry's work and counted after
\* it: the overrun is what runs at the same time, less one.
OverrunBounded == Bounded => worked < limit + Width

\* A sweep that evaluated every entry it does not skip for the cohort leaves a
\* portfolio that adds up to the members' own capital, whatever an earlier
\* death or failure left behind.  A skipped member has no row to add: every
\* start has the same options.
CleanSweepAddsUp ==
    (pc = "sleep" /\ clean) => summary = Total(cash)

\* "... or a member that errored all cycle ... so the plan no-ops": shares are
\* only re-derived from capital that every member really has.
PlanUsesRealCapital ==
    [][plan' # plan /\ plan' # None => live = cash]_vars

\* A bounded run ends.
BoundedRunEnds == Bounded => <>(pc = "ended")
=============================================================================
