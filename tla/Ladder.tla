-------------------------------- MODULE Ladder --------------------------------
(***************************************************************************)
(* One live symbol of the ladder (paper-trading/ladder-engine.ts): the     *)
(* persisted ledger of rungs, the bars it is advanced over, and the        *)
(* exchange position the bar's events are executed against.                *)
(*                                                                         *)
(* A bar is a fact: which levels it reached does not depend on how often   *)
(* it is read, so an iteration that dies is replayed on the same facts,    *)
(* but for the newest candle, which may still be forming.                  *)
(* Prices are left out.  The rungs of a side lie one step apart, so what   *)
(* a bar reaches is a depth: levels are touched and entries lose or expire *)
(* from the first rung on, targets are reached from the deepest one on.    *)
(* Every rung is one lot.                                                  *)
(***************************************************************************)
EXTENDS Integers, Sequences, FiniteSets

CONSTANTS
    N,           \* rungs of a side
    Pause,       \* gridPauseAfterLossBars
    Bars,        \* the bars the market may produce
    MaxBars,     \* bars of a window after the row's lastTimestamp
    Seen,        \* of them from the end, those whose trend is sure to be known
    MaxFaults,   \* bound: failures, crashes and unfilled orders
    MaxEdits,    \* bound: changes of the configuration
    MaxStops     \* bound: times trading is stopped

Sides == {"long", "short"}
Dir(s) == IF s = "long" THEN 1 ELSE -1
Least(a, b) == IF a < b THEN a ELSE b
Most(a, b) == IF a < b THEN b ELSE a

Mismatches == {"no", "hold", "force-reseed"}
Levels == 1..N
BarFacts == [gate : [Sides -> BOOLEAN],      \* seeding is allowed
             touch : [Sides -> 0..N],        \* the deepest level reached
             stop : [Sides -> BOOLEAN],      \* the stop boundary or liquidation
             kill : [Sides -> 0..N],         \* the last entry losing too much
             target : [Sides -> 1..(N + 1)], \* the first target reached
             expire : [Sides -> 0..N],       \* the last entry held too long
             loss : BOOLEAN]                 \* a close leaves the drawdown limit reached

ASSUME NAssumption == N \in Nat \ {0}
ASSUME PauseAssumption == Pause \in Nat
ASSUME BarsAssumption == Bars \subseteq BarFacts
ASSUME MaxBarsAssumption == MaxBars \in Nat \ {0}
ASSUME SeenAssumption == Seen \in Nat \ {0}
ASSUME BoundsAssumption == MaxFaults \in Nat /\ MaxEdits \in Nat /\ MaxStops \in Nat

VARIABLES
    row,       \* the persisted ledger
    bars,      \* bars after the row's lastTimestamp, as far as the window reaches
    edited,    \* the configuration differs from the row's: configMismatchAction
    halted,    \* the kill switch is engaged or the circuit breaker open
    pos,       \* net lots on the exchange, negative when short
    resting,   \* per side: entry lots still working on the exchange
    (***********************************************************************)
    (* The iteration.                                                      *)
    (***********************************************************************)
    pc,
    blocked,   \* agreementBlockedUntil lies ahead
    w,         \* the working state
    done,      \* bars advanced over
    fills, closes,   \* events of those bars per side
    placed, shut,    \* of them, executed
    (***********************************************************************)
    (* History and bounds.                                                 *)
    (***********************************************************************)
    late,      \* entries sent since trading was stopped (saturates)
    faults, edits, stops

ledger == <<row, bars, edited>>
exchange == <<pos, resting>>
iter == <<w, done, fills, closes, placed, shut>>
bounds == <<faults, edits>>
vars == <<row, bars, edited, halted, pos, resting, pc, blocked, w,
          done, fills, closes, placed, shut, late, faults, edits, stops>>

\* A side's rungs by their index: armed, or filled, with the index of the bar in
\* its window.  The window's length is constant and the index is not shifted with
\* it, so it is counted here from the window's end.
Armed == -1
Ages == 0..(MaxBars - 1)
Rungs == UNION {[S -> Ages \cup {Armed}] : S \in SUBSET Levels}
NoRungs == [r \in {} |-> Armed]
Open(x) == {r \in DOMAIN x : x[r] # Armed}
Count(x) == Cardinality(Open(x))
Ledgers == [side : [Sides -> Rungs], paused : 0..Pause, dd : BOOLEAN]
Fresh == [side |-> [s \in Sides |-> NoRungs], paused |-> 0, dd |-> FALSE]

Flat(l) == \A s \in Sides : Open(l.side[s]) = {}
Batch == N * MaxBars              \* entries an iteration sends for one side
Zero == [s \in Sides |-> 0]

TypeOK ==
    /\ row \in Ledgers /\ w \in Ledgers
    /\ bars \in Seq(Bars) /\ Len(bars) <= MaxBars
    /\ edited \in Mismatches /\ halted \in BOOLEAN /\ blocked \in BOOLEAN
    /\ pos \in Int /\ resting \in [Sides -> Nat]
    /\ pc \in {"idle", "reseed", "guard", "reconcile", "advance", "orders",
               "rollback", "tell", "save"}
    /\ done \in 0..Len(bars)
    /\ fills \in [Sides -> Nat] /\ closes \in [Sides -> Nat]
    /\ placed \in [Sides -> Nat] /\ shut \in [Sides -> Nat]
    /\ late \in 0..(2 * Batch + 1)
    /\ faults \in 0..MaxFaults /\ edits \in 0..MaxEdits /\ stops \in 0..MaxStops

Init ==
    /\ row = Fresh /\ bars = <<>> /\ edited = "no" /\ halted = FALSE
    /\ pos = 0 /\ resting = Zero
    /\ pc = "idle" /\ blocked = FALSE /\ w = Fresh /\ done = 0
    /\ fills = Zero /\ closes = Zero /\ placed = Zero /\ shut = Zero
    /\ late = 0 /\ faults = 0 /\ edits = 0 /\ stops = 0

-----------------------------------------------------------------------------
(* advanceLadderBar: one bar, in memory.                                   *)

\* seedLadderSide: a side without open rungs is armed afresh or cleared.
Seed(x, allowed) ==
    IF Open(x) # {} THEN x
    ELSE [r \in IF allowed THEN Levels ELSE {} |-> Armed]

\* fillLadderSide: the touched levels fill.
Fill(x, touch, age) ==
    [r \in DOMAIN x |-> IF x[r] = Armed /\ r <= touch THEN age ELSE x[r]]

\* Some open rungs close; of the others those in kept stay, if any is open.
Close(x, closed, kept) ==
    [rungs |-> [r \in IF Open(x) \subseteq closed THEN {} ELSE kept \ closed |-> x[r]],
     closed |-> Cardinality(closed)]

\* positionLossesBeyondLimit.
Killed(x, kill) == {r \in Open(x) : r <= kill}

\* closeLadderTargets: a target counts for the rungs whose stored index is
\* smaller than the bar's, maxHoldBars for those open before the bar.
Finished(x, older, target, expire, age) ==
    {r \in Open(x) : r >= target /\ x[r] > age} \cup {r \in older : r <= expire}

\* resolveLadderRiskExit and closeLadderTargets, in the order of the code: the
\* stop boundary or liquidation, the position's drawdown, which leaves no armed
\* rung, the account's, the targets.  x has been filled; older rungs were open
\* before the bar.
Exit(x, s, bar, older, dd, age) ==
    LET killed == Killed(x, bar.kill[s])
        finished == Finished(x, older, bar.target[s], bar.expire[s], age)
    IN  IF Open(x) = {} THEN [rungs |-> x, closed |-> 0]
        ELSE IF bar.stop[s] THEN Close(x, Open(x), {})
        ELSE IF killed # {} THEN Close(x, killed, Open(x))
        ELSE IF dd THEN Close(x, Open(x), {})
        ELSE Close(x, finished, DOMAIN x)

\* gridPauseAfterLossBars starts when a stop or a kill leaves nothing open.
Pauses(x, s, bar) ==
    Open(x) # {} /\ (bar.stop[s] \/ Open(x) \subseteq Killed(x, bar.kill[s]))

\* manageLadderSide for one side of a seeded ledger.
Manage(l, s, bar, age) ==
    LET x == l.side[s]
        y == Fill(x, bar.touch[s], age)
        e == Exit(y, s, bar, Open(x), l.dd, age)
    IN  [side |-> e.rungs, filled |-> Cardinality(Open(y) \ Open(x)), closed |-> e.closed,
         paused |-> IF Pauses(y, s, bar) THEN Pause ELSE l.paused,
         dd |-> IF e.closed > 0 THEN bar.loss ELSE l.dd]

\* Mutant: without the re-anchoring of the peak.
SeededWithoutReanchor(l, bar) ==
    [side |-> [s \in Sides |-> Seed(l.side[s], bar.gate[s] /\ ~l.dd)],
     paused |-> l.paused, dd |-> l.dd]

\* A flat ledger at its drawdown limit is re-anchored and pauses; then both
\* sides are seeded.
Seeded(l, bar) ==
    LET again == Flat(l) /\ l.dd
        dd == l.dd /\ ~again
    IN  [side |-> [s \in Sides |-> Seed(l.side[s], bar.gate[s] /\ ~dd)],
         paused |-> IF again THEN Most(l.paused, Pause) ELSE l.paused,
         dd |-> dd]

\* Long before short: the second side sees the first one's losses.
Then(l, m) == [side |-> l.side, paused |-> m.paused, dd |-> m.dd]
PerSide(x, y) == [s \in Sides |-> IF s = "long" THEN x ELSE y]

-----------------------------------------------------------------------------
(* The iteration.                                                          *)

Fault == faults < MaxFaults /\ faults' = faults + 1
NoFault == UNCHANGED faults
Local == UNCHANGED <<w, done, fills, closes, placed, shut>>
Outside == UNCHANGED <<bars, edited, halted, exchange, stops>>

\* The end of an iteration: its working state is gone.
Forget ==
    /\ pc' = "idle" /\ w' = Fresh /\ done' = 0
    /\ fills' = Zero /\ closes' = Zero /\ placed' = Zero /\ shut' = Zero

\* The row is saved with the lastTimestamp of the last bar.
Consume == bars' = <<>>

\* loadLadderState: a flat ledger of another configuration is replaced at once,
\* an open one only by force-reseed, which first records its closes; otherwise
\* it holds, every iteration anew.
Reload ==
    /\ pc = "idle" /\ edited # "no"
    /\ \/ Flat(row) /\ row' = Fresh /\ edited' = "no" /\ pc' = "idle"
       \/ /\ ~Flat(row) /\ edited = "force-reseed" /\ pc' = "reseed"
          /\ UNCHANGED <<row, edited>>
    /\ NoFault
    /\ UNCHANGED <<bars, halted, exchange, blocked, iter, late, edits, stops>>

\* The rungs are closed at the last price, on the ledger alone; without a usable
\* price they are dropped and the capital starts anew.
Reseed ==
    /\ pc = "reseed"
    /\ \E dd \in BOOLEAN : row' = [Fresh EXCEPT !.dd = dd]
    /\ edited' = "no" /\ pc' = "idle"
    /\ NoFault
    /\ UNCHANGED <<bars, halted, exchange, blocked, iter, late, edits, stops>>

\* The candles are fetched; without a new one the iteration holds.
Fetch ==
    /\ pc = "idle" /\ edited = "no" /\ bars # <<>>
    /\ pc' = "guard" /\ NoFault
    /\ UNCHANGED <<row, iter, blocked, late, edits>>
    /\ Outside

\* Mutant: the switch and the breaker are not asked.
GuardUnstopped ==
    /\ pc = "guard" /\ ~blocked
    /\ pc' = IF Flat(row) /\ pos # 0 THEN "reconcile" ELSE "advance"
    /\ w' = row /\ NoFault
    /\ UNCHANGED <<row, done, fills, closes, placed, shut, blocked, late, edits>>
    /\ Outside

\* Mutant: a flat ledger does not look at the exchange.
GuardUnreconciled ==
    /\ pc = "guard"
    /\ \/ (halted \/ blocked) /\ Forget
       \/ /\ ~halted /\ ~blocked /\ pc' = "advance" /\ w' = row
          /\ UNCHANGED <<done, fills, closes, placed, shut>>
    /\ NoFault
    /\ UNCHANGED <<row, blocked, late, edits>> /\ Outside

\* guardLadderIteration, asked once.  An unreadable position is let pass.
Guard ==
    /\ pc = "guard"
    /\ \/ /\ halted \/ blocked
          /\ Forget /\ NoFault
       \/ /\ ~halted /\ ~blocked
          /\ \/ /\ pc' = IF Flat(row) /\ pos # 0 THEN "reconcile" ELSE "advance"
                /\ NoFault
             \/ pc' = "advance" /\ Fault
          /\ w' = row
          /\ UNCHANGED <<done, fills, closes, placed, shut>>
    /\ UNCHANGED <<row, blocked, late, edits>> /\ Outside

\* A flat ledger closes whatever the exchange holds; the result is ignored.
Reconcile ==
    /\ pc = "reconcile" /\ pc' = "advance"
    /\ \/ pos' = 0 /\ NoFault
       \/ UNCHANGED pos /\ Fault
    /\ UNCHANGED <<ledger, halted, resting, blocked, iter, late, edits, stops>>

\* advanceLadderBar.  Without a trend (createLadderBarContext) the bar has no
\* effect; the moving average is missing at the start of the window only.
Advance ==
    /\ pc = "advance" /\ pc' = IF done + 1 = Len(bars) THEN "orders" ELSE "advance"
    /\ done' = done + 1
    /\ \/ /\ w.paused > 0
          /\ w' = [w EXCEPT !.paused = w.paused - 1] /\ UNCHANGED <<fills, closes>>
       \/ /\ w.paused = 0 /\ Len(bars) - (done + 1) >= Seen
          /\ UNCHANGED <<w, fills, closes>>
       \/ /\ w.paused = 0
          /\ LET bar == bars[done + 1]
                 age == Len(bars) - (done + 1)
             IN  \E l \in {Seeded(w, bar)} :
                 \E a \in {Manage(l, "long", bar, age)} :
                 \E b \in {Manage(Then(l, a), "short", bar, age)} :
                    /\ w' = [side |-> PerSide(a.side, b.side),
                             paused |-> b.paused, dd |-> b.dd]
                    /\ fills' = PerSide(fills["long"] + a.filled, fills["short"] + b.filled)
                    /\ closes' = PerSide(closes["long"] + a.closed, closes["short"] + b.closed)
    /\ NoFault
    /\ UNCHANGED <<row, placed, shut, blocked, late, edits>> /\ Outside

CountLate == late' = IF halted THEN Least(late + 1, 2 * Batch + 1) ELSE late
AllPlaced == placed = fills
AllShut == shut = closes

\* executeLadderFillLive.  An order that is not confirmed filled may have been
\* refused, may be filled all the same or may go on working; a refusal may name
\* the agreement, which blocks the symbol.  The order of the entries among
\* themselves is left out.
PlaceFill(s) ==
    /\ pc = "orders" /\ placed[s] < fills[s]
    /\ \/ /\ pos' = pos + Dir(s) /\ UNCHANGED <<resting, blocked, pc>>
          /\ placed' = [placed EXCEPT ![s] = placed[s] + 1]
          /\ CountLate /\ NoFault
       \/ /\ pc' = "rollback" /\ Fault /\ UNCHANGED placed
          /\ \/ UNCHANGED <<pos, resting, late>> /\ blocked' \in {blocked, TRUE}
             \/ pos' = pos + Dir(s) /\ CountLate /\ UNCHANGED <<resting, blocked>>
             \/ resting' = [resting EXCEPT ![s] = resting[s] + 1] /\ CountLate
                /\ UNCHANGED <<pos, blocked>>
    /\ UNCHANGED <<ledger, halted, w, done, fills, closes, shut, edits, stops>>

\* Mutant: a close is sent without asking what the exchange holds.
ShrunkBlindly(s) == pos - Dir(s)

Opposing(s) == Dir(s) * pos > 0
Shrunk(s) == IF Opposing(s) THEN pos - Dir(s) ELSE pos

\* executeLadderCloseLive, after all entries: closePosition sends at most what
\* the exchange holds on that side and succeeds without an order when that is
\* nothing; a close accepted but left unfilled succeeds as well.  A refused close
\* may name the agreement, too.
ShutClose(s) ==
    /\ pc = "orders" /\ AllPlaced /\ shut[s] < closes[s]
    /\ \/ /\ \/ pos' = Shrunk(s) /\ NoFault
             \/ UNCHANGED pos /\ Fault
          /\ shut' = [shut EXCEPT ![s] = shut[s] + 1] /\ UNCHANGED pc
          /\ UNCHANGED blocked
       \/ /\ pc' = "rollback" /\ Fault /\ UNCHANGED shut
          /\ \/ UNCHANGED pos /\ blocked' \in {blocked, TRUE}
             \/ pos' = Shrunk(s) /\ UNCHANGED blocked
    /\ UNCHANGED <<ledger, halted, resting, w, done, fills, closes,
                   placed, late, edits, stops>>

\* All orders are out: recordLadderTrades.
Record ==
    /\ pc = "orders" /\ AllPlaced /\ AllShut
    /\ pc' = IF closes = Zero THEN "save" ELSE "tell"
    /\ NoFault /\ Local
    /\ UNCHANGED <<row, blocked, late, edits>> /\ Outside

\* Mutant: the working state is saved although its orders failed.
RollbackKeepsWork ==
    /\ pc = "rollback" /\ row' = w /\ Forget /\ Consume /\ NoFault
    /\ UNCHANGED <<edited, halted, exchange, blocked, late, edits, stops>>

\* rollbackWorkingState: the row keeps its rungs and its lastTimestamp moves on.
Rollback ==
    /\ pc = "rollback" /\ Forget /\ Consume /\ NoFault
    /\ UNCHANGED <<row, edited, halted, exchange, blocked, late, edits, stops>>

Stop == halted' = TRUE /\ late' = IF halted THEN late ELSE 0

\* recordTradeResult: the breaker may open.
Tell ==
    /\ pc = "tell" /\ pc' = "save" /\ NoFault /\ Local
    /\ \/ UNCHANGED <<halted, late, stops>>
       \/ stops < MaxStops /\ stops' = stops + 1 /\ Stop
    /\ UNCHANGED <<ledger, exchange, blocked, edits>>

Save ==
    /\ pc = "save" /\ row' = w /\ Forget /\ Consume /\ NoFault
    /\ UNCHANGED <<edited, halted, exchange, blocked, late, edits, stops>>

\* runLadderIteration swallows a failed fetch, load or commit; a crash also
\* forgets the agreement block.  The row and the bars are as before.
Abort ==
    /\ pc # "idle" /\ Forget /\ Fault
    /\ blocked' \in {blocked, FALSE}
    /\ UNCHANGED <<row, late, edits>> /\ Outside

-----------------------------------------------------------------------------
(* The world.                                                              *)

Still == UNCHANGED <<row, pc, iter, edits>>

\* A bar that arrives during an iteration is not in its window: it may as well
\* arrive after it.  The window slides: what it no longer shows is never read.
NewBar ==
    /\ pc = "idle"
    /\ \E b \in Bars :
          bars' = Append(IF Len(bars) < MaxBars THEN bars ELSE Tail(bars), b)
    /\ UNCHANGED <<edited, halted, exchange, blocked, late, stops>> /\ NoFault /\ Still

\* The newest candle is still forming: the next fetch shows another one.
Form ==
    /\ pc = "idle" /\ bars # <<>>
    /\ \E b \in Bars : bars' = [bars EXCEPT ![Len(bars)] = b]
    /\ UNCHANGED <<edited, halted, exchange, blocked, late, stops>> /\ NoFault /\ Still

RestingFill(s) ==
    /\ resting[s] > 0
    /\ resting' = [resting EXCEPT ![s] = resting[s] - 1] /\ pos' = pos + Dir(s)
    /\ UNCHANGED <<bars, edited, halted, blocked, late, stops>> /\ NoFault /\ Still

\* The exchange's own exits: take profit, stop loss, liquidation, closes left
\* working.
Reduce ==
    /\ pos # 0 /\ pos' = pos - (IF pos > 0 THEN 1 ELSE -1)
    /\ UNCHANGED <<bars, edited, halted, resting, blocked, late, stops>> /\ NoFault /\ Still

Halt ==
    /\ ~halted /\ stops < MaxStops /\ stops' = stops + 1 /\ Stop
    /\ UNCHANGED <<bars, edited, exchange, blocked>> /\ NoFault /\ Still

\* Only the guard asks: this may as well happen between two iterations.
Resume ==
    /\ pc = "idle" /\ halted /\ halted' = FALSE
    /\ UNCHANGED <<bars, edited, exchange, blocked, late, stops>> /\ NoFault /\ Still

\* The options are read when the loop starts, so it has ended in between.  They
\* may be set back to those of the row.
EditConfig ==
    /\ pc = "idle" /\ edits < MaxEdits /\ edits' = edits + 1
    /\ edited' \in Mismatches \ {edited} /\ blocked' = FALSE
    /\ UNCHANGED <<row, bars, halted, exchange, pc, iter, late, stops>> /\ NoFault

Unblock ==
    /\ blocked /\ blocked' = FALSE
    /\ UNCHANGED <<bars, edited, halted, exchange, late, stops>> /\ NoFault /\ Still

Step ==
    \/ Reload \/ Reseed \/ Fetch \/ Guard \/ Reconcile \/ Advance
    \/ Record \/ Rollback \/ Tell \/ Save
    \/ \E s \in Sides : PlaceFill(s) \/ ShutClose(s)

World ==
    \/ NewBar \/ Form \/ Reduce \/ Halt \/ Resume \/ EditConfig \/ Unblock
    \/ \E s \in Sides : RestingFill(s)

Next == Step \/ Abort \/ World

Spec == Init /\ [][Next]_vars

\* The loop keeps iterating, the market keeps producing bars and the block ends.
FairSpec == Spec /\ WF_vars(Step) /\ WF_vars(NewBar) /\ WF_vars(Unblock)

-----------------------------------------------------------------------------
\* The exchange never holds or works for one side more than the rungs of that
\* side the ledger has open, the ones being opened included, except for one
\* batch of orders per fault or change of configuration: neither netting nor
\* rollbacks nor replays compound.
Claim(s) == Count(row.side[s]) + placed[s] - shut[s]
ExposureBounded ==
    \A s \in Sides :
        Dir(s) * pos + resting[s] <= Claim(s) + Batch * (faults + edits)

\* The guard is asked once per iteration: after trading is stopped at most the
\* entries of the iteration already past it go out.
OneBatchAfterStop == late <= 2 * Batch

\* A rung leaves the persisted ledger only when every order of its bars was
\* taken by the exchange, or by a reseed: the executor's failure keeps it.
RungLeavesWithItsOrder ==
    [][\A s \in Sides :
          \/ Open(row.side[s]) \subseteq Open(row'.side[s])
          \/ pc = "reseed" \/ (pc = "save" /\ AllPlaced /\ AllShut)]_vars

\* What a flat ledger does not know of is closed by the reconciliation of a
\* later bar, as long as trading is not stopped.
OrphanIsClosed == (Flat(row) /\ pos # 0) ~> (pos = 0 \/ ~Flat(row) \/ halted)

\* A flat ledger at its drawdown limit is not silent for ever: it is anchored
\* anew or trades again (the comment at ladder-engine.ts:944).
DrawdownEnds ==
    (Flat(row) /\ row.dd) ~> (~row.dd \/ ~Flat(row) \/ fills # Zero \/ halted)

\* Per-rung take profit, ladder-engine.ts:5-11 ("It mirrors the backtest's
\* per-bar state machine (... per-rung TP ...)"): when a bar reaches the
\* targets of the open rungs, those opened on earlier bars close.
TargetsClose ==
    [][\A s \in Sides :
          Advance /\ w.paused = 0 /\ bars[done + 1].target[s] = 1
            => Count(w'.side[s]) <= fills'[s] - fills[s]]_vars

=============================================================================
