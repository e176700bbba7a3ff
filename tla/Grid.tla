--------------------------------- MODULE Grid ---------------------------------
(***************************************************************************)
(* One symbol of the grid (paper-trading/grid-engine.ts and, when it is    *)
(* Live, live-position-reconciliation.ts) run by the loop of cli/scalp.ts. *)
(*                                                                         *)
(* Every iteration loads the persisted row, releases or obeys its killed   *)
(* flag, opens, closes or holds, and saves; a live one first reconciles    *)
(* the row with the exchange and passes the switch and the breaker, which  *)
(* a simulated one does not consult.  It is split at                       *)
(* each call of the exchange and each commit, where others move and where  *)
(* the process may die.  Prices are left out: whether a bar triggers an    *)
(* entry, an exit or the drawdown limit is a choice.  Sizes are lots.      *)
(***************************************************************************)
EXTENDS Integers

CONSTANTS
    Live,       \* isLive: orders go to an exchange
    Size,       \* lots of one entry order
    Pause,      \* gridPauseAfterLossBars
    MaxFaults,  \* bound: failures, crashes, lost answers, foreign changes,
                \* restarts with other options
    MaxStrays,  \* bound: entry orders left working
    MaxStops    \* bound: times the operator engages or the breaker trips

ASSUME LiveAssumption == Live \in BOOLEAN
ASSUME SizeAssumption == Size \in Nat \ {0}
ASSUME PauseAssumption == Pause \in Nat
ASSUME BoundsAssumption == MaxFaults \in Nat /\ MaxStrays \in Nat /\ MaxStops \in Nat

Sides == {"long", "short"}
Sign(s) == IF s = "long" THEN 1 ELSE -1
SideOf(n) == IF n > 0 THEN "long" ELSE "short"
Distance(n) == IF n < 0 THEN -n ELSE n
Least(a, b) == IF a < b THEN a ELSE b

VARIABLES
    row,        \* the persisted grid state
    st,         \* the iteration's copy of it
    pc,         \* where the process is
    ks,         \* the persisted kill switch
    breaker,    \* the circuit breaker is open
    pos,        \* the exchange's position: lots, negative when short
    resting,    \* per side: lots of entry orders still working
    exits,      \* lots of reduce-only orders still working
    (***********************************************************************)
    (* History and bounds.                                                 *)
    (***********************************************************************)
    strays,     \* entry orders that outlived the call that placed them, and
                \* unusable positions of which a dump closed only a part
    sent,       \* entries sent since the switch was engaged (saturates at 2)
    owed,       \* the last own complete close is not in the breaker yet
    blind,      \* an entry was made while owed
    extra,      \* trades recorded less closes the persisted row contains
    faults, stops

proc == <<row, st, pc>>
gates == <<ks, breaker, stops>>
exchange == <<pos, resting, exits>>
history == <<strays, sent, owed, blind, extra>>
vars == <<row, st, pc, ks, breaker, stops, pos, resting, exits,
          strays, sent, owed, blind, extra, faults>>

\* dd: the drawdown from the peak is at the limit.  cfg: the row against the
\* options of the process: the same, other limits or leverage, another capital.
Drifts == {"same", "limits", "capital"}
Fresh == [side |-> "flat", qty |-> 0, killed |-> FALSE, paused |-> 0, dd |-> FALSE,
          cfg |-> "same"]
Rows == [side : Sides \cup {"flat"}, qty : Nat, killed : BOOLEAN,
         paused : 0..Pause, dd : BOOLEAN, cfg : Drifts]

Points == {"down", "idle", "gate", "candles", "reconcile", "adopt", "dump",
           "engage", "cancel", "latch", "switch", "breaker", "bar", "entry",
           "confirm", "opened", "position", "book", "account", "finalize"}

TypeOK ==
    /\ row \in Rows /\ st \in Rows /\ pc \in Points
    /\ ks \in BOOLEAN /\ breaker \in BOOLEAN /\ stops \in 0..MaxStops
    /\ pos \in Int /\ resting \in [Sides -> Nat] /\ exits \in Nat
    /\ strays \in Nat /\ sent \in 0..2 /\ owed \in BOOLEAN /\ blind \in BOOLEAN
    /\ extra \in Int
    /\ faults \in 0..MaxFaults

Init ==
    /\ row = Fresh /\ st = Fresh /\ pc = "down"
    /\ ks = FALSE /\ breaker = FALSE /\ stops = 0
    /\ pos = 0 /\ resting = [s \in Sides |-> 0] /\ exits = 0
    /\ strays = 0 /\ sent = 0 /\ owed = FALSE /\ blind = FALSE /\ extra = 0
    /\ faults = 0

-----------------------------------------------------------------------------
Fault == faults < MaxFaults /\ faults' = faults + 1
NoFault == UNCHANGED faults

\* A network, exchange or repository error skips the iteration; a
\* KillSwitchError or CircuitBreakerError ends the loop and the process.
Skip(at) == pc = at /\ pc' = "idle" /\ Fault
Fatal(at) == pc = at /\ pc' = "down" /\ Fault
Goto(at, next) == pc = at /\ pc' = next /\ NoFault

\* The exchange after its position changes: one-way mode nets the sides, and
\* reduce-only orders shrink with the position and vanish when it turns.
Move(n) ==
    /\ pos' = n
    /\ exits' = IF n * pos > 0 THEN Least(exits, Distance(n)) ELSE 0

\* The process is started again, with the options it had or with others.
Start ==
    /\ pc = "down" /\ pc' = "idle"
    /\ \/ NoFault /\ UNCHANGED row
       \/ /\ Fault
          /\ \E cfg \in Drifts \ {row.cfg} : row' = [row EXCEPT !.cfg = cfg]
    /\ UNCHANGED <<st, gates, exchange, history>>

\* gridProvenanceMismatch: a live position entered under another capital.
Held == Live /\ row.side # "flat" /\ row.cfg = "capital"

\* A flat row starts over, keeping its balance unless the capital is another;
\* an open one takes the limits, not fees, leverage or capital, if its
\* fingerprint is another.
Reseed ==
    \E limit \in BOOLEAN :
        /\ row.cfg = "capital" => ~limit
        /\ row' = [Fresh EXCEPT !.dd = limit]
Refit ==
    \E cfg \in {row.cfg, "same"}, limit \in BOOLEAN :
        /\ row.cfg = "capital" => cfg = "capital"
        /\ row' = [row EXCEPT !.cfg = cfg, !.dd = limit]

\* loadGridState: hold, or bring the row in line with the options and save it.
Load ==
    /\ \/ row.cfg = "same" /\ Goto("idle", "gate") /\ UNCHANGED row
       \/ Held /\ Goto("idle", "idle") /\ UNCHANGED row
       \/ /\ row.cfg # "same" /\ row.side = "flat"
          /\ Goto("idle", "gate") /\ Reseed
       \/ /\ row.cfg # "same" /\ row.side # "flat" /\ ~Held
          /\ Goto("idle", "gate") /\ Refit
       \/ row.cfg # "same" /\ ~Held /\ Skip("idle") /\ UNCHANGED row
    /\ st' = row'
    /\ UNCHANGED <<gates, exchange, history>>

\* Mutant: a killed row is released with its position.
GateReleasesAll ==
    /\ \/ ~st.killed /\ Goto("gate", "candles") /\ UNCHANGED <<row, st>>
       \/ st.killed /\ ~ks /\ Goto("gate", "candles")
          /\ st' = [st EXCEPT !.killed = FALSE] /\ row' = st'
       \/ st.killed /\ ks /\ Goto("gate", "idle") /\ UNCHANGED <<row, st>>
       \/ st.killed /\ (Skip("gate") \/ Fatal("gate")) /\ UNCHANGED <<row, st>>
    /\ UNCHANGED <<gates, exchange, history>>

\* guardKilledGridState: killed and flat is released once the switch is off.
Gate ==
    /\ \/ /\ ~st.killed
          /\ Goto("gate", "candles") /\ UNCHANGED <<row, st>>
       \/ /\ st.killed /\ st.side = "flat" /\ ~ks
          /\ Goto("gate", "candles")
          /\ st' = [st EXCEPT !.killed = FALSE] /\ row' = st'
       \/ /\ st.killed /\ (st.side # "flat" \/ ks)
          /\ Goto("gate", "idle") /\ UNCHANGED <<row, st>>
       \/ /\ st.killed /\ st.side = "flat"
          /\ Skip("gate") \/ Fatal("gate")
          /\ UNCHANGED <<row, st>>
    /\ UNCHANGED <<gates, exchange, history>>

Candles ==
    /\ Goto("candles", IF Live THEN "reconcile" ELSE "bar") \/ Skip("candles")
    /\ UNCHANGED <<row, st, gates, exchange, history>>

-----------------------------------------------------------------------------
(* reconcileGridLiveState.                                                 *)

\* A position recorded: its leverage may not be the configured one.
Opened(s, n) == {[st EXCEPT !.side = s, !.qty = n, !.cfg = cfg] : cfg \in {"same", "limits"}}
Adopted == Opened(SideOf(pos), Distance(pos))
Matched == Sign(st.side) * pos = st.qty /\ exits = 0

\* Mutant: a flat row matches whatever the exchange holds.
ReconcileFlatMatches ==
    /\ \/ st.side = "flat" /\ Goto("reconcile", "switch")
       \/ st.side # "flat" /\ Matched /\ Goto("reconcile", "switch")
       \/ st.side # "flat" /\ ~Matched /\ Goto("reconcile", "engage")
       \/ Skip("reconcile")
    /\ UNCHANGED <<row, st, gates, exchange, history>>

Reconcile ==
    /\ \/ /\ st.side = "flat" /\ pos = 0
          /\ Goto("reconcile", "switch") /\ UNCHANGED st
       \/ /\ st.side = "flat" /\ pos # 0
          /\ Goto("reconcile", "adopt") /\ st' \in Adopted
       \/ /\ st.side = "flat" /\ pos # 0      \* its price or amount is unusable
          /\ pc = "reconcile" /\ pc' = "dump" /\ Fault /\ UNCHANGED st
       \/ /\ st.side # "flat" /\ Matched
          /\ Goto("reconcile", "switch") /\ UNCHANGED st
       \/ /\ st.side # "flat" /\ ~Matched
          /\ Goto("reconcile", "engage") /\ UNCHANGED st
       \/ /\ st.side # "flat" /\ Matched      \* other price, leverage or mode
          /\ pc = "reconcile" /\ pc' = "engage" /\ Fault /\ UNCHANGED st
       \/ Skip("reconcile") /\ UNCHANGED st
    /\ UNCHANGED <<row, gates, exchange, history>>

\* saveGridStateWithRetry: three failed saves engage the switch and hold.
SaveOrStop(at, next) ==
    /\ \/ /\ Goto(at, next)
          /\ row' = st /\ UNCHANGED <<ks, sent>>
       \/ /\ Skip(at)
          /\ ks' = TRUE /\ sent' = (IF ks THEN sent ELSE 0)
          /\ UNCHANGED row
       \/ Fatal(at) /\ UNCHANGED <<row, ks, sent>>
    /\ UNCHANGED <<st, breaker, stops, exchange, strays, owed, blind, extra>>

AdoptSave == SaveOrStop("adopt", "switch")

\* The unusable position is closed at market; any fill counts as done.
Dump ==
    /\ \/ /\ pc = "dump" /\ pos # 0
          /\ \E done \in 0..Distance(pos) :
                /\ Move(pos - Sign(SideOf(pos)) * done)
                /\ \/ /\ done = Distance(pos) /\ pc' = "switch" /\ NoFault
                      /\ UNCHANGED strays
                   \/ /\ done \in 1..(Distance(pos) - 1) /\ pc' = "switch" /\ Fault
                      /\ strays' = strays + 1
                   \/ /\ pc' = "engage" /\ Fault
                      /\ UNCHANGED strays
       \/ /\ pos = 0 /\ Goto("dump", "engage")
          /\ UNCHANGED <<pos, exits, strays>>
    /\ UNCHANGED <<row, st, gates, resting, sent, owed, blind, extra>>

\* failGridLiveReconciliation: switch, best-effort cancel, latch.
Engage ==
    /\ \/ /\ Goto("engage", "cancel")
          /\ ks' = TRUE /\ sent' = IF ks THEN sent ELSE 0
       \/ Fatal("engage") /\ UNCHANGED <<ks, sent>>
    /\ UNCHANGED <<row, st, breaker, stops, exchange, strays, owed, blind, extra>>

\* A failure is swallowed, and Bitget's adapter has no such call.
CancelOrders ==
    /\ Goto("cancel", "latch")
    /\ \/ resting' = [s \in Sides |-> 0] /\ exits' = 0
       \/ UNCHANGED <<resting, exits>>
    /\ UNCHANGED <<row, st, gates, pos, history>>

\* Mutant: only the switch is engaged, the row keeps no latch.
LatchNothing ==
    /\ Goto("latch", "idle") \/ Skip("latch")
    /\ UNCHANGED <<row, st, gates, exchange, history>>

Latch ==
    /\ \/ /\ Goto("latch", "idle") /\ row' = [st EXCEPT !.killed = TRUE]
       \/ Skip("latch") /\ UNCHANGED row
    /\ UNCHANGED <<st, gates, exchange, history>>

\* Mutant: the switch is only asked before reconciling.
CheckSwitchNever ==
    /\ Goto("switch", "breaker") \/ Fatal("switch")
    /\ UNCHANGED <<row, st, gates, exchange, history>>

CheckSwitch ==
    /\ Goto("switch", IF ks THEN "idle" ELSE "breaker") \/ Fatal("switch")
    /\ UNCHANGED <<row, st, gates, exchange, history>>

CheckBreaker ==
    /\ Goto("breaker", IF breaker THEN "idle" ELSE "bar") \/ Fatal("breaker")
    /\ UNCHANGED <<row, st, gates, exchange, history>>

-----------------------------------------------------------------------------
(* processGridBar: the pause, then the flat or the open branch.            *)

SaveAnd(at, next, new) ==
    \/ Goto(at, next) /\ row' = new
    \/ Skip(at) /\ UNCHANGED row

Bar ==
    /\ \/ /\ st.paused > 0
          /\ SaveAnd("bar", "idle", [st EXCEPT !.paused = @ - 1])
       \/ /\ st.paused = 0
          /\ Goto("bar", IF st.side = "flat" THEN "entry" ELSE "position")
          /\ UNCHANGED row
       \/ /\ st.paused = 0 /\ Skip("bar") /\ UNCHANGED row
    /\ UNCHANGED <<st, gates, exchange, history>>

\* The chop gate saves and holds; no setup, or a refusal by the risk guard or
\* by the minimum size, goes on to the end of the bar.
NoEntry ==
    /\ \/ SaveAnd("entry", "idle", st)
       \/ Goto("entry", "finalize") /\ UNCHANGED row
    /\ UNCHANGED <<st, gates, exchange, history>>

\* A limit order: by the last poll it has done lots; the rest is cancelled or
\* keeps working, and an answer may be lost.  Nothing reported is a failure.
Enter(s, done, reported, working) ==
    /\ Live /\ pc = "entry"
    /\ reported <= done
    /\ working \in {0, Size - done} /\ (working > 0 => strays < MaxStrays)
    /\ Move(pos + Sign(s) * done)
    /\ resting' = [resting EXCEPT ![s] = @ + working]
    /\ strays' = IF working > 0 THEN strays + 1 ELSE strays
    /\ sent' = IF ks /\ sent < 2 THEN sent + 1 ELSE sent
    /\ blind' = (blind \/ owed)
    /\ IF reported = done THEN NoFault ELSE Fault
    /\ IF reported > 0
       THEN st' \in Opened(s, reported) /\ pc' = "opened"
       ELSE UNCHANGED st /\ pc' = "confirm"
    /\ UNCHANGED <<row, gates, owed, extra>>

EnterSimulated(s) ==
    /\ ~Live /\ Goto("entry", "finalize")
    /\ st' \in Opened(s, Size)
    /\ blind' = (blind \/ owed)
    /\ UNCHANGED <<row, gates, exchange, strays, sent, owed, extra>>

\* The failed entry asks for the position and adopts whatever is there.
Confirm ==
    /\ \/ pos # 0 /\ Goto("confirm", "opened") /\ st' \in Adopted
       \/ pos = 0 /\ Goto("confirm", "idle") /\ UNCHANGED st
       \/ Skip("confirm") /\ UNCHANGED st
    /\ UNCHANGED <<row, gates, exchange, history>>

OpenedSave == SaveOrStop("opened", "finalize")

\* No exit triggered on this bar.
NoExit ==
    /\ Goto("position", "finalize")
    /\ UNCHANGED <<row, st, gates, exchange, history>>

\* closePosition, reduce-only: anything but a complete reported fill is an
\* ExchangeError, and a limit's rest may keep working.
Close(done, reported, working) ==
    /\ Live /\ pc = "position"
    /\ LET held == IF Sign(st.side) * pos > 0 THEN Distance(pos) - exits ELSE 0
           asked == Least(st.qty, held)
       IN /\ reported <= done /\ done <= asked
          /\ working \in {0, asked - done}
          /\ pos' = pos - Sign(st.side) * done
          /\ exits' = exits + working
          /\ owed' = (owed \/ done = st.qty)
          /\ IF reported = done THEN NoFault ELSE Fault
          /\ pc' = IF reported = st.qty THEN "book" ELSE "idle"
    /\ UNCHANGED <<row, st, gates, resting, strays, sent, blind, extra>>

CloseSimulated ==
    /\ ~Live /\ Goto("position", "book")
    /\ owed' = TRUE
    /\ UNCHANGED <<row, st, gates, exchange, strays, sent, blind, extra>>

\* Mutant: a trade that cannot be recorded does not stop the exit.
BookBestEffort ==
    /\ \/ Goto("book", "account") /\ extra' = extra + 1
       \/ pc = "book" /\ pc' = "account" /\ Fault /\ UNCHANGED extra
    /\ UNCHANGED <<row, st, gates, exchange, strays, sent, owed, blind>>

\* recordGridTrade, then recordTradeResult.
Book ==
    /\ \/ Goto("book", "account") /\ extra' = extra + 1
       \/ Skip("book") /\ UNCHANGED extra
    /\ UNCHANGED <<row, st, gates, exchange, strays, sent, owed, blind>>

\* Mutant: a failure of the breaker's record is swallowed.
AccountBestEffort ==
    /\ \/ Goto("account", "finalize") /\ owed' = FALSE
       \/ pc = "account" /\ pc' = "finalize" /\ Fault /\ UNCHANGED owed
    /\ \E limit \in BOOLEAN, paused \in {0, Pause}, liquidated \in BOOLEAN :
          st' = [Fresh EXCEPT !.dd = limit, !.paused = paused, !.killed = liquidated,
                              !.cfg = st.cfg]
    /\ UNCHANGED <<row, gates, exchange, strays, sent, blind, extra>>

\* A stop pauses, a liquidation kills; the loss may reach the limit.
Account ==
    /\ \/ /\ Goto("account", "finalize") /\ owed' = FALSE
          /\ \E limit \in BOOLEAN, paused \in {0, Pause}, liquidated \in BOOLEAN :
                /\ liquidated => paused = 0
                /\ st' = [Fresh EXCEPT !.dd = limit, !.paused = paused,
                                       !.killed = liquidated, !.cfg = st.cfg]
       \/ Fatal("account") /\ UNCHANGED <<st, owed>>
    /\ UNCHANGED <<row, gates, exchange, strays, sent, blind, extra>>

\* finalizeGridBar: one save, without retry.
Finalize ==
    /\ SaveAnd("finalize", "idle", [st EXCEPT !.killed = @ \/ st.dd])
    /\ extra' = IF row.side # "flat" /\ row'.side = "flat" THEN extra - 1 ELSE extra
    /\ UNCHANGED <<st, gates, exchange, strays, sent, owed, blind>>

-----------------------------------------------------------------------------
(* The world around the process.                                           *)

Crash ==
    /\ pc # "down" /\ pc' = "down" /\ Fault
    /\ UNCHANGED <<row, st, gates, exchange, history>>

RestingFill(s) ==
    /\ resting[s] > 0
    /\ resting' = [resting EXCEPT ![s] = @ - 1]
    /\ Move(pos + Sign(s))
    /\ UNCHANGED <<proc, gates, history, faults>>

ExitFill ==
    /\ exits > 0 /\ pos # 0
    /\ exits' = exits - 1
    /\ pos' = pos - Sign(SideOf(pos))
    /\ UNCHANGED <<proc, gates, resting, history, faults>>

\* Liquidation, or a reduction by hand.
Liquidate ==
    /\ pos # 0 /\ Fault
    /\ \E left \in 0..(Distance(pos) - 1) : Move(Sign(SideOf(pos)) * left)
    /\ UNCHANGED <<proc, gates, resting, history>>

OperatorEngage ==
    /\ ~ks /\ stops < MaxStops
    /\ ks' = TRUE /\ stops' = stops + 1 /\ sent' = 0
    /\ UNCHANGED <<breaker, proc, exchange, strays, owed, blind, extra, faults>>

OperatorDisengage ==
    /\ ks /\ ks' = FALSE
    /\ UNCHANGED <<breaker, stops, proc, exchange, history, faults>>

BreakerTrips ==
    /\ ~breaker /\ stops < MaxStops
    /\ breaker' = TRUE /\ stops' = stops + 1
    /\ UNCHANGED <<ks, proc, exchange, history, faults>>

NextDay ==
    /\ breaker /\ breaker' = FALSE
    /\ UNCHANGED <<ks, stops, proc, exchange, history, faults>>

-----------------------------------------------------------------------------
Iteration ==
    \/ Load \/ Gate \/ Candles
    \/ Reconcile \/ AdoptSave \/ Dump \/ Engage \/ CancelOrders \/ Latch
    \/ CheckSwitch \/ CheckBreaker \/ Bar
    \/ NoEntry \/ Confirm \/ OpenedSave
    \/ \E s \in Sides, done, reported, working \in 0..Size :
          Enter(s, done, reported, working)
    \/ \E s \in Sides : EnterSimulated(s)
    \/ NoExit \/ CloseSimulated \/ Book \/ Account \/ Finalize
    \/ \E done, reported, working \in 0..Distance(pos) : Close(done, reported, working)

World ==
    \/ Crash \/ Liquidate \/ ExitFill
    \/ \E s \in Sides : RestingFill(s)
    \/ OperatorEngage \/ OperatorDisengage
    \/ BreakerTrips \/ NextDay

Next == Start \/ Iteration \/ World

Spec == Init /\ [][Next]_vars

\* The process is restarted and its loop goes on; failures are finitely many
\* (MaxFaults).  Nobody has to disengage, fill or liquidate anything.
FairSpec == Spec /\ WF_vars(Start) /\ WF_vars(Iteration)

-----------------------------------------------------------------------------
(* Properties.                                                             *)

\* What the symbol can ever carry, working entries included: one entry, and
\* one more for every order left working and every dump cut short.  No crash,
\* lost answer, failed save or lifted stop doubles a position.
ExposureBounded ==
    Distance(pos) + resting["long"] + resting["short"] <= Size * (1 + strays)

\* After the switch is engaged, by the operator or by the engine, at most the
\* one entry goes out whose gate had been passed before.
AtMostOneEntryAfterStop == ks => sent <= 1

\* "Grid exits now record their realized capital delta in the persistent
\* circuit breaker before the next entry decision": whatever fails or dies on
\* the way, no entry follows a completed close the breaker was not told of.
ExitAccountedBeforeEntry == ~blind

\* The capital never contains a close that is not in the trade ledger, and
\* the ledger's surplus (a close recorded again after its save was lost) is
\* one trade for each failure.
LedgerCoversCapital ==
    /\ 0 <= extra
    /\ extra <= faults + (IF pc \in {"account", "finalize"} THEN 1 ELSE 0)

\* The row keeps the promise of PositionRow: a recorded position, adopted ones
\* included, is only ever closed or latched as a whole; no reconciliation, crash
\* or late save turns it, and only a latch on a flat row is released.
Position == INSTANCE PositionRow
                WITH side <- row.side, qty <- row.qty, killed <- row.killed
KeepsPositionRow == Position!Spec

Agree == IF row.side = "flat" THEN pos = 0 ELSE Sign(row.side) * pos = row.qty

\* A difference between the row and the exchange is adopted, closed or
\* latched in the end, engaged switch, open breaker, pause or not, unless the
\* provenance hold keeps the engine from looking.
DivergenceIsResolved == ~Agree ~> (Agree \/ row.killed \/ Held)
=============================================================================
