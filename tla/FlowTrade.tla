------------------------------ MODULE FlowTrade -------------------------------
(***************************************************************************)
(* scalping/flow-trade.ts driven by the flow-trade command's loop: one     *)
(* directional position per symbol, managed by a process that loads its    *)
(* row, passes the kill switch and the circuit breaker, and then enters,   *)
(* or checks, trails and closes the position it remembers.                 *)
(*                                                                         *)
(* An iteration is split wherever it awaits the exchange or commits to the *)
(* database: between two steps other actors move, and the process may die. *)
(* Prices are left out: a signal, a stop and an emergency are choices.  A  *)
(* quantity is a number of orderable lots; an entry asks for Size of them. *)
(***************************************************************************)
EXTENDS Integers

CONSTANTS
    Size,       \* lots of one entry
    MaxFaults,  \* bound: failures, crashes and foreign position changes
    MaxStops    \* bound: times the operator engages or the breaker trips

ASSUME SizeAssumption == Size \in Nat \ {0}
ASSUME BoundsAssumption == MaxFaults \in Nat /\ MaxStops \in Nat

Sides == {"LONG", "SHORT"}
Sign(s) == IF s = "LONG" THEN 1 ELSE -1
Distance(n) == IF n < 0 THEN -n ELSE n

\* A row of flow_trade_state.  No row and a fresh one mean the same to the
\* engine (getFlowTradeState(...) ?? freshFlowTradeState(...)).
Fresh == [side |-> "flat", qty |-> 0, killed |-> FALSE]
Rows == {r \in [side : Sides \cup {"flat"}, qty : 0..Size, killed : BOOLEAN] :
            r.side = "flat" <=> r.qty = 0}

VARIABLES
    row,        \* the persisted flow_trade_state row
    st,         \* the iteration's copy of it
    pc,         \* where the process is
    ks,         \* the persisted kill switch
    breaker,    \* the circuit breaker is open
    due,        \* the hold time of the recorded position has passed
    pos,        \* the exchange's position: lots, negative when short
    loose,      \* per side: entry lots still working at the exchange
    (***********************************************************************)
    (* History and bounds.                                                 *)
    (***********************************************************************)
    lostFills,  \* orders whose effect on the exchange is not what a row says
    sent,       \* orders sent since the switch was engaged (saturates at 2)
    faults, stops

proc == <<row, st, pc>>
gates == <<ks, breaker, stops>>
exchange == <<pos, loose>>
vars == <<row, st, pc, ks, breaker, due, pos, loose, lostFills, sent, faults, stops>>

Points == {"down", "idle", "switch", "breaker", "market", "entry",
           "record", "guard", "engage", "latch", "manage", "clear"}

TypeOK ==
    /\ row \in Rows
    /\ st \in Rows
    /\ pc \in Points
    /\ ks \in BOOLEAN
    /\ breaker \in BOOLEAN
    /\ due \in BOOLEAN
    /\ pos \in Int
    /\ loose \in [Sides -> Nat]
    /\ lostFills \in Nat
    /\ sent \in 0..2
    /\ faults \in 0..MaxFaults
    /\ stops \in 0..MaxStops

Init ==
    /\ row = Fresh /\ st = Fresh /\ pc = "down"
    /\ ks = FALSE /\ breaker = FALSE /\ due = FALSE
    /\ pos = 0 /\ loose = [s \in Sides |-> 0]
    /\ lostFills = 0 /\ sent = 0 /\ faults = 0 /\ stops = 0

-----------------------------------------------------------------------------
Fault == faults < MaxFaults /\ faults' = faults + 1
NoFault == UNCHANGED faults

\* Orders since the engage, counted for the property.
CountOrder == sent' = IF ks /\ sent < 2 THEN sent + 1 ELSE sent

\* What the failure of the current step does.  A network, exchange or
\* repository error skips the iteration; a RiskError, KillSwitchError or
\* CircuitBreakerError ends the loop and the process.
Skip(at) == pc = at /\ pc' = "idle" /\ Fault
Fatal(at) == pc = at /\ pc' = "down" /\ Fault

Start ==
    /\ pc = "down"
    /\ pc' = "idle"
    /\ UNCHANGED <<row, st, due, lostFills, sent, faults, gates, exchange>>

\* Mutant: the loop keeps its own state and loads no row.
LoadNothing ==
    /\ pc = "idle"
    /\ st' = Fresh
    /\ pc' = "switch"
    /\ UNCHANGED <<row, due, lostFills, sent, faults, gates, exchange>>

Load ==
    /\ pc = "idle"
    /\ st' = row
    /\ pc' = "switch"
    /\ UNCHANGED <<row, due, lostFills, sent, faults, gates, exchange>>

-----------------------------------------------------------------------------
(* guardFlowState.                                                         *)

\* It first releases a killed row that has no position, once the switch is off.
\* That branch has no action here: LatchHasPosition shows there is no such row.

\* Mutant: only the row's own latch holds the iteration.
CheckSwitchLatchOnly ==
    /\ \/ /\ pc = "switch" /\ NoFault
          /\ pc' = IF st.killed THEN "idle" ELSE "breaker"
       \/ ~st.killed /\ Fatal("switch")
    /\ UNCHANGED <<row, st, due, lostFills, sent, gates, exchange>>

\* Mutant: the row's latch is forgotten once the switch is off.
CheckSwitchOnly ==
    /\ \/ /\ pc = "switch" /\ NoFault
          /\ pc' = IF ks THEN "idle" ELSE "breaker"
       \/ Fatal("switch")
    /\ UNCHANGED <<row, st, due, lostFills, sent, gates, exchange>>

CheckSwitch ==
    /\ \/ /\ pc = "switch" /\ NoFault
          /\ pc' = IF st.killed \/ ks THEN "idle" ELSE "breaker"
       \/ ~st.killed /\ Fatal("switch")
    /\ UNCHANGED <<row, st, due, lostFills, sent, gates, exchange>>

CheckBreaker ==
    /\ \/ /\ pc = "breaker" /\ NoFault
          /\ pc' = IF breaker THEN "idle" ELSE "market"
       \/ Fatal("breaker")
    /\ UNCHANGED <<row, st, due, lostFills, sent, gates, exchange>>

\* Candles, open interest and funding; no candles hold the iteration.
LoadMarket ==
    /\ \/ /\ pc = "market" /\ NoFault
          /\ pc' = IF st.side = "flat" THEN "entry" ELSE "guard"
       \/ Skip("market")
    /\ UNCHANGED <<row, st, due, lostFills, sent, gates, exchange>>

-----------------------------------------------------------------------------
(* openFlowTrade: signal, risk guard, modes, a market order and its poll.  *)

NoEntry ==
    /\ \/ pc = "entry" /\ pc' = "idle" /\ NoFault
       \/ Skip("entry") \/ Fatal("entry")
    /\ UNCHANGED <<row, st, due, lostFills, sent, gates, exchange>>

\* By the poll the order has done lots, of which the poll reports some; what
\* is not done is cancelled or goes on working.
Enter(s, done, reported, working) ==
    /\ pc = "entry"
    /\ reported <= done
    /\ working \in {0, Size - done}
    /\ CountOrder
    /\ pos' = pos + Sign(s) * done
    /\ loose' = [loose EXCEPT ![s] = @ + working]
    /\ IF reported = Size THEN NoFault ELSE Fault
    /\ lostFills' = IF done + working = reported THEN lostFills ELSE lostFills + 1
    /\ IF reported > 0
       THEN st' = [side |-> s, qty |-> reported, killed |-> FALSE] /\ pc' = "record"
       ELSE UNCHANGED st /\ pc' = "idle"   \* ExchangeError, or the call failed
    /\ UNCHANGED <<row, due, gates>>

RecordEntry ==
    /\ \/ /\ pc = "record" /\ NoFault
          /\ row' = st /\ due' = FALSE /\ pc' = "idle"
          /\ UNCHANGED lostFills
       \/ /\ Skip("record")
          /\ lostFills' = lostFills + 1
          /\ UNCHANGED <<row, due>>
    /\ UNCHANGED <<st, sent, gates, exchange>>

-----------------------------------------------------------------------------
(* manageFlowPosition.                                                     *)

Backed(s) == Sign(s) * pos > 0

\* guardFlowPosition: side and presence are compared, the quantity is not.
Guard ==
    /\ \/ /\ pc = "guard" /\ NoFault
          /\ pc' = IF Backed(st.side) THEN "manage" ELSE "engage"
       \/ Skip("guard")
    /\ UNCHANGED <<row, st, due, lostFills, sent, gates, exchange>>

\* A failed engage ends the process before the latch is saved.
EngageSwitch ==
    /\ \/ /\ pc = "engage" /\ NoFault
          /\ ks' = TRUE /\ pc' = "latch"
          /\ sent' = IF ks THEN sent ELSE 0
       \/ /\ Fatal("engage")
          /\ UNCHANGED <<ks, sent>>
    /\ UNCHANGED <<row, st, breaker, stops, due, lostFills, exchange>>

Latch ==
    /\ \/ /\ pc = "latch" /\ NoFault
          /\ row' = [st EXCEPT !.killed = TRUE] /\ pc' = "idle"
       \/ /\ Skip("latch")
          /\ UNCHANGED row
    /\ UNCHANGED <<st, due, lostFills, sent, gates, exchange>>

\* Mutant: the hold time is never enforced.
HoldForever ==
    /\ \/ /\ pc = "manage" /\ NoFault
          /\ row' = st /\ pc' = "idle"
       \/ /\ Skip("manage")
          /\ UNCHANGED row
    /\ UNCHANGED <<st, due, lostFills, sent, gates, exchange>>

\* No exit reason: the trailed stop is saved.
Hold ==
    /\ \/ /\ pc = "manage" /\ ~due /\ NoFault
          /\ row' = st /\ pc' = "idle"
       \/ /\ ~due /\ Skip("manage")
          /\ UNCHANGED row
    /\ UNCHANGED <<st, due, lostFills, sent, gates, exchange>>

\* Stop, emergency or time: closePosition reads the position again and sends
\* a reduce-only order of at most the recorded quantity.  By the poll it has
\* done lots; a poll that sees some counts as closed, however many they are,
\* and so does a position that is gone.
Close(done, seen) ==
    /\ pc = "manage"
    /\ \/ /\ Backed(st.side)
          /\ done <= st.qty /\ done <= Distance(pos)
          /\ seen => done > 0
          /\ pos' = pos - Sign(st.side) * done
          /\ CountOrder
          /\ IF done \in {st.qty, Distance(pos)}
             THEN /\ IF seen THEN NoFault ELSE Fault
                  /\ UNCHANGED lostFills
             ELSE Fault /\ lostFills' = IF seen THEN lostFills + 1 ELSE lostFills
          /\ pc' = IF seen THEN "clear" ELSE "idle"
       \/ /\ ~Backed(st.side) /\ done = 0 /\ seen
          /\ pc' = "clear"
          /\ NoFault /\ UNCHANGED <<pos, sent, lostFills>>
    /\ UNCHANGED <<row, st, due, loose, gates>>

\* clearFlowTradeState.
Clear ==
    /\ \/ /\ pc = "clear" /\ NoFault
          /\ row' = Fresh /\ pc' = "idle" /\ due' = FALSE
       \/ /\ Skip("clear")
          /\ UNCHANGED <<row, due>>
    /\ UNCHANGED <<st, lostFills, sent, gates, exchange>>

-----------------------------------------------------------------------------
(* The world around the process.                                           *)

Crash ==
    /\ pc # "down" /\ pc' = "down" /\ Fault
    /\ lostFills' = IF pc = "record" THEN lostFills + 1 ELSE lostFills
    /\ UNCHANGED <<row, st, due, sent, gates, exchange>>

TimePasses ==
    /\ row.side # "flat" /\ ~due /\ due' = TRUE
    /\ UNCHANGED <<lostFills, sent, faults, proc, gates, exchange>>

\* A working entry order fills a lot, or its rest is cancelled.
LooseFill(s) ==
    /\ loose[s] > 0
    /\ loose' = [loose EXCEPT ![s] = @ - 1]
    /\ pos' = pos + Sign(s)
    /\ UNCHANGED <<due, lostFills, sent, faults, proc, gates>>

LooseCancel(s) ==
    /\ loose[s] > 0
    /\ loose' = [loose EXCEPT ![s] = 0]
    /\ UNCHANGED <<pos, due, lostFills, sent, faults, proc, gates>>

\* Liquidation, or a reduction by hand.
Liquidate ==
    /\ pos # 0 /\ Fault
    /\ \E left \in 0..(Distance(pos) - 1) :
          pos' = IF pos > 0 THEN left ELSE -left
    /\ UNCHANGED <<loose, due, lostFills, sent, proc, gates>>

OperatorEngage ==
    /\ ~ks /\ stops < MaxStops
    /\ ks' = TRUE /\ stops' = stops + 1 /\ sent' = 0
    /\ UNCHANGED <<breaker, due, lostFills, faults, proc, exchange>>

OperatorDisengage ==
    /\ ks /\ ks' = FALSE
    /\ UNCHANGED <<breaker, stops, due, lostFills, sent, faults, proc, exchange>>

\* The other engines trip the breaker; the next day opens with a new row.
BreakerTrips ==
    /\ ~breaker /\ stops < MaxStops
    /\ breaker' = TRUE /\ stops' = stops + 1
    /\ UNCHANGED <<ks, due, lostFills, sent, faults, proc, exchange>>

NextDay ==
    /\ breaker /\ breaker' = FALSE
    /\ UNCHANGED <<ks, stops, due, lostFills, sent, faults, proc, exchange>>

-----------------------------------------------------------------------------
Iteration ==
    \/ Load \/ CheckSwitch \/ CheckBreaker \/ LoadMarket
    \/ NoEntry
    \/ \E s \in Sides, done, reported, working \in 0..Size :
          Enter(s, done, reported, working)
    \/ RecordEntry
    \/ Guard \/ EngageSwitch \/ Latch \/ Hold
    \/ \E done \in 0..Size, seen \in BOOLEAN : Close(done, seen)
    \/ Clear

World ==
    \/ Crash \/ TimePasses \/ Liquidate
    \/ \E s \in Sides : LooseFill(s) \/ LooseCancel(s)
    \/ OperatorEngage \/ OperatorDisengage
    \/ BreakerTrips \/ NextDay

Next == Start \/ Iteration \/ World

Spec == Init /\ [][Next]_vars

\* The process is restarted, the loop goes on, time passes; failures are
\* finitely many (MaxFaults).  Nobody has to disengage or to fill an order.
FairSpec == Spec /\ WF_vars(Start) /\ WF_vars(Iteration) /\ WF_vars(TimePasses)

-----------------------------------------------------------------------------
(* Properties.                                                             *)

\* What the symbol can ever carry, orders that still work included: one entry,
\* and one more for every order whose effect reached no row.  A restart alone
\* never enters twice, nor does a skipped iteration or a lifted stop.
ExposureBounded ==
    Distance(pos) + loose["LONG"] + loose["SHORT"] <= Size * (1 + lostFills)

\* After the switch is engaged, by the operator or by the engine, at most the
\* one order goes out whose gate had been passed before.
AtMostOneOrderAfterStop == ks => sent <= 1

\* The latch is only ever set on an open position, so the release at the head
\* of guardFlowState (killed and flat and disengaged) is never taken.
LatchHasPosition == row.killed => row.side # "flat"

\* The row keeps the promise of PositionRow: whatever dies or fails between two
\* commits, a recorded position is only ever closed or latched, never changed or
\* turned, and no restart, disengage or later iteration touches a latched one.
Position == INSTANCE PositionRow
                WITH side <- row.side, qty <- row.qty, killed <- row.killed
KeepsPositionRow == Position!Spec

\* A recorded position does not stay open: the hold time closes it, or a
\* mismatch latches it, unless somebody stops the engine.
PositionIsResolved ==
    row.side # "flat" ~> (row.side = "flat" \/ row.killed \/ ks \/ breaker)
=============================================================================
