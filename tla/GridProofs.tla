------------------------------ MODULE GridProofs -------------------------------
(***************************************************************************)
(* Proofs about Grid, live and simulated, for any entry size, pause and    *)
(* bounds.                                                                 *)
(***************************************************************************)
EXTENDS Grid, TLAPS

-----------------------------------------------------------------------------
LEMMA SignFacts ==
    /\ Sign("long") = 1 /\ Sign("short") = -1
    /\ \A s \in Sides : Sign(s) \in {1, -1}
    /\ Sign("flat") = -1
BY DEF Sign, Sides

LEMMA DistanceFacts ==
    ASSUME NEW n \in Int
    PROVE  /\ Distance(n) \in Nat
           /\ Distance(n) = n \/ Distance(n) = -n
           /\ n <= Distance(n) /\ -n <= Distance(n)
           /\ SideOf(n) \in Sides
BY DEF Distance, SideOf, Sides

LEMMA LeastFact ==
    ASSUME NEW a \in Nat, NEW b \in Nat
    PROVE  Least(a, b) \in Nat /\ Least(a, b) <= a /\ Least(a, b) <= b
BY DEF Least

LEMMA MoveFact ==
    ASSUME TypeOK, NEW n \in Int, Move(n)
    PROVE  pos' = n /\ exits' \in Nat
<1>1. Distance(n) \in Nat /\ Distance(pos) \in Nat
    BY DistanceFacts DEF TypeOK
<1>2. Least(exits, Distance(n)) \in Nat
    BY <1>1, LeastFact DEF TypeOK
<1> QED
    BY <1>2 DEF Move

\* The rows the engine builds from a row.
LEMMA RowFacts ==
    ASSUME NEW r \in Rows
    PROVE  /\ [r EXCEPT !.killed = TRUE] \in Rows
           /\ [r EXCEPT !.killed = FALSE] \in Rows
           /\ r.paused > 0 => [r EXCEPT !.paused = @ - 1] \in Rows
           /\ [r EXCEPT !.killed = @ \/ r.dd] \in Rows
<1>1. /\ [r EXCEPT !.killed = TRUE] \in Rows
      /\ [r EXCEPT !.killed = FALSE] \in Rows
    BY DEF Rows
<1>2. ASSUME r.paused > 0 PROVE [r EXCEPT !.paused = @ - 1] \in Rows
    <2>1. r.paused - 1 \in 0..Pause
        BY <1>2, PauseAssumption DEF Rows
    <2> QED
        BY <2>1 DEF Rows
<1>3. [r EXCEPT !.killed = @ \/ r.dd] \in Rows
    <2>1. (r.killed \/ r.dd) \in BOOLEAN
        BY DEF Rows
    <2> QED
        BY <2>1 DEF Rows
<1> QED
    BY <1>1, <1>2, <1>3

LEMMA FreshFacts ==
    /\ Fresh \in Rows
    /\ \A limit \in BOOLEAN, paused \in {0, Pause}, liquidated \in BOOLEAN, cfg \in Drifts :
          [Fresh EXCEPT !.dd = limit, !.paused = paused, !.killed = liquidated,
                        !.cfg = cfg] \in Rows
<1>1. 0 \in 0..Pause /\ Pause \in 0..Pause
    BY PauseAssumption
<1> QED
    BY <1>1 DEF Fresh, Rows, Drifts

\* A row with a position recorded.
LEMMA OpenedFacts ==
    ASSUME TypeOK, NEW s \in Sides, NEW n \in Nat, NEW r \in Opened(s, n)
    PROVE  r \in Rows /\ r.side = s /\ r.qty = n /\ r.killed = st.killed
<1>1. PICK cfg \in Drifts : r = [st EXCEPT !.side = s, !.qty = n, !.cfg = cfg]
    BY DEF Opened, Drifts
<1>2. st \in Rows
    BY DEF TypeOK
<1> QED
    BY <1>1, <1>2 DEF Rows

LEMMA AdoptedFacts ==
    ASSUME TypeOK, NEW r \in Adopted
    PROVE  /\ r \in Rows /\ r.side \in Sides /\ r.side # "flat"
           /\ r.qty = Distance(pos) /\ r.killed = st.killed
<1>1. SideOf(pos) \in Sides /\ Distance(pos) \in Nat
    BY DistanceFacts DEF TypeOK
<1> QED
    BY <1>1, OpenedFacts DEF Adopted, Sides

\* A restart leaves the recorded position alone.
LEMMA StartFacts ==
    ASSUME TypeOK, Start
    PROVE  /\ row' \in Rows /\ st' = st /\ pc = "down" /\ pc' = "idle"
           /\ UNCHANGED <<row.side, row.qty, row.killed>>
<1>1. CASE UNCHANGED row
    BY <1>1 DEF Start, TypeOK
<1>2. CASE ~UNCHANGED row
    <2>1. PICK cfg \in Drifts : row' = [row EXCEPT !.cfg = cfg]
        BY <1>2 DEF Start
    <2>2. row \in Rows
        BY DEF TypeOK
    <2>3. row' \in Rows /\ UNCHANGED <<row.side, row.qty, row.killed>>
        BY <2>1, <2>2 DEF Rows
    <2> QED
        BY <2>3 DEF Start
<1> QED
    BY <1>1, <1>2

\* So does loading, which clears the latch of a flat row at most.
LEMMA LoadFacts ==
    ASSUME TypeOK, Load
    PROVE  /\ row' \in Rows /\ st' = row' /\ pc = "idle" /\ pc' \in {"idle", "gate"}
           /\ row'.side = row.side
           /\ row.side # "flat" => row'.qty = row.qty /\ row'.killed = row.killed
           /\ row.side = "flat" => row' = row \/ (row'.qty = 0 /\ ~row'.killed)
<1>0. /\ row \in Rows /\ st' = row' /\ pc = "idle" /\ pc' \in {"idle", "gate"}
      /\ \/ row' = row
         \/ row.side = "flat" /\ Reseed
         \/ row.side # "flat" /\ Refit
    BY DEF TypeOK, Load, Goto, Skip
<1>1. CASE row' = row
    BY <1>0, <1>1
<1>2. CASE row.side = "flat" /\ Reseed
    <2>1. Fresh \in Rows /\ Fresh.side = "flat" /\ Fresh.qty = 0 /\ ~Fresh.killed
        BY FreshFacts DEF Fresh
    <2>2. PICK limit \in BOOLEAN : row' = [Fresh EXCEPT !.dd = limit]
        BY <1>2, Zenon DEF Reseed
    <2>3. row' \in Rows /\ row'.side = "flat" /\ row'.qty = 0 /\ ~row'.killed
        BY <2>1, <2>2 DEF Rows
    <2> QED
        BY <1>0, <1>2, <2>3
<1>3. CASE row.side # "flat" /\ Refit
    <2>1. PICK cfg \in {row.cfg, "same"}, limit \in BOOLEAN :
             row' = [row EXCEPT !.cfg = cfg, !.dd = limit]
        BY <1>3, Zenon DEF Refit
    <2>2. row.cfg \in Drifts /\ cfg \in Drifts
        BY <1>0 DEF Rows, Drifts
    <2>3. row' \in Rows /\ UNCHANGED <<row.side, row.qty, row.killed>>
        BY <1>0, <2>1, <2>2 DEF Rows
    <2> QED
        BY <1>0, <1>3, <2>3
<1> QED
    BY <1>0, <1>1, <1>2, <1>3

LEMMA FaultFact ==
    ASSUME TypeOK, Fault \/ NoFault
    PROVE  faults' \in 0..MaxFaults
BY BoundsAssumption DEF TypeOK, Fault, NoFault

-----------------------------------------------------------------------------
(* Type correctness.                                                       *)

\* What the steps that leave row, copy and exchange alone have to preserve.
LEMMA GateType ==
    ASSUME TypeOK, Load \/ Gate \/ Candles \/ CheckSwitch \/ CheckBreaker
    PROVE  TypeOK'
<1> USE DEF gates, exchange, history
<1>1. CASE Load
    <2>1. faults' \in 0..MaxFaults
        BY <1>1, FaultFact DEF Load, Goto, Skip
    <2> QED
        BY <1>1, <2>1, LoadFacts DEF Load, TypeOK, Points
<1>2. CASE Gate
    <2>1. pc' \in Points /\ faults' \in 0..MaxFaults
        BY <1>2, FaultFact DEF Gate, Goto, Skip, Fatal, Points
    <2>2. row' \in Rows /\ st' \in Rows
        BY <1>2, RowFacts DEF Gate, TypeOK
    <2> QED
        BY <1>2, <2>1, <2>2 DEF Gate, TypeOK
<1>3. CASE Candles
    BY <1>3, FaultFact DEF Candles, Goto, Skip, TypeOK, Points
<1>4. CASE CheckSwitch
    BY <1>4, FaultFact DEF CheckSwitch, Goto, Fatal, TypeOK, Points
<1>5. CASE CheckBreaker
    BY <1>5, FaultFact DEF CheckBreaker, Goto, Fatal, TypeOK, Points
<1> QED
    BY <1>1, <1>2, <1>3, <1>4, <1>5

LEMMA SaveOrStopType ==
    ASSUME TypeOK, NEW at, NEW next \in Points, SaveOrStop(at, next)
    PROVE  TypeOK'
<1>1. pc' \in Points /\ faults' \in 0..MaxFaults
    BY FaultFact DEF SaveOrStop, Goto, Skip, Fatal, Points
<1>2. row' \in {row, st} /\ sent' \in {sent, 0} /\ ks' \in {ks, TRUE}
    BY Zenon DEF SaveOrStop
<1>3. row' \in Rows /\ sent' \in 0..2
    BY <1>2 DEF TypeOK
<1>4. ks' \in BOOLEAN
    BY <1>2, Zenon DEF TypeOK
<1>5. UNCHANGED <<st, breaker, stops, pos, resting, exits, strays, owed, blind, extra>>
    BY DEF SaveOrStop, exchange
<1> QED
    BY <1>1, <1>3, <1>4, <1>5 DEF TypeOK

LEMMA ReconcileType ==
    ASSUME TypeOK, Reconcile \/ AdoptSave \/ Dump \/ Engage \/ CancelOrders \/ Latch
    PROVE  TypeOK'
<1> USE DEF gates, exchange, history
<1>1. CASE Reconcile
    <2>1. pc' \in Points /\ faults' \in 0..MaxFaults
        BY <1>1, FaultFact DEF Reconcile, Goto, Skip, Points
    <2>2. st' \in Rows
        BY <1>1, AdoptedFacts DEF Reconcile, TypeOK
    <2> QED
        BY <1>1, <2>1, <2>2 DEF Reconcile, TypeOK
<1>2. CASE AdoptSave
    BY <1>2, SaveOrStopType DEF AdoptSave, Points
<1>3. CASE Dump
    <2>1. pc' \in Points /\ faults' \in 0..MaxFaults /\ strays' \in Nat
        BY <1>3, FaultFact DEF Dump, Goto, TypeOK, Points
    <2>2. pos' \in Int /\ exits' \in Nat
        <3>1. ASSUME NEW done \in 0..Distance(pos), Move(pos - Sign(SideOf(pos)) * done)
              PROVE  pos' \in Int /\ exits' \in Nat
            <4>1. pos - Sign(SideOf(pos)) * done \in Int
                BY DistanceFacts, SignFacts DEF TypeOK
            <4> QED
                BY <3>1, <4>1, MoveFact
        <3> QED
            BY <1>3, <3>1 DEF Dump, TypeOK
    <2> QED
        BY <1>3, <2>1, <2>2 DEF Dump, TypeOK
<1>4. CASE Engage
    <2>1. pc' \in Points /\ faults' \in 0..MaxFaults
        BY <1>4, FaultFact DEF Engage, Goto, Fatal, Points
    <2>2. sent' \in {sent, 0} /\ ks' \in {ks, TRUE}
        BY <1>4, Zenon DEF Engage
    <2>3. sent' \in 0..2
        BY <2>2 DEF TypeOK
    <2>4. ks' \in BOOLEAN
        BY <2>2, Zenon DEF TypeOK
    <2>5. UNCHANGED <<row, st, breaker, stops, pos, resting, exits, strays, owed, blind, extra>>
        BY <1>4 DEF Engage
    <2> QED
        BY <2>1, <2>3, <2>4, <2>5 DEF TypeOK
<1>5. CASE CancelOrders
    <2>1. pc' \in Points /\ faults' \in 0..MaxFaults
        BY <1>5, FaultFact DEF CancelOrders, Goto, Points
    <2>2. resting' \in [Sides -> Nat] /\ exits' \in Nat
        BY <1>5 DEF CancelOrders, TypeOK
    <2> QED
        BY <1>5, <2>1, <2>2 DEF CancelOrders, TypeOK
<1>6. CASE Latch
    <2>1. pc' \in Points /\ faults' \in 0..MaxFaults
        BY <1>6, FaultFact DEF Latch, Goto, Skip, Points
    <2>2. row' \in Rows
        BY <1>6, RowFacts DEF Latch, TypeOK
    <2> QED
        BY <1>6, <2>1, <2>2 DEF Latch, TypeOK
<1> QED
    BY <1>1, <1>2, <1>3, <1>4, <1>5, <1>6

LEMMA BarType ==
    ASSUME TypeOK,
           Bar \/ NoEntry \/ Confirm \/ OpenedSave \/ NoExit \/ CloseSimulated \/ Book
               \/ Account \/ Finalize
    PROVE  TypeOK'
<1> USE DEF gates, exchange, history
<1>1. CASE Bar
    <2>1. pc' \in Points /\ faults' \in 0..MaxFaults
        BY <1>1, FaultFact DEF Bar, SaveAnd, Goto, Skip, Points
    <2>2. row' \in Rows
        BY <1>1, RowFacts DEF Bar, SaveAnd, TypeOK
    <2> QED
        BY <1>1, <2>1, <2>2 DEF Bar, TypeOK
<1>2. CASE NoEntry
    <2>1. pc' \in Points /\ faults' \in 0..MaxFaults
        BY <1>2, FaultFact DEF NoEntry, SaveAnd, Goto, Skip, Points
    <2>2. row' \in Rows
        BY <1>2 DEF NoEntry, SaveAnd, TypeOK
    <2> QED
        BY <1>2, <2>1, <2>2 DEF NoEntry, TypeOK
<1>3. CASE Confirm
    <2>1. pc' \in Points /\ faults' \in 0..MaxFaults
        BY <1>3, FaultFact DEF Confirm, Goto, Skip, Points
    <2>2. st' \in Rows
        BY <1>3, AdoptedFacts DEF Confirm, TypeOK
    <2> QED
        BY <1>3, <2>1, <2>2 DEF Confirm, TypeOK
<1>4. CASE OpenedSave
    BY <1>4, SaveOrStopType DEF OpenedSave, Points
<1>5. CASE NoExit \/ CloseSimulated
    BY <1>5, FaultFact DEF NoExit, CloseSimulated, Goto, TypeOK, Points
<1>6. CASE Book
    BY <1>6, FaultFact DEF Book, Goto, Skip, TypeOK, Points
<1>7. CASE Account
    <2>1. pc' \in Points /\ faults' \in 0..MaxFaults
        BY <1>7, FaultFact DEF Account, Goto, Fatal, Points
    <2>2. st' \in Rows
        <3>1. st.cfg \in Drifts
            BY DEF TypeOK, Rows
        <3>2. ASSUME NEW limit \in BOOLEAN, NEW paused \in {0, Pause},
                     NEW liquidated \in BOOLEAN,
                     st' = [Fresh EXCEPT !.dd = limit, !.paused = paused,
                                         !.killed = liquidated, !.cfg = st.cfg]
              PROVE  st' \in Rows
            BY <3>1, <3>2, FreshFacts
        <3> QED
            BY <1>7, <3>2 DEF Account, TypeOK
    <2>3. owed' \in {owed, FALSE}
        BY <1>7, Zenon DEF Account
    <2>4. owed' \in BOOLEAN
        BY <2>3, Zenon DEF TypeOK
    <2>5. UNCHANGED <<row, ks, breaker, stops, pos, resting, exits, strays, sent, blind, extra>>
        BY <1>7 DEF Account
    <2> QED
        BY <2>1, <2>2, <2>4, <2>5 DEF TypeOK
<1>8. CASE Finalize
    <2>1. pc' \in Points /\ faults' \in 0..MaxFaults
        BY <1>8, FaultFact DEF Finalize, SaveAnd, Goto, Skip, Points
    <2>2. row' \in Rows
        BY <1>8, RowFacts DEF Finalize, SaveAnd, TypeOK
    <2>3. extra' \in Int
        BY <1>8 DEF Finalize, TypeOK
    <2> QED
        BY <1>8, <2>1, <2>2, <2>3 DEF Finalize, TypeOK
<1> QED
    BY <1>1, <1>2, <1>3, <1>4, <1>5, <1>6, <1>7, <1>8

LEMMA OrderType ==
    ASSUME TypeOK,
           NEW s \in Sides, NEW done \in 0..Size, NEW reported \in 0..Size,
           NEW working \in 0..Size,
           Enter(s, done, reported, working) \/ EnterSimulated(s)
    PROVE  TypeOK'
<1> USE DEF gates, exchange
<1>0. blind' \in BOOLEAN
    <2>1. blind' = (blind \/ owed)
        BY Zenon DEF Enter, EnterSimulated
    <2> QED
        BY <2>1, Zenon DEF TypeOK
<1>1. CASE Enter(s, done, reported, working)
    <2>1. pc' \in Points /\ faults' \in 0..MaxFaults
        BY <1>1, FaultFact DEF Enter, Points
    <2>2. pos' \in Int /\ exits' \in Nat
        <3>1. pos + Sign(s) * done \in Int
            BY SignFacts, SizeAssumption DEF TypeOK
        <3> QED
            BY <1>1, <3>1, MoveFact DEF Enter
    <2>3. resting' \in [Sides -> Nat] /\ strays' \in Nat /\ sent' \in 0..2
        BY <1>1, SizeAssumption DEF Enter, TypeOK
    <2>4. st' \in Rows
        <3>1. st' = st \/ st' \in Opened(s, reported)
            BY <1>1, Zenon DEF Enter
        <3>2. reported \in Nat /\ st \in Rows
            BY SizeAssumption DEF TypeOK
        <3> QED
            BY <3>1, <3>2, OpenedFacts
    <2>5. UNCHANGED <<row, ks, breaker, stops, owed, extra>>
        BY <1>1 DEF Enter
    <2> QED
        BY <1>0, <2>1, <2>2, <2>3, <2>4, <2>5 DEF TypeOK
<1>2. CASE EnterSimulated(s)
    <2>1. pc' \in Points /\ faults' \in 0..MaxFaults
        BY <1>2, FaultFact DEF EnterSimulated, Goto, Points
    <2>2. st' \in Rows
        BY <1>2, OpenedFacts, SizeAssumption DEF EnterSimulated
    <2>3. UNCHANGED <<row, ks, breaker, stops, pos, resting, exits, strays, sent, owed, extra>>
        BY <1>2 DEF EnterSimulated
    <2> QED
        BY <1>0, <2>1, <2>2, <2>3 DEF TypeOK
<1> QED
    BY <1>1, <1>2

LEMMA CloseType ==
    ASSUME TypeOK,
           NEW done \in 0..Distance(pos), NEW reported \in 0..Distance(pos),
           NEW working \in 0..Distance(pos), Close(done, reported, working)
    PROVE  TypeOK'
<1>1. Distance(pos) \in Nat
    BY DistanceFacts DEF TypeOK
<1>2. pc' \in Points /\ faults' \in 0..MaxFaults
    BY FaultFact DEF Close, Points
<1>3. pos' \in Int /\ exits' \in Nat
    <2>1. Sign(st.side) \in {1, -1}
        BY DEF Sign
    <2>2. pos' = pos - Sign(st.side) * done /\ exits' = exits + working
        BY DEF Close
    <2> QED
        BY <1>1, <2>1, <2>2 DEF TypeOK
<1>4. owed' \in BOOLEAN
    <2>1. owed' = (owed \/ done = st.qty)
        BY Zenon DEF Close
    <2> QED
        BY <2>1, Zenon DEF TypeOK
<1>5. UNCHANGED <<row, st, ks, breaker, stops, resting, strays, sent, blind, extra>>
    BY DEF Close, gates
<1> QED
    BY <1>2, <1>3, <1>4, <1>5 DEF TypeOK

LEMMA WorldType ==
    ASSUME TypeOK, World
    PROVE  TypeOK'
<1> USE DEF proc, gates, exchange, history
<1>1. CASE Crash
    BY <1>1, FaultFact DEF Crash, TypeOK, Points
<1>2. CASE Liquidate
    <2>1. ASSUME NEW left \in 0..(Distance(pos) - 1), Move(Sign(SideOf(pos)) * left)
          PROVE  pos' \in Int /\ exits' \in Nat
        <3>1. Sign(SideOf(pos)) * left \in Int
            BY DistanceFacts, SignFacts DEF TypeOK
        <3> QED
            BY <2>1, <3>1, MoveFact
    <2> QED
        BY <1>2, <2>1, FaultFact DEF Liquidate, TypeOK
<1>3. CASE ExitFill
    <2>1. pos' \in Int /\ exits' \in Nat
        BY <1>3, DistanceFacts, SignFacts DEF ExitFill, TypeOK
    <2> QED
        BY <1>3, <2>1 DEF ExitFill, TypeOK
<1>4. ASSUME NEW s \in Sides, RestingFill(s) PROVE TypeOK'
    <2>1. pos + Sign(s) \in Int
        BY SignFacts DEF TypeOK
    <2>2. pos' \in Int /\ exits' \in Nat
        BY <1>4, <2>1, MoveFact DEF RestingFill
    <2>3. resting' \in [Sides -> Nat]
        BY <1>4 DEF RestingFill, TypeOK
    <2> QED
        BY <1>4, <2>2, <2>3 DEF RestingFill, TypeOK
<1>5. CASE OperatorEngage
    BY <1>5, BoundsAssumption DEF OperatorEngage, TypeOK
<1>6. CASE BreakerTrips
    BY <1>6, BoundsAssumption DEF BreakerTrips, TypeOK
<1>7. CASE OperatorDisengage
    BY <1>7 DEF OperatorDisengage, TypeOK
<1>8. CASE NextDay
    BY <1>8 DEF NextDay, TypeOK
<1> QED
    BY <1>1, <1>2, <1>3, <1>4, <1>5, <1>6, <1>7, <1>8 DEF World

LEMMA TypeStep == TypeOK /\ [Next]_vars => TypeOK'
<1> SUFFICES ASSUME TypeOK, [Next]_vars PROVE TypeOK'
    OBVIOUS
<1>1. CASE Start
    <2>1. faults' \in 0..MaxFaults
        BY <1>1, FaultFact DEF Start
    <2> QED
        BY <1>1, <2>1, StartFacts DEF Start, TypeOK, Points, gates, exchange, history
<1>2. CASE Iteration
    BY <1>2, GateType, ReconcileType, BarType, OrderType, CloseType, SizeAssumption
    DEF Iteration
<1>3. CASE World
    BY <1>3, WorldType
<1>4. CASE UNCHANGED vars
    BY <1>4 DEF vars, TypeOK
<1> QED
    BY <1>1, <1>2, <1>3, <1>4 DEF Next

THEOREM TypeInit == Init => TypeOK
<1> SUFFICES ASSUME Init PROVE TypeOK
    OBVIOUS
<1>1. row \in Rows /\ st \in Rows
    BY FreshFacts DEF Init
<1>2. resting \in [Sides -> Nat]
    BY DEF Init
<1>3. stops \in 0..MaxStops /\ faults \in 0..MaxFaults
    BY BoundsAssumption DEF Init
<1>4. pos \in Int /\ exits \in Nat /\ strays \in Nat /\ sent \in 0..2 /\ extra \in Int
    BY DEF Init
<1>5. pc \in Points
    BY DEF Init, Points
<1>6. ks \in BOOLEAN /\ breaker \in BOOLEAN /\ owed \in BOOLEAN /\ blind \in BOOLEAN
    BY Zenon DEF Init
<1> QED
    BY <1>1, <1>2, <1>3, <1>4, <1>5, <1>6 DEF TypeOK

\* Every variable keeps its type, whatever the entry size, pause and bounds.
THEOREM TypeCorrect == Spec => []TypeOK
BY TypeInit, TypeStep, PTL DEF Spec

-----------------------------------------------------------------------------
(* Control: what the program counter says about the row and its copy.      *)

\* Between loading the row and changing its copy the two are the same.
SyncedPoints ==
    {"gate", "candles", "reconcile", "dump", "engage", "cancel", "latch", "switch",
     "breaker", "bar", "entry", "confirm", "position", "book", "account"}
Synced == pc \in SyncedPoints => st = row

\* Past guardKilledGridState the row is not killed, and the copy only becomes
\* so by the liquidation that finalizeGridBar is about to save.
Released ==
    /\ pc \notin {"down", "idle", "gate"} => ~row.killed
    /\ pc \notin {"down", "idle", "gate", "finalize"} => ~st.killed

\* Each branch of the bar runs on the rows it is for.
BranchSide ==
    /\ pc \in {"entry", "confirm"} => st.side = "flat"
    /\ pc \in {"position", "book", "account"} => st.side # "flat"
    /\ pc \in {"adopt", "opened"} => row.side = "flat" /\ st.side # "flat"

ControlInv == Synced /\ Released /\ BranchSide

\* saveGridStateWithRetry, from adopt and from opened.
LEMMA ControlSave ==
    ASSUME TypeOK, ControlInv, AdoptSave \/ OpenedSave
    PROVE  ControlInv'
BY DEF ControlInv, Synced, SyncedPoints, Released, BranchSide, AdoptSave, OpenedSave,
       SaveOrStop, Goto, Skip, Fatal

LEMMA ControlGates ==
    ASSUME TypeOK, ControlInv,
           Load \/ Gate \/ Candles \/ Reconcile \/ Dump \/ Engage \/ CancelOrders \/ Latch
                \/ CheckSwitch \/ CheckBreaker
    PROVE  ControlInv'
<1> USE DEF ControlInv, Synced, SyncedPoints, Released, BranchSide, Goto, Skip, Fatal
<1>1. CASE Load
    BY <1>1, LoadFacts
<1>2. CASE Gate
    BY <1>2 DEF Gate, TypeOK, Rows
<1>3. CASE Candles \/ CheckSwitch \/ CheckBreaker
    BY <1>3 DEF Candles, CheckSwitch, CheckBreaker
<1>4. CASE Reconcile
    BY <1>4, AdoptedFacts DEF Reconcile
<1>5. CASE Dump
    BY <1>5 DEF Dump
<1>6. CASE Engage \/ CancelOrders
    BY <1>6 DEF Engage, CancelOrders
<1>7. CASE Latch
    BY <1>7 DEF Latch
<1> QED
    BY <1>1, <1>2, <1>3, <1>4, <1>5, <1>6, <1>7

LEMMA ControlBar ==
    ASSUME TypeOK, ControlInv,
           Bar \/ NoEntry \/ Confirm \/ NoExit \/ CloseSimulated \/ Book \/ Account
               \/ Finalize
    PROVE  ControlInv'
<1> USE DEF ControlInv, Synced, SyncedPoints, Released, BranchSide, Goto, Skip, Fatal,
            SaveAnd
<1>1. CASE Bar
    BY <1>1 DEF Bar
<1>2. CASE NoEntry
    BY <1>2 DEF NoEntry
<1>3. CASE Confirm
    BY <1>3, AdoptedFacts DEF Confirm
<1>4. CASE NoExit \/ CloseSimulated \/ Book
    BY <1>4 DEF NoExit, CloseSimulated, Book
<1>5. CASE Account
    BY <1>5 DEF Account
<1>6. CASE Finalize
    BY <1>6 DEF Finalize
<1> QED
    BY <1>1, <1>2, <1>3, <1>4, <1>5, <1>6

LEMMA ControlOrders ==
    ASSUME TypeOK, ControlInv,
           \/ \E s \in Sides, done, reported, working \in 0..Size :
                 Enter(s, done, reported, working)
           \/ \E s \in Sides : EnterSimulated(s)
           \/ \E done, reported, working \in 0..Distance(pos) :
                 Close(done, reported, working)
    PROVE  ControlInv'
<1> USE DEF ControlInv, Synced, SyncedPoints, Released, BranchSide, Goto
<1>1. ASSUME NEW s \in Sides, NEW done \in 0..Size, NEW reported \in 0..Size,
             NEW working \in 0..Size, Enter(s, done, reported, working)
      PROVE  ControlInv'
    <2>1. /\ pc = "entry" /\ row' = row
          /\ \/ st' \in Opened(s, reported) /\ pc' = "opened"
             \/ st' = st /\ pc' = "confirm"
        BY <1>1 DEF Enter
    <2>2. st' \in Opened(s, reported) => st'.side # "flat" /\ st'.killed = st.killed
        BY OpenedFacts, SizeAssumption DEF Sides
    <2> QED
        BY <2>1, <2>2
<1>2. ASSUME NEW s \in Sides, EnterSimulated(s)
      PROVE  ControlInv'
    <2>1. st'.side # "flat" /\ st'.killed = st.killed
        BY <1>2, OpenedFacts, SizeAssumption DEF EnterSimulated, Sides
    <2> QED
        BY <1>2, <2>1 DEF EnterSimulated
<1>3. ASSUME NEW done \in 0..Distance(pos), NEW reported \in 0..Distance(pos),
             NEW working \in 0..Distance(pos), Close(done, reported, working)
      PROVE  ControlInv'
    <2>1. pc = "position" /\ row' = row /\ st' = st /\ pc' \in {"book", "idle"}
        BY <1>3 DEF Close
    <2> QED
        BY <2>1
<1> QED
    BY <1>1, <1>2, <1>3

\* What moves around the process leaves it alone, unless it kills it.
LEMMA WorldAndProcess ==
    ASSUME World
    PROVE  /\ UNCHANGED <<row, st>>
           /\ UNCHANGED pc \/ pc' = "down"
BY DEF World, Crash, Liquidate, ExitFill, RestingFill, OperatorEngage, OperatorDisengage,
       BreakerTrips, NextDay, proc

LEMMA ControlStep == TypeOK /\ ControlInv /\ [Next]_vars => ControlInv'
<1> SUFFICES ASSUME TypeOK, ControlInv, [Next]_vars PROVE ControlInv'
    OBVIOUS
<1> USE DEF ControlInv, Synced, SyncedPoints, Released, BranchSide
<1>1. CASE Start
    BY <1>1, StartFacts
<1>2. CASE Iteration
    BY <1>2, ControlSave, ControlGates, ControlBar, ControlOrders DEF Iteration
<1>3. CASE World
    BY <1>3, WorldAndProcess
<1>4. CASE UNCHANGED vars
    BY <1>4 DEF vars
<1> QED
    BY <1>1, <1>2, <1>3, <1>4 DEF Next

THEOREM ControlInvariant == Spec => [](TypeOK /\ ControlInv)
<1>1. Init => ControlInv
    BY DEF Init, ControlInv, Synced, SyncedPoints, Released, BranchSide
<1> QED
    BY <1>1, TypeInit, TypeStep, ControlStep, PTL DEF Spec

-----------------------------------------------------------------------------
(* The promise of PositionRow.                                             *)

\* A copy of the row counts what it holds, and about to be finalized it still is
\* the recorded position, a closed one or, from a flat row, a new one.
Counted(r) == r.side = "flat" <=> r.qty = 0
PositionInv ==
    /\ Counted(row) /\ Counted(st)
    /\ pc = "finalize" /\ row.side # "flat" =>
          st.side = "flat" \/ (st.side = row.side /\ st.qty = row.qty)

LEMMA AdoptedCounted ==
    ASSUME TypeOK, pos # 0, NEW r \in Adopted
    PROVE  r.side # "flat" /\ r.qty # 0
<1>1. Distance(pos) # 0
    BY DEF Distance, TypeOK
<1> QED
    BY <1>1, AdoptedFacts

LEMMA PositionInvStep == TypeOK /\ ControlInv /\ PositionInv /\ [Next]_vars => PositionInv'
<1> SUFFICES ASSUME TypeOK, ControlInv, PositionInv, [Next]_vars PROVE PositionInv'
    OBVIOUS
<1> USE DEF PositionInv, Counted, ControlInv, Synced, SyncedPoints, Released, BranchSide,
            Goto, Skip, Fatal
<1>0. CASE Start
    BY <1>0, StartFacts
<1>1. CASE Load
    BY <1>1, LoadFacts
<1>2. CASE Gate
    BY <1>2 DEF Gate, TypeOK, Rows
<1>3. CASE Candles \/ CheckSwitch \/ CheckBreaker \/ Engage \/ CancelOrders
    BY <1>3 DEF Candles, CheckSwitch, CheckBreaker, Engage, CancelOrders
<1>4. CASE Reconcile \/ Confirm
    BY <1>4, AdoptedCounted DEF Reconcile, Confirm
<1>5. CASE AdoptSave \/ OpenedSave
    BY <1>5 DEF AdoptSave, OpenedSave, SaveOrStop
<1>6. CASE Dump
    BY <1>6 DEF Dump
<1>7. CASE Latch
    BY <1>7 DEF Latch, TypeOK, Rows
<1>8. CASE Bar
    BY <1>8 DEF Bar, SaveAnd, TypeOK, Rows
<1>9. CASE NoEntry
    BY <1>9 DEF NoEntry, SaveAnd
<1>10. ASSUME NEW s \in Sides, NEW done \in 0..Size, NEW reported \in 0..Size,
              NEW working \in 0..Size, Enter(s, done, reported, working)
       PROVE  PositionInv'
    <2>1. UNCHANGED row /\ pc' # "finalize"
        BY <1>10 DEF Enter
    <2>2. st' = st \/ (reported > 0 /\ st' \in Opened(s, reported))
        BY <1>10 DEF Enter
    <2>3. s # "flat"
        BY DEF Sides
    <2>4. st'.side = "flat" <=> st'.qty = 0
        <3>1. CASE st' = st
            BY <3>1
        <3>2. CASE reported > 0 /\ st' \in Opened(s, reported)
            <4>1. st'.side = s /\ st'.qty = reported
                BY <3>2, OpenedFacts, SizeAssumption
            <4>2. reported # 0
                BY <3>2
            <4> QED
                BY <2>3, <4>1, <4>2
        <3> QED
            BY <2>2, <3>1, <3>2
    <2>5. row'.side = "flat" <=> row'.qty = 0
        BY <2>1
    <2> QED
        BY <2>1, <2>4, <2>5, Zenon
<1>11. ASSUME NEW s \in Sides, EnterSimulated(s) PROVE PositionInv'
    <2>1. st'.side = s /\ st'.qty = Size
        BY <1>11, OpenedFacts, SizeAssumption DEF EnterSimulated
    <2> QED
        BY <1>11, <2>1, SizeAssumption DEF EnterSimulated, Sides
<1>12. CASE NoExit \/ CloseSimulated \/ Book
    BY <1>12 DEF NoExit, CloseSimulated, Book
<1>13. CASE Account
    BY <1>13 DEF Account, Fresh
<1>14. CASE Finalize
    BY <1>14 DEF Finalize, SaveAnd, TypeOK, Rows
<1>15. ASSUME NEW done, NEW reported, NEW working, Close(done, reported, working)
       PROVE  PositionInv'
    BY <1>15 DEF Close
<1>16. CASE World
    BY <1>16, WorldAndProcess
<1>17. CASE UNCHANGED vars
    BY <1>17 DEF vars
<1> QED
    BY <1>0, <1>1, <1>2, <1>3, <1>4, <1>5, <1>6, <1>7, <1>8, <1>9, <1>10, <1>11, <1>12, <1>13,
       <1>14, <1>15, <1>16, <1>17 DEF Next, Iteration

LEMMA PositionStep ==
    ASSUME TypeOK, ControlInv, PositionInv, [Next]_vars
    PROVE  [Position!Next]_(Position!vars)
<1> USE DEF ControlInv, Synced, SyncedPoints, Released, BranchSide, Goto, Skip, Fatal,
            Position!vars
<1>1. CASE UNCHANGED <<row.side, row.qty, row.killed>>
    BY <1>1
<1>0. CASE Load /\ ~UNCHANGED <<row.side, row.qty, row.killed>>
    <2>1. /\ row.side = "flat" /\ row.qty = 0 /\ row'.side = "flat" /\ row'.qty = 0
          /\ ~row'.killed
        BY <1>0, LoadFacts DEF PositionInv, Counted
    <2>2. row.killed \in BOOLEAN /\ row'.killed \in BOOLEAN
        BY <1>0, LoadFacts DEF TypeOK, Rows
    <2>3. row.killed /\ row'.killed = FALSE
        BY <1>0, <2>1, <2>2
    <2>4. Position!Release
        BY <2>1, <2>3 DEF Position!Release
    <2> QED
        BY <2>4 DEF Position!Next
<1>2. CASE Gate /\ ~UNCHANGED row
    <2>1. row.side = "flat" /\ row.killed /\ row' = [row EXCEPT !.killed = FALSE]
        BY <1>2 DEF Gate
    <2>2. Position!Release
        BY <2>1 DEF Position!Release, TypeOK, Rows
    <2> QED
        BY <2>2 DEF Position!Next
<1>3. CASE (AdoptSave \/ OpenedSave) /\ row' = st /\ pc \in {"adopt", "opened"}
    <2>1. row.side = "flat" /\ ~row.killed /\ st.side # "flat" /\ st.qty # 0
        BY <1>3 DEF PositionInv, Counted
    <2>2. st.side \in Sides /\ st.qty \in Nat \ {0} /\ st.killed \in BOOLEAN
        BY <2>1 DEF TypeOK, Rows
    <2>3. Position!Open
        BY <1>3, <2>1, <2>2 DEF Position!Open
    <2> QED
        BY <2>3 DEF Position!Next
<1>4. CASE Latch /\ row' = [st EXCEPT !.killed = TRUE]
    <2>1. st = row /\ ~row.killed
        BY <1>4 DEF Latch
    <2>2. Position!Latch
        BY <1>4, <2>1 DEF Position!Latch, TypeOK, Rows
    <2> QED
        BY <2>2 DEF Position!Next
<1>5. CASE Finalize /\ row' = [st EXCEPT !.killed = @ \/ st.dd] /\ pc = "finalize"
    <2>1. /\ row'.side = st.side /\ row'.qty = st.qty /\ row'.killed \in BOOLEAN
          /\ ~row.killed
        BY <1>5, RowFacts DEF TypeOK, Rows
    <2>2. Counted(row) /\ Counted(st)
        BY DEF PositionInv
    <2>3. CASE row.side = "flat" /\ st.side # "flat"
        <3>1. st.side \in Sides /\ st.qty \in Nat \ {0}
            BY <2>2, <2>3 DEF TypeOK, Rows, Counted
        <3>2. Position!Open
            BY <2>1, <2>3, <3>1 DEF Position!Open
        <3> QED
            BY <3>2 DEF Position!Next
    <2>4. CASE row.side # "flat" /\ st.side = "flat"
        <3>1. Position!Close
            BY <2>1, <2>2, <2>4 DEF Position!Close, Counted
        <3> QED
            BY <3>1 DEF Position!Next
    <2>5. CASE st.side = row.side /\ st.qty = row.qty
        <3>1. row'.killed = TRUE \/ row'.killed = row.killed
            BY <2>1 DEF TypeOK, Rows
        <3>2. Position!Latch \/ UNCHANGED <<row.side, row.qty, row.killed>>
            BY <2>1, <2>5, <3>1 DEF Position!Latch
        <3> QED
            BY <3>2 DEF Position!Next
    <2>6. \/ row.side = "flat" /\ st.side # "flat"
          \/ row.side # "flat" /\ st.side = "flat"
          \/ st.side = row.side /\ st.qty = row.qty
        BY <1>5, <2>2 DEF PositionInv, Counted
    <2> QED
        BY <2>3, <2>4, <2>5, <2>6
<1>6. \/ UNCHANGED <<row.side, row.qty, row.killed>>
      \/ Load /\ ~UNCHANGED <<row.side, row.qty, row.killed>>
      \/ Gate /\ ~UNCHANGED row
      \/ (AdoptSave \/ OpenedSave) /\ row' = st /\ pc \in {"adopt", "opened"}
      \/ Latch /\ row' = [st EXCEPT !.killed = TRUE]
      \/ Finalize /\ row' = [st EXCEPT !.killed = @ \/ st.dd] /\ pc = "finalize"
    <2>1. CASE UNCHANGED row
        BY <2>1
    <2>2. CASE Bar \/ NoEntry
        <3>1. row' = row \/ row' = st \/ row' = [st EXCEPT !.paused = @ - 1]
            BY <2>2 DEF Bar, NoEntry, SaveAnd
        <3>2. st = row
            BY <2>2 DEF Bar, NoEntry, SaveAnd
        <3> QED
            BY <3>1, <3>2 DEF TypeOK, Rows
    <2>3. CASE AdoptSave \/ OpenedSave
        BY <2>1, <2>3 DEF AdoptSave, OpenedSave, SaveOrStop
    <2>4. CASE Gate
        BY <2>1, <2>4
    <2>5. CASE Latch
        BY <2>1, <2>5 DEF Latch
    <2>6. CASE Finalize
        BY <2>1, <2>6 DEF Finalize, SaveAnd
    <2>7. CASE World
        BY <2>1, <2>7, WorldAndProcess
    <2>9. CASE Start
        BY <2>9, StartFacts
    <2>10. CASE Load
        BY <2>10
    <2>8. CASE ~World /\ ~Bar /\ ~NoEntry /\ ~AdoptSave /\ ~OpenedSave /\ ~Gate /\ ~Latch
               /\ ~Finalize /\ ~Start /\ ~Load
        <3>1. UNCHANGED row
            BY <2>8 DEF Next, Iteration, Candles, Reconcile, Dump, Engage,
               CancelOrders, CheckSwitch, CheckBreaker, Confirm, Enter, EnterSimulated,
               NoExit, CloseSimulated, Book, Account, Close, vars
        <3> QED
            BY <2>1, <3>1
    <2> QED
        BY <2>2, <2>3, <2>4, <2>5, <2>6, <2>7, <2>8, <2>9, <2>10
<1> QED
    BY <1>0, <1>1, <1>2, <1>3, <1>4, <1>5, <1>6

\* The engine, live and simulated, implements PositionRow: to a reader of the
\* database its recorded position is opened, closed or latched as a whole.
THEOREM ImplementsPositionRow == Spec => KeepsPositionRow
<1>1. Init => PositionInv /\ Position!Init
    BY DEF Init, PositionInv, Counted, Position!Init, Fresh
<1>2. TypeOK /\ ControlInv /\ PositionInv /\ [Next]_vars => [Position!Next]_(Position!vars)
    BY PositionStep
<1> QED
    BY <1>1, <1>2, PositionInvStep, ControlInvariant, PTL
    DEF Spec, KeepsPositionRow, Position!Spec

-----------------------------------------------------------------------------
(* Entries after a stop.                                                   *)

\* With the switch on, the one entry is still to be sent only by a process
\* that passed the gate before.  A simulated one, which passes no gate, sends none.
Window == {"breaker", "bar", "entry"}
SentInv ==
    /\ ks => sent = 0 \/ (sent = 1 /\ pc \notin Window)
    /\ ~Live => sent = 0

LEMMA SentIteration == TypeOK /\ SentInv /\ Iteration => SentInv'
<1> SUFFICES ASSUME TypeOK, SentInv, Iteration PROVE SentInv'
    OBVIOUS
<1> USE DEF SentInv, Window, Goto, Skip, Fatal, SaveAnd, gates, history
<1>1. CASE Load \/ Gate \/ Candles \/ Reconcile
    <2>1. UNCHANGED <<ks, sent>>
        BY <1>1 DEF Load, Gate, Candles, Reconcile
    <2>2. pc' \notin {"breaker", "entry"} /\ (pc' = "bar" => ~Live)
        BY <1>1 DEF Load, Gate, Candles, Reconcile
    <2> QED
        BY <2>1, <2>2
<1>2. CASE Dump
    <2>1. sent' = sent /\ ks' = ks /\ pc' \in {"switch", "engage"}
        BY <1>2 DEF Dump
    <2> QED
        BY <2>1
<1>3. CASE CancelOrders \/ Latch
    BY <1>3 DEF CancelOrders, Latch
<1>4. CASE AdoptSave \/ OpenedSave
    BY <1>4 DEF AdoptSave, OpenedSave, SaveOrStop
<1>5. CASE Engage
    BY <1>5 DEF Engage
<1>6. CASE CheckSwitch \/ CheckBreaker
    BY <1>6 DEF CheckSwitch, CheckBreaker
<1>7. CASE Bar \/ NoEntry \/ Confirm \/ NoExit \/ CloseSimulated
    BY <1>7 DEF Bar, NoEntry, Confirm, NoExit, CloseSimulated
<1>8. CASE Book \/ Account \/ Finalize
    <2>1. UNCHANGED <<ks, sent>> /\ pc' \notin Window
        BY <1>8 DEF Book, Account, Finalize
    <2> QED
        BY <2>1
<1>9. ASSUME NEW s \in Sides, NEW done \in 0..Size, NEW reported \in 0..Size,
             NEW working \in 0..Size, Enter(s, done, reported, working)
      PROVE  SentInv'
    <2>1. /\ Live /\ pc = "entry" /\ ks' = ks /\ pc' \in {"opened", "confirm"}
          /\ sent' = IF ks /\ sent < 2 THEN sent + 1 ELSE sent
        BY <1>9 DEF Enter
    <2> QED
        BY <2>1
<1>10. ASSUME NEW s \in Sides, EnterSimulated(s)
      PROVE  SentInv'
    BY <1>10 DEF EnterSimulated
<1>11. ASSUME NEW done \in 0..Distance(pos), NEW reported \in 0..Distance(pos),
             NEW working \in 0..Distance(pos), Close(done, reported, working)
      PROVE  SentInv'
    <2>1. sent' = sent /\ ks' = ks /\ pc' \in {"book", "idle"}
        BY <1>11 DEF Close
    <2> QED
        BY <2>1
<1> QED
    BY <1>1, <1>2, <1>3, <1>4, <1>5, <1>6, <1>7, <1>8, <1>9, <1>10, <1>11 DEF Iteration

LEMMA SentStep == TypeOK /\ SentInv /\ [Next]_vars => SentInv'
<1> SUFFICES ASSUME TypeOK, SentInv, [Next]_vars PROVE SentInv'
    OBVIOUS
<1> USE DEF SentInv, Window, gates, proc, history
<1>1. CASE Start
    BY <1>1 DEF Start
<1>2. CASE Iteration
    BY <1>2, SentIteration
<1>3. CASE World
    BY <1>3 DEF World, Crash, Liquidate, ExitFill, RestingFill, OperatorEngage,
       OperatorDisengage, BreakerTrips, NextDay
<1>4. CASE UNCHANGED vars
    BY <1>4 DEF vars
<1> QED
    BY <1>1, <1>2, <1>3, <1>4 DEF Next

\* After an engaged switch at most one entry goes out, whoever engaged it.
THEOREM OneEntryAfterStop == Spec => []AtMostOneEntryAfterStop
<1>1. Init => SentInv
    BY DEF Init, SentInv
<1>2. SentInv => AtMostOneEntryAfterStop
    BY DEF SentInv, AtMostOneEntryAfterStop
<1> QED
    BY <1>1, <1>2, TypeInit, TypeStep, SentStep, PTL DEF Spec

-----------------------------------------------------------------------------
(* The breaker and the ledger.                                             *)

\* A close the breaker was not told of stays in the row: it is not cleared
\* before it is told, and an entry needs a flat row.
OwedInv ==
    /\ owed => row.side # "flat" /\ (pc = "finalize" => st.side # "flat")
    /\ ~blind

LEMMA OwedStep == TypeOK /\ ControlInv /\ OwedInv /\ [Next]_vars => OwedInv'
<1> SUFFICES ASSUME TypeOK, ControlInv, OwedInv, [Next]_vars PROVE OwedInv'
    OBVIOUS
<1> USE DEF OwedInv, ControlInv, Synced, SyncedPoints, BranchSide, Goto, Skip, Fatal,
            SaveAnd, history
<1>0. CASE Start \/ Load
    <2>1. row'.side = row.side /\ owed' = owed /\ blind' = blind /\ pc' # "finalize"
        BY <1>0, StartFacts, LoadFacts DEF Start, Load
    <2> QED
        BY <2>1
<1>1. CASE Candles \/ Reconcile \/ Dump \/ Engage \/ CancelOrders
           \/ CheckSwitch \/ CheckBreaker
    BY <1>1 DEF Candles, Reconcile, Dump, Engage, CancelOrders, CheckSwitch, CheckBreaker
<1>2. CASE AdoptSave \/ OpenedSave
    BY <1>2 DEF AdoptSave, OpenedSave, SaveOrStop
<1>3. CASE Gate \/ Latch \/ Bar
    <2>1. /\ row'.side = row.side /\ pc' # "finalize"
          /\ owed' = owed /\ blind' = blind
        BY <1>3 DEF Gate, Latch, Bar, TypeOK, Rows
    <2> QED
        BY <2>1
<1>4. CASE NoEntry \/ Confirm \/ NoExit \/ CloseSimulated \/ Book
    BY <1>4 DEF NoEntry, Confirm, NoExit, CloseSimulated, Book
<1>5. CASE Account
    <2>1. /\ UNCHANGED <<row, blind>> /\ pc = "account"
          /\ (UNCHANGED owed /\ pc' = "down") \/ ~owed'
        BY <1>5, Zenon DEF Account
    <2> QED
        BY <2>1
<1>6. CASE Finalize
    BY <1>6 DEF Finalize, TypeOK, Rows
<1>7. ASSUME NEW s \in Sides, NEW done \in 0..Size, NEW reported \in 0..Size,
             NEW working \in 0..Size, Enter(s, done, reported, working)
      PROVE  OwedInv'
    <2>1. /\ pc = "entry" /\ row' = row /\ owed' = owed /\ blind' = (blind \/ owed)
          /\ pc' # "finalize"
        BY <1>7 DEF Enter
    <2> QED
        BY <2>1
<1>8. ASSUME NEW s \in Sides, EnterSimulated(s)
      PROVE  OwedInv'
    BY <1>8 DEF EnterSimulated
<1>9. ASSUME NEW done \in 0..Distance(pos), NEW reported \in 0..Distance(pos),
             NEW working \in 0..Distance(pos), Close(done, reported, working)
      PROVE  OwedInv'
    <2>1. pc = "position" /\ row' = row /\ blind' = blind /\ pc' \in {"book", "idle"}
        BY <1>9 DEF Close
    <2> QED
        BY <2>1
<1>10. CASE World
    <2>1. owed' = owed /\ blind' = blind
        BY <1>10 DEF World, Crash, Liquidate, ExitFill, RestingFill, OperatorEngage,
           OperatorDisengage, BreakerTrips, NextDay
    <2> QED
        BY <1>10, <2>1, WorldAndProcess
<1>11. CASE UNCHANGED vars
    BY <1>11 DEF vars
<1> QED
    BY <1>0, <1>1, <1>2, <1>3, <1>4, <1>5, <1>6, <1>7, <1>8, <1>9, <1>10, <1>11
    DEF Next, Iteration

\* Whatever fails or dies between the order and the breaker's record, no entry
\* follows a close the breaker was not told of.
THEOREM ExitBeforeEntry == Spec => []ExitAccountedBeforeEntry
<1>1. Init => OwedInv
    BY DEF Init, OwedInv
<1>2. OwedInv => ExitAccountedBeforeEntry
    BY DEF OwedInv, ExitAccountedBeforeEntry
<1> QED
    BY <1>1, <1>2, ControlInvariant, OwedStep, PTL DEF Spec

\* The one recorded trade whose close is still to be saved.
Pending == pc = "account" \/ (pc = "finalize" /\ row.side # "flat" /\ st.side = "flat")

LedgerInv ==
    /\ 0 <= extra /\ (Pending => 1 <= extra)
    /\ extra <= faults + (IF Pending THEN 1 ELSE 0)

LEMMA LedgerQuiet ==
    ASSUME TypeOK, LedgerInv, ~Pending', extra' = extra,
           \/ ~Pending /\ faults' \in {faults, faults + 1}
           \/ faults' = faults + 1
    PROVE  LedgerInv'
BY BoundsAssumption DEF LedgerInv, TypeOK

LEMMA LedgerStep ==
    TypeOK /\ ControlInv /\ LedgerInv /\ [Next]_vars => LedgerInv'
<1> SUFFICES ASSUME TypeOK, ControlInv, LedgerInv, [Next]_vars PROVE LedgerInv'
    OBVIOUS
<1> USE DEF Pending, ControlInv, Synced, SyncedPoints, BranchSide, Goto, Skip, Fatal,
            NoFault, Fault, SaveAnd, history
<1>0. faults \in Nat /\ extra \in Int
    BY BoundsAssumption DEF TypeOK
<1>1. CASE Start \/ Load \/ Gate \/ Candles \/ Reconcile \/ Dump \/ Engage \/ CancelOrders
           \/ Latch \/ CheckSwitch \/ CheckBreaker
    BY <1>1, LedgerQuiet DEF Start, Load, Gate, Candles, Reconcile, Dump, Engage,
       CancelOrders, Latch, CheckSwitch, CheckBreaker
<1>2. CASE AdoptSave \/ OpenedSave
    BY <1>2, LedgerQuiet DEF AdoptSave, OpenedSave, SaveOrStop
<1>3. CASE Bar \/ NoEntry \/ Confirm \/ NoExit \/ CloseSimulated
    BY <1>3, LedgerQuiet DEF Bar, NoEntry, Confirm, NoExit, CloseSimulated
<1>4. CASE Book
    <2>1. CASE pc' = "account"
        <3>1. pc = "book" /\ extra' = extra + 1 /\ faults' = faults
            BY <1>4, <2>1 DEF Book
        <3> QED
            BY <1>0, <2>1, <3>1 DEF LedgerInv
    <2>2. CASE pc' # "account"
        BY <1>4, <2>2, LedgerQuiet DEF Book
    <2> QED
        BY <2>1, <2>2
<1>5. CASE Account
    <2>1. CASE pc' = "finalize"
        <3>1. /\ pc = "account" /\ extra' = extra /\ faults' = faults
              /\ row' = row /\ row.side # "flat" /\ st'.side = "flat"
            BY <1>5, <2>1 DEF Account, Fresh
        <3> QED
            BY <1>0, <2>1, <3>1 DEF LedgerInv
    <2>2. CASE pc' # "finalize"
        BY <1>5, <2>2, LedgerQuiet DEF Account
    <2> QED
        BY <2>1, <2>2
<1>6. CASE Finalize
    <2>1. CASE row.side # "flat" /\ row'.side = "flat"
        <3>1. /\ pc = "finalize" /\ pc' = "idle" /\ st.side = "flat"
              /\ extra' = extra - 1 /\ faults' = faults
            BY <1>6, <2>1 DEF Finalize, TypeOK, Rows
        <3> QED
            BY <1>0, <2>1, <3>1 DEF LedgerInv
    <2>2. CASE ~(row.side # "flat" /\ row'.side = "flat")
        <3>1. /\ pc' = "idle" /\ extra' = extra
              /\ \/ faults' = faults + 1
                 \/ ~Pending /\ faults' = faults
            BY <1>6, <2>2 DEF Finalize, TypeOK, Rows
        <3> QED
            BY <3>1, LedgerQuiet
    <2> QED
        BY <2>1, <2>2
<1>7. ASSUME NEW s \in Sides, NEW done \in 0..Size, NEW reported \in 0..Size,
             NEW working \in 0..Size, Enter(s, done, reported, working)
      PROVE  LedgerInv'
    BY <1>7, LedgerQuiet DEF Enter
<1>8. ASSUME NEW s \in Sides, EnterSimulated(s)
      PROVE  LedgerInv'
    BY <1>8, LedgerQuiet DEF EnterSimulated, Sides
<1>9. ASSUME NEW done \in 0..Distance(pos), NEW reported \in 0..Distance(pos),
             NEW working \in 0..Distance(pos), Close(done, reported, working)
      PROVE  LedgerInv'
    BY <1>9, LedgerQuiet DEF Close
<1>10. CASE World
    <2>1. /\ extra' = extra
          /\ \/ faults' = faults + 1 /\ pc' = "down"
             \/ faults' \in {faults, faults + 1} /\ UNCHANGED <<row, st, pc>>
        BY <1>10 DEF World, Crash, Liquidate, ExitFill, RestingFill, OperatorEngage,
           OperatorDisengage, BreakerTrips, NextDay, proc
    <2>2. CASE pc' = "down"
        BY <2>1, <2>2, LedgerQuiet
    <2>3. CASE UNCHANGED <<row, st, pc>>
        BY <1>0, <2>1, <2>3 DEF LedgerInv
    <2> QED
        BY <2>1, <2>2, <2>3
<1>11. CASE UNCHANGED vars
    BY <1>11 DEF vars, LedgerInv
<1> QED
    BY <1>1, <1>2, <1>3, <1>4, <1>5, <1>6, <1>7, <1>8, <1>9, <1>10, <1>11
    DEF Next, Iteration

\* The capital never holds a close the ledger does not have, and the ledger is
\* ahead by at most one trade for each failure.
THEOREM LedgerCovers == Spec => []LedgerCoversCapital
<1>1. Init => LedgerInv
    BY DEF Init, LedgerInv, Pending
<1>2. TypeOK /\ LedgerInv => LedgerCoversCapital
    BY BoundsAssumption DEF LedgerInv, Pending, LedgerCoversCapital, TypeOK
<1> QED
    BY <1>1, <1>2, ControlInvariant, LedgerStep, PTL DEF Spec

-----------------------------------------------------------------------------
(* Exposure.  The bound on |position| + working lots is not inductive: the  *)
(* signed sums are, each with one entry of room, and with none between the *)
(* gates and the entry, where the exchange was seen flat.                  *)

Working == resting["long"] + resting["short"]
Allowance == Size * strays
SeenFlat == pc \in {"switch", "breaker", "bar", "entry"} /\ st.side = "flat"
Room == IF SeenFlat THEN 0 ELSE Size

ExposureInv ==
    /\ Working <= Allowance
    /\ pos + Working <= Allowance + Room
    /\ Working - pos <= Allowance + Room
    /\ ~Live => pos = 0 /\ Working = 0

LEMMA AllowanceFact ==
    ASSUME TypeOK
    PROVE  /\ Allowance \in Nat
           /\ strays' = strays => Allowance' = Allowance
           /\ strays' = strays + 1 => Allowance' = Allowance + Size
BY SizeAssumption DEF TypeOK, Allowance

LEMMA ExposureTypes ==
    ASSUME TypeOK
    PROVE  /\ Working \in Nat /\ pos \in Int /\ Allowance \in Nat
           /\ Room \in {0, Size} /\ Room' \in {0, Size} /\ Size \in Nat
BY SizeAssumption, AllowanceFact DEF TypeOK, Working, Room, Sides

\* The orders working and the position shrink, or stay: nothing is lost unless
\* the step sees an exchange that is flat.
LEMMA ExposureShrinks ==
    ASSUME TypeOK, ExposureInv,
           Working' \in Nat, Working' <= Working,
           pos' \in Int,
           (0 <= pos' /\ pos' <= pos) \/ (pos <= pos' /\ pos' <= 0),
           Allowance' = Allowance \/ Allowance' = Allowance + Size,
           \/ Room <= Room'
           \/ pos' = 0
           \/ Allowance' = Allowance + Size
    PROVE  ExposureInv'
<1>1. Room = 0 \/ Room = Size
    BY ExposureTypes
<1>2. Room' = 0 \/ Room' = Size
    BY ExposureTypes
<1>3. ~Live => pos' = 0 /\ Working' = 0
    BY ExposureTypes DEF ExposureInv
<1>4. Working' <= Allowance'
    BY ExposureTypes DEF ExposureInv
<1>5. pos' + Working' <= Allowance' + Room' /\ Working' - pos' <= Allowance' + Room'
    BY <1>1, <1>2, <1>4, ExposureTypes DEF ExposureInv
<1> QED
    BY <1>3, <1>4, <1>5 DEF ExposureInv

\* The steps that leave the exchange alone: to the points where it was seen
\* flat they come from such a point, or from seeing it so, or as a simulation.
LEMMA ExposureQuiet ==
    ASSUME TypeOK, ExposureInv, UNCHANGED <<pos, resting, strays>>,
           SeenFlat' => SeenFlat \/ pos = 0
    PROVE  ExposureInv'
<1>1. Working' = Working /\ pos' = pos /\ Allowance' = Allowance
    BY DEF Working, Allowance
<1>2. Room <= Room' \/ pos' = 0
    BY <1>1, SizeAssumption DEF Room
<1> QED
    BY <1>1, <1>2, ExposureTypes, ExposureShrinks

LEMMA ExposureSave ==
    ASSUME TypeOK, ControlInv, ExposureInv, AdoptSave \/ OpenedSave
    PROVE  ExposureInv'
<1>1. /\ UNCHANGED <<pos, resting, strays, st>> /\ st.side # "flat"
    BY DEF AdoptSave, OpenedSave, SaveOrStop, exchange, ControlInv, BranchSide, Goto, Skip,
       Fatal
<1> QED
    BY <1>1, ExposureQuiet DEF SeenFlat

LEMMA ExposureIteration ==
    ASSUME TypeOK, TypeOK', ControlInv, ExposureInv,
           Start \/ Load \/ Gate \/ Candles \/ Reconcile \/ Engage \/ Latch \/ CheckSwitch
                 \/ CheckBreaker \/ Bar \/ NoEntry \/ Confirm \/ NoExit \/ CloseSimulated
                 \/ Book \/ Account \/ Finalize
    PROVE  ExposureInv'
<1> USE DEF Goto, Skip, Fatal, SaveAnd, exchange, history, SeenFlat
<1>1. UNCHANGED <<pos, resting, strays>>
    BY DEF Start, Load, Gate, Candles, Reconcile, Engage, Latch, CheckSwitch, CheckBreaker,
       Bar, NoEntry, Confirm, NoExit, CloseSimulated, Book, Account, Finalize
<1>2. CASE Start \/ Load \/ Gate \/ Engage \/ Latch \/ CheckSwitch \/ CheckBreaker \/ Bar
           \/ NoEntry \/ Confirm \/ NoExit \/ CloseSimulated \/ Book \/ Account \/ Finalize
    <2>1. SeenFlat' => SeenFlat
        BY <1>2 DEF Start, Load, Gate, Engage, Latch, CheckSwitch, CheckBreaker, Bar, NoEntry,
           Confirm, NoExit, CloseSimulated, Book, Account, Finalize
    <2> QED
        BY <1>1, <2>1, ExposureQuiet
<1>3. CASE Candles
    <2>1. SeenFlat' => ~Live
        BY <1>3 DEF Candles
    <2>2. SeenFlat' => pos = 0
        BY <2>1 DEF ExposureInv
    <2> QED
        BY <1>1, <2>2, ExposureQuiet
<1>4. CASE Reconcile
    <2>1. SeenFlat' => pos = 0
        BY <1>4 DEF Reconcile
    <2> QED
        BY <1>1, <2>1, ExposureQuiet
<1> QED
    BY <1>2, <1>3, <1>4

LEMMA ExposureDump ==
    ASSUME TypeOK, ControlInv, ExposureInv, Dump
    PROVE  ExposureInv'
<1>1. Working' = Working
    BY DEF Dump, Working
<1>2. CASE pos = 0
    <2>1. UNCHANGED <<pos, resting, strays>> /\ pc' = "engage"
        BY <1>2 DEF Dump, Goto
    <2> QED
        BY <2>1, ExposureQuiet DEF SeenFlat
<1>3. CASE pos # 0
    <2>1. PICK done \in 0..Distance(pos) :
             /\ pos' = pos - Sign(SideOf(pos)) * done
             /\ \/ done = Distance(pos) /\ UNCHANGED strays
                \/ strays' = strays + 1
                \/ pc' = "engage" /\ UNCHANGED strays
        BY <1>3 DEF Dump, Move
    <2>2. /\ pos' \in Int
          /\ (0 <= pos' /\ pos' <= pos) \/ (pos <= pos' /\ pos' <= 0)
          /\ done = Distance(pos) => pos' = 0
        <3>1. CASE pos > 0
            <4>1. Distance(pos) = pos /\ Sign(SideOf(pos)) = 1
                BY <3>1 DEF Distance, SideOf, Sign, TypeOK
            <4> QED
                BY <2>1, <3>1, <4>1 DEF TypeOK
        <3>2. CASE pos < 0
            <4>1. Distance(pos) = -pos /\ Sign(SideOf(pos)) = -1
                BY <3>2 DEF Distance, SideOf, Sign, TypeOK
            <4> QED
                BY <2>1, <3>2, <4>1 DEF TypeOK
        <3> QED
            BY <1>3, <3>1, <3>2 DEF TypeOK
    <2>3. Allowance' = Allowance \/ Allowance' = Allowance + Size
        BY <2>1, AllowanceFact
    <2>4. pos' = 0 \/ Allowance' = Allowance + Size \/ Room <= Room'
        <3>1. CASE pc' = "engage"
            BY <3>1, ExposureTypes DEF Room, SeenFlat
        <3> QED
            BY <2>1, <2>2, <3>1, AllowanceFact
    <2> QED
        BY <1>1, <2>2, <2>3, <2>4, ExposureTypes, ExposureShrinks
<1> QED
    BY <1>2, <1>3

LEMMA ExposureEnter ==
    ASSUME TypeOK, TypeOK', ControlInv, ExposureInv,
           NEW s \in Sides, NEW done \in 0..Size, NEW reported \in 0..Size,
           NEW working \in 0..Size, Enter(s, done, reported, working)
    PROVE  ExposureInv'
<1>1. Room = 0 /\ Room' = Size /\ Live
    BY SizeAssumption DEF Enter, Room, SeenFlat, ControlInv, BranchSide
<1>2. Working' = Working + working
    BY DEF Enter, Working, TypeOK, Sides
<1>3. pos' = pos + done \/ pos' = pos - done
    BY SignFacts DEF Enter, Move, TypeOK
<1>4. \/ working = 0 /\ Allowance' = Allowance
      \/ Allowance' = Allowance + Size
    BY AllowanceFact DEF Enter
<1>5. done + working <= Size /\ working \in Nat /\ done \in Nat
    BY SizeAssumption DEF Enter
<1> QED
    BY <1>1, <1>2, <1>3, <1>4, <1>5, ExposureTypes DEF ExposureInv

LEMMA ExposureClose ==
    ASSUME TypeOK, ControlInv, ExposureInv,
           NEW done \in 0..Distance(pos), NEW reported \in 0..Distance(pos),
           NEW working \in 0..Distance(pos), Close(done, reported, working)
    PROVE  ExposureInv'
<1>1. Working' = Working /\ Allowance' = Allowance
    BY AllowanceFact DEF Close, Working
<1>2. Room <= Room'
    <2>1. pc' \in {"book", "idle"}
        BY DEF Close
    <2> QED
        BY <2>1, SizeAssumption DEF Room, SeenFlat
<1>3. /\ pos' = pos - Sign(st.side) * done
      /\ Sign(st.side) * pos > 0 \/ done = 0
    <2> DEFINE held == IF Sign(st.side) * pos > 0 THEN Distance(pos) - exits ELSE 0
    <2>1. pos' = pos - Sign(st.side) * done /\ done <= Least(st.qty, held)
        BY DEF Close
    <2>2. held \in Int /\ st.qty \in Nat
        BY DistanceFacts DEF TypeOK, Rows
    <2>3. done <= held
        BY <2>1, <2>2, DistanceFacts DEF Least, TypeOK
    <2> QED
        BY <2>1, <2>3, DistanceFacts DEF TypeOK
<1>4. Sign(st.side) = 1 \/ Sign(st.side) = -1
    BY DEF Sign
<1>5. /\ pos' \in Int
      /\ (0 <= pos' /\ pos' <= pos) \/ (pos <= pos' /\ pos' <= 0)
    BY <1>3, <1>4 DEF Distance, TypeOK
<1> QED
    BY <1>1, <1>2, <1>5, ExposureTypes, ExposureShrinks

LEMMA ExposureWorld ==
    ASSUME TypeOK, TypeOK', ExposureInv, World
    PROVE  ExposureInv'
<1> USE DEF proc, gates, exchange, history
<1>0. strays' = strays /\ (SeenFlat' => SeenFlat)
    BY DEF World, Crash, Liquidate, ExitFill, RestingFill, OperatorEngage, OperatorDisengage,
       BreakerTrips, NextDay, SeenFlat
<1>1. Allowance' = Allowance /\ Room <= Room'
    BY <1>0, AllowanceFact, SizeAssumption DEF Room
<1>2. CASE Crash \/ OperatorEngage \/ OperatorDisengage \/ BreakerTrips \/ NextDay
    <2>1. UNCHANGED <<pos, resting, strays>>
        BY <1>2 DEF Crash, OperatorEngage, OperatorDisengage, BreakerTrips, NextDay
    <2> QED
        BY <1>0, <2>1, ExposureQuiet
<1>3. CASE Liquidate
    <2>1. Working' = Working
        BY <1>3 DEF Liquidate, Working
    <2>2. PICK left \in 0..(Distance(pos) - 1) : pos' = Sign(SideOf(pos)) * left
        BY <1>3 DEF Liquidate, Move
    <2>3. /\ pos' \in Int
          /\ (0 <= pos' /\ pos' <= pos) \/ (pos <= pos' /\ pos' <= 0)
        BY <2>2 DEF Distance, SideOf, Sign, TypeOK
    <2> QED
        BY <1>1, <2>1, <2>3, ExposureTypes, ExposureShrinks
<1>4. CASE ExitFill
    <2>1. Working' = Working
        BY <1>4 DEF ExitFill, Working
    <2>2. /\ pos' \in Int
          /\ (0 <= pos' /\ pos' <= pos) \/ (pos <= pos' /\ pos' <= 0)
        BY <1>4 DEF ExitFill, SideOf, Sign, TypeOK
    <2> QED
        BY <1>1, <2>1, <2>2, ExposureTypes, ExposureShrinks
<1>5. ASSUME NEW s \in Sides, RestingFill(s) PROVE ExposureInv'
    <2>1. Working' = Working - 1 /\ Working >= 1
        BY <1>5 DEF RestingFill, Working, TypeOK, Sides
    <2>2. pos' = pos + 1 \/ pos' = pos - 1
        BY <1>5, SignFacts DEF RestingFill, Move, TypeOK
    <2>3. Room' \in {0, Size}
        BY ExposureTypes
    <2> QED
        BY <1>1, <2>1, <2>2, <2>3, ExposureTypes DEF ExposureInv
<1> QED
    BY <1>2, <1>3, <1>4, <1>5 DEF World

LEMMA ExposureStep == TypeOK /\ ControlInv /\ ExposureInv /\ [Next]_vars => ExposureInv'
<1> SUFFICES ASSUME TypeOK, ControlInv, ExposureInv, [Next]_vars PROVE ExposureInv'
    OBVIOUS
<1>1. TypeOK'
    BY TypeStep
<1>2. CASE CancelOrders
    <2>1. pos' = pos /\ strays' = strays /\ Working' \in {0, Working} /\ pc' = "latch"
        BY <1>2 DEF CancelOrders, Working, Goto, history, Sides
    <2>2. Room <= Room'
        BY <2>1, ExposureTypes DEF Room, SeenFlat
    <2> QED
        BY <2>1, <2>2, ExposureTypes, AllowanceFact, ExposureShrinks
<1>3. ASSUME NEW s \in Sides, EnterSimulated(s) PROVE ExposureInv'
    <2>1. UNCHANGED <<pos, resting, strays>> /\ pc' = "finalize"
        BY <1>3 DEF EnterSimulated, Goto, exchange
    <2> QED
        BY <2>1, ExposureQuiet DEF SeenFlat
<1>4. CASE Start \/ Iteration
    BY <1>1, <1>2, <1>3, <1>4, ExposureSave, ExposureIteration, ExposureDump, ExposureEnter,
       ExposureClose DEF Iteration
<1>5. CASE World
    BY <1>1, <1>5, ExposureWorld
<1>6. CASE UNCHANGED vars
    BY <1>6, ExposureQuiet DEF vars, SeenFlat
<1> QED
    BY <1>4, <1>5, <1>6 DEF Next

LEMMA ExposureBound == TypeOK /\ ExposureInv => ExposureBounded
<1> SUFFICES ASSUME TypeOK, ExposureInv PROVE ExposureBounded
    OBVIOUS
<1>1. Size * (1 + strays) = Allowance + Size
    BY SizeAssumption DEF TypeOK, Allowance
<1>2. Distance(pos) \in Nat /\ (Distance(pos) = pos \/ Distance(pos) = -pos)
    BY DistanceFacts DEF TypeOK
<1>3. Distance(pos) + Working <= Allowance + Size
    <2>1. Room <= Size /\ Room \in Nat
        BY SizeAssumption DEF Room
    <2> QED
        BY <1>2, <2>1, ExposureTypes DEF ExposureInv
<1>4. resting["long"] \in Nat /\ resting["short"] \in Nat
    BY DEF TypeOK, Sides
<1>5. Distance(pos) + resting["long"] + resting["short"] = Distance(pos) + Working
    BY <1>2, <1>4 DEF Working
<1> QED
    BY <1>1, <1>3, <1>5 DEF ExposureBounded

\* The symbol never carries more than one entry and one more for each order left
\* working and each dump cut short, whatever crashes and is restarted.
THEOREM ExposureStaysBounded == Spec => []ExposureBounded
<1>1. Init => ExposureInv
    BY SizeAssumption DEF Init, ExposureInv, Working, Allowance, Room, SeenFlat, Sides
<1> QED
    BY <1>1, ControlInvariant, ExposureStep, ExposureBound, PTL DEF Spec
=============================================================================
