---------------------------- MODULE FlowTradeProofs ----------------------------
(***************************************************************************)
(* Proofs about FlowTrade for any entry size and any bounds.               *)
(***************************************************************************)
EXTENDS FlowTrade, TLAPS

-----------------------------------------------------------------------------
(* Facts about signs and distances.                                        *)

LEMMA SignFacts ==
    /\ Sign("LONG") = 1 /\ Sign("SHORT") = -1
    /\ \A s \in Sides : Sign(s) \in {1, -1}
BY DEF Sign, Sides

LEMMA DistanceFacts ==
    ASSUME NEW n \in Int
    PROVE  /\ Distance(n) \in Nat
           /\ Distance(n) = n \/ Distance(n) = -n
           /\ n <= Distance(n) /\ -n <= Distance(n)
BY DEF Distance

LEMMA FreshFact == Fresh \in Rows
BY SizeAssumption DEF Fresh, Rows, Sides

LEMMA EntryFact ==
    ASSUME NEW s \in Sides, NEW n \in 0..Size, n > 0
    PROVE  [side |-> s, qty |-> n, killed |-> FALSE] \in Rows
BY SizeAssumption DEF Rows, Sides

LEMMA KilledFact ==
    ASSUME NEW r \in Rows
    PROVE  [r EXCEPT !.killed = TRUE] \in Rows
BY DEF Rows

-----------------------------------------------------------------------------
(* Type correctness.                                                       *)

THEOREM TypeInit == Init => TypeOK
<1> SUFFICES ASSUME Init PROVE TypeOK
    OBVIOUS
<1>1. row \in Rows /\ st \in Rows
    BY FreshFact DEF Init
<1>2. loose \in [Sides -> Nat]
    BY DEF Init
<1> QED
    <2>1. lostFills \in Nat /\ sent \in 0..2 /\ faults \in 0..MaxFaults
          /\ stops \in 0..MaxStops /\ pos \in Int
        BY BoundsAssumption DEF Init
    <2> QED
        BY <1>1, <1>2, <2>1 DEF Init, TypeOK, Points

LEMMA FaultFact ==
    ASSUME TypeOK, Fault \/ NoFault
    PROVE  faults' \in 0..MaxFaults
BY BoundsAssumption DEF TypeOK, Fault, NoFault

LEMMA SentFact ==
    ASSUME TypeOK, CountOrder
    PROVE  sent' \in 0..2
BY DEF TypeOK, CountOrder

LEMMA IterationType == TypeOK /\ Iteration => TypeOK'
<1> SUFFICES ASSUME TypeOK, Iteration PROVE TypeOK'
    OBVIOUS
<1> USE DEF gates, exchange
<1>1. CASE Load
    BY <1>1 DEF Load, TypeOK, Points
<1>2. CASE CheckSwitch \/ CheckBreaker \/ LoadMarket
    BY <1>2, FaultFact DEF CheckSwitch, CheckBreaker, LoadMarket, Skip, Fatal, TypeOK, Points
<1>3. CASE NoEntry
    BY <1>3, FaultFact DEF NoEntry, Skip, Fatal, TypeOK, Points
<1>4. ASSUME NEW s \in Sides, NEW done \in 0..Size, NEW reported \in 0..Size,
             NEW working \in 0..Size, Enter(s, done, reported, working)
      PROVE  TypeOK'
    <2>1. pos' \in Int
        BY <1>4, SizeAssumption, SignFacts DEF Enter, TypeOK
    <2>2. loose' \in [Sides -> Nat]
        BY <1>4, SizeAssumption DEF Enter, TypeOK
    <2>3. st' \in Rows /\ pc' \in Points
        BY <1>4, EntryFact DEF Enter, TypeOK, Points
    <2>4. lostFills' \in Nat
        BY <1>4 DEF Enter, TypeOK
    <2>5. faults' \in 0..MaxFaults /\ sent' \in 0..2
        BY <1>4, FaultFact, SentFact DEF Enter
    <2> QED
        BY <1>4, <2>1, <2>2, <2>3, <2>4, <2>5 DEF Enter, TypeOK
<1>5. CASE RecordEntry
    <2>1. faults' \in 0..MaxFaults
        BY <1>5, FaultFact DEF RecordEntry, Skip
    <2>2. row' \in {row, st} /\ due' \in {due, FALSE}
          /\ pc' = "idle" /\ lostFills' \in {lostFills, lostFills + 1}
        BY <1>5, Zenon DEF RecordEntry, Skip
    <2>3. row' \in Rows /\ pc' \in Points /\ lostFills' \in Nat
        BY <2>2 DEF TypeOK, Points
    <2>4. due' \in BOOLEAN
        BY <2>2, Zenon DEF TypeOK
    <2>5. UNCHANGED <<st, ks, breaker, stops, pos, loose, sent>>
        BY <1>5 DEF RecordEntry
    <2> QED
        BY <2>1, <2>3, <2>4, <2>5 DEF TypeOK
<1>6. CASE Guard
    BY <1>6, FaultFact DEF Guard, Skip, TypeOK, Points
<1>7. CASE EngageSwitch
    <2>1. faults' \in 0..MaxFaults
        BY <1>7, FaultFact DEF EngageSwitch, Fatal
    <2>2. sent' \in {sent, 0} /\ ks' \in {ks, TRUE} /\ pc' \in {"latch", "down"}
        BY <1>7, Zenon DEF EngageSwitch, Fatal
    <2>3. sent' \in 0..2 /\ pc' \in Points
        BY <2>2 DEF TypeOK, Points
    <2>4. ks' \in BOOLEAN
        BY <2>2, Zenon DEF TypeOK
    <2>5. UNCHANGED <<row, st, breaker, stops, due, lostFills, pos, loose>>
        BY <1>7 DEF EngageSwitch
    <2> QED
        BY <2>1, <2>3, <2>4, <2>5 DEF TypeOK
<1>8. CASE Latch
    BY <1>8, FaultFact, KilledFact DEF Latch, Skip, TypeOK, Points
<1>9. CASE Hold
    BY <1>9, FaultFact DEF Hold, Skip, TypeOK, Points
<1>10. ASSUME NEW done \in 0..Size, NEW seen \in BOOLEAN, Close(done, seen)
       PROVE  TypeOK'
    <2>2. pos' \in Int
        BY <1>10, SignFacts, SizeAssumption DEF Close, TypeOK, Sign
    <2>3. lostFills' \in Nat
        BY <1>10 DEF Close, TypeOK
    <2>4. faults' \in 0..MaxFaults /\ sent' \in 0..2
        BY <1>10, FaultFact, SentFact DEF Close, TypeOK
    <2> QED
        BY <1>10, <2>2, <2>3, <2>4 DEF Close, TypeOK, Points
<1>11. CASE Clear
    BY <1>11, FaultFact, FreshFact DEF Clear, Skip, TypeOK, Points
<1> QED
    BY <1>1, <1>2, <1>3, <1>4, <1>5, <1>6, <1>7, <1>8, <1>9, <1>10, <1>11
    DEF Iteration

LEMMA WorldType == TypeOK /\ World => TypeOK'
<1> SUFFICES ASSUME TypeOK, World PROVE TypeOK'
    OBVIOUS
<1> USE DEF gates, exchange, proc
<1>1. CASE Crash
    BY <1>1, FaultFact DEF Crash, TypeOK, Points
<1>2. CASE TimePasses
    BY <1>2 DEF TimePasses, TypeOK
<1>3. CASE Liquidate
    <2>1. PICK left \in 0..(Distance(pos) - 1) :
             pos' = IF pos > 0 THEN left ELSE -left
        BY <1>3 DEF Liquidate
    <2>2. pos' \in Int
        BY <2>1, DistanceFacts DEF TypeOK
    <2> QED
        BY <1>3, <2>2, FaultFact DEF Liquidate, TypeOK
<1>4. ASSUME NEW s \in Sides, LooseFill(s) PROVE TypeOK'
    BY <1>4, SignFacts DEF LooseFill, TypeOK
<1>5. ASSUME NEW s \in Sides, LooseCancel(s) PROVE TypeOK'
    BY <1>5 DEF LooseCancel, TypeOK
<1>6. CASE OperatorEngage
    BY <1>6, BoundsAssumption DEF OperatorEngage, TypeOK
<1>7. CASE OperatorDisengage \/ NextDay
    BY <1>7 DEF OperatorDisengage, NextDay, TypeOK
<1>8. CASE BreakerTrips
    BY <1>8, BoundsAssumption DEF BreakerTrips, TypeOK
<1> QED
    BY <1>1, <1>2, <1>3, <1>4, <1>5, <1>6, <1>7, <1>8 DEF World

LEMMA TypeStep == TypeOK /\ [Next]_vars => TypeOK'
<1> SUFFICES ASSUME TypeOK, [Next]_vars PROVE TypeOK'
    OBVIOUS
<1>1. CASE Start
    BY <1>1 DEF Start, TypeOK, Points, gates, exchange
<1>2. CASE Iteration
    BY <1>2, IterationType
<1>3. CASE World
    BY <1>3, WorldType
<1>4. CASE UNCHANGED vars
    BY <1>4 DEF vars, TypeOK
<1> QED
    BY <1>1, <1>2, <1>3, <1>4 DEF Next

\* Every variable keeps its type, whatever the sizes and the bounds.
THEOREM TypeCorrect == Spec => []TypeOK
BY TypeInit, TypeStep, PTL DEF Spec

-----------------------------------------------------------------------------
(* Control: what the program counter says about the row and its copy.      *)

\* Past the gates the process works on the row it loaded.
Synced == pc \notin {"down", "idle", "record"} => st = row

\* Past the first gate the latch is open, and each part of the iteration runs
\* on the side it is for.
Gated == pc \notin {"down", "idle", "switch"} => ~st.killed
EntryIsFlat == pc = "entry" => st.side = "flat"
ManagedHasSide ==
    pc \in {"record", "guard", "engage", "latch", "manage", "clear"} => st.side # "flat"
RecordIsFlat == pc = "record" => row.side = "flat"

\* With the switch on, the one order is still to be sent only by a process
\* that passed the gate before.
Window == {"breaker", "market", "entry", "guard", "manage"}
SentInv == ks => sent = 0 \/ (sent = 1 /\ pc \notin Window)

ControlInv == Synced /\ Gated /\ EntryIsFlat /\ ManagedHasSide /\ RecordIsFlat
              /\ LatchHasPosition

LEMMA ControlIteration == TypeOK /\ ControlInv /\ Iteration => ControlInv'
<1> SUFFICES ASSUME TypeOK, ControlInv, Iteration PROVE ControlInv'
    OBVIOUS
<1> USE DEF ControlInv, Synced, Gated, EntryIsFlat, ManagedHasSide, RecordIsFlat,
            LatchHasPosition,
            Skip, Fatal
<1>1. CASE Load
    BY <1>1 DEF Load
<1>2. CASE CheckSwitch
    BY <1>2 DEF CheckSwitch
<1>3. CASE CheckBreaker
    BY <1>3 DEF CheckBreaker
<1>4. CASE LoadMarket
    BY <1>4 DEF LoadMarket
<1>5. CASE NoEntry
    BY <1>5 DEF NoEntry
<1>6. ASSUME NEW s \in Sides, NEW done \in 0..Size, NEW reported \in 0..Size,
             NEW working \in 0..Size, Enter(s, done, reported, working)
      PROVE  ControlInv'
    BY <1>6 DEF Enter, Sides
<1>7. CASE RecordEntry
    BY <1>7 DEF RecordEntry
<1>8. CASE Guard
    BY <1>8 DEF Guard
<1>9. CASE EngageSwitch
    BY <1>9 DEF EngageSwitch
<1>10. CASE Latch
    BY <1>10 DEF Latch, TypeOK, Rows
<1>11. CASE Hold
    BY <1>11 DEF Hold
<1>12. ASSUME NEW done \in 0..Size, NEW seen \in BOOLEAN, Close(done, seen)
       PROVE  ControlInv'
    BY <1>12 DEF Close
<1>13. CASE Clear
    BY <1>13 DEF Clear, Fresh
<1> QED
    BY <1>1, <1>2, <1>3, <1>4, <1>5, <1>6, <1>7, <1>8, <1>9, <1>10, <1>11, <1>12, <1>13
    DEF Iteration

\* What moves around the process leaves it alone, unless it kills it.
LEMMA WorldAndProcess ==
    ASSUME World
    PROVE  /\ UNCHANGED <<row, st>>
           /\ UNCHANGED pc \/ pc' = "down"
BY DEF World, Crash, TimePasses, Liquidate, LooseFill, LooseCancel, OperatorEngage,
       OperatorDisengage, BreakerTrips, NextDay, proc

LEMMA ControlStep == TypeOK /\ ControlInv /\ [Next]_vars => ControlInv'
<1> SUFFICES ASSUME TypeOK, ControlInv, [Next]_vars PROVE ControlInv'
    OBVIOUS
<1> USE DEF ControlInv, Synced, Gated, EntryIsFlat, ManagedHasSide, RecordIsFlat,
            LatchHasPosition
<1>1. CASE Start
    BY <1>1 DEF Start
<1>2. CASE Iteration
    BY <1>2, ControlIteration
<1>3. CASE World
    BY <1>3, WorldAndProcess
<1>4. CASE UNCHANGED vars
    BY <1>4 DEF vars
<1> QED
    BY <1>1, <1>2, <1>3, <1>4 DEF Next

THEOREM ControlInvariant == Spec => [](TypeOK /\ ControlInv)
<1>1. Init => ControlInv
    BY DEF Init, ControlInv, Synced, Gated, EntryIsFlat, ManagedHasSide,
           RecordIsFlat, LatchHasPosition, Fresh
<1> QED
    BY <1>1, TypeCorrect, ControlStep, TypeInit, TypeStep, PTL DEF Spec

\* The latch is only ever set on a row with a position: the release of a killed
\* flat row at the head of guardFlowState is dead code.
THEOREM LatchNeedsPosition == Spec => []LatchHasPosition
BY ControlInvariant, PTL DEF ControlInv

-----------------------------------------------------------------------------
(* The promise of PositionRow.                                             *)

LEMMA PositionStep ==
    ASSUME TypeOK, ControlInv, [Next]_vars
    PROVE  [Position!Next]_(Position!vars)
<1> USE DEF ControlInv, Synced, Gated, ManagedHasSide, RecordIsFlat, LatchHasPosition,
            Skip, Position!vars
<1>1. CASE UNCHANGED row
    BY <1>1
<1>2. CASE RecordEntry /\ row' = st
    <2>1. row.side = "flat" /\ ~row.killed /\ st.side # "flat"
        BY <1>2 DEF RecordEntry
    <2>2. st.side \in Sides /\ st.qty \in Nat \ {0} /\ st.killed \in BOOLEAN
        BY <2>1, SizeAssumption DEF TypeOK, Rows
    <2>3. Position!Open
        BY <1>2, <2>1, <2>2 DEF Position!Open
    <2> QED
        BY <2>3 DEF Position!Next
<1>3. CASE Latch /\ row' = [st EXCEPT !.killed = TRUE]
    <2>1. st = row /\ ~row.killed
        BY <1>3 DEF Latch
    <2>2. Position!Latch
        BY <1>3, <2>1 DEF Position!Latch, TypeOK, Rows
    <2> QED
        BY <2>2 DEF Position!Next
<1>4. CASE Hold /\ row' = st
    BY <1>4 DEF Hold
<1>5. CASE Clear /\ row' = Fresh
    <2>1. row.side # "flat" /\ ~row.killed
        BY <1>5 DEF Clear
    <2>2. Position!Close
        BY <1>5, <2>1 DEF Position!Close, Fresh
    <2> QED
        BY <2>2 DEF Position!Next
<1>6. \/ UNCHANGED row
      \/ RecordEntry /\ row' = st
      \/ Latch /\ row' = [st EXCEPT !.killed = TRUE]
      \/ Hold /\ row' = st
      \/ Clear /\ row' = Fresh
    <2>1. CASE Start
        BY <2>1 DEF Start
    <2>2. CASE Iteration
        BY <2>2 DEF Iteration, Load, CheckSwitch, CheckBreaker, LoadMarket, NoEntry, Enter,
           RecordEntry, Guard, EngageSwitch, Latch, Hold, Close, Clear
    <2>3. CASE World
        BY <2>3, WorldAndProcess
    <2>4. CASE UNCHANGED vars
        BY <2>4 DEF vars
    <2> QED
        BY <2>1, <2>2, <2>3, <2>4 DEF Next
<1> QED
    BY <1>2, <1>3, <1>4, <1>5, <1>6, <1>1

\* The engine implements PositionRow: to a reader of the database its recorded
\* position is opened, closed or latched as a whole.
THEOREM ImplementsPositionRow == Spec => KeepsPositionRow
<1>1. Init => Position!Init
    BY DEF Init, Position!Init, Fresh
<1>2. TypeOK /\ ControlInv /\ [Next]_vars => [Position!Next]_(Position!vars)
    BY PositionStep
<1> QED
    BY <1>1, <1>2, ControlInvariant, PTL DEF Spec, KeepsPositionRow, Position!Spec

-----------------------------------------------------------------------------
(* Orders after a stop.                                                    *)

LEMMA SentIteration == TypeOK /\ SentInv /\ Iteration => SentInv'
<1> SUFFICES ASSUME TypeOK, SentInv, Iteration PROVE SentInv'
    OBVIOUS
<1> USE DEF SentInv, Window, Skip, Fatal, gates, TypeOK
<1>1. CASE Load
    BY <1>1 DEF Load
<1>2. CASE CheckSwitch
    BY <1>2 DEF CheckSwitch
<1>3. CASE CheckBreaker
    BY <1>3 DEF CheckBreaker
<1>4. CASE LoadMarket
    BY <1>4 DEF LoadMarket
<1>5. CASE NoEntry
    BY <1>5 DEF NoEntry
<1>6. ASSUME NEW s \in Sides, NEW done \in 0..Size, NEW reported \in 0..Size,
             NEW working \in 0..Size, Enter(s, done, reported, working)
      PROVE  SentInv'
    BY <1>6 DEF Enter, CountOrder
<1>7. CASE RecordEntry
    BY <1>7 DEF RecordEntry
<1>8. CASE Guard
    BY <1>8 DEF Guard
<1>9. CASE EngageSwitch
    BY <1>9 DEF EngageSwitch
<1>10. CASE Latch
    BY <1>10 DEF Latch
<1>11. CASE Hold
    BY <1>11 DEF Hold
<1>12. ASSUME NEW done \in 0..Size, NEW seen \in BOOLEAN, Close(done, seen)
       PROVE  SentInv'
    BY <1>12 DEF Close, CountOrder
<1>13. CASE Clear
    BY <1>13 DEF Clear
<1> QED
    BY <1>1, <1>2, <1>3, <1>4, <1>5, <1>6, <1>7, <1>8, <1>9, <1>10, <1>11, <1>12, <1>13
    DEF Iteration

LEMMA SentStep == TypeOK /\ SentInv /\ [Next]_vars => SentInv'
<1> SUFFICES ASSUME TypeOK, SentInv, [Next]_vars PROVE SentInv'
    OBVIOUS
<1> USE DEF SentInv, Window, gates, proc
<1>1. CASE Start
    BY <1>1 DEF Start
<1>2. CASE Iteration
    BY <1>2, SentIteration
<1>3. CASE World
    <2>1. CASE OperatorEngage
        BY <2>1 DEF OperatorEngage
    <2>2. CASE OperatorDisengage
        BY <2>2 DEF OperatorDisengage
    <2>3. CASE ~OperatorEngage /\ ~OperatorDisengage
        BY <1>3, <2>3 DEF World, Crash, TimePasses, Liquidate, LooseFill, LooseCancel,
           BreakerTrips, NextDay
    <2> QED
        BY <2>1, <2>2, <2>3
<1>4. CASE UNCHANGED vars
    BY <1>4 DEF vars
<1> QED
    BY <1>1, <1>2, <1>3, <1>4 DEF Next

\* After an engaged switch at most one order goes out, whoever engaged it.
THEOREM OneOrderAfterStop == Spec => []AtMostOneOrderAfterStop
<1>1. Init => SentInv
    BY DEF Init, SentInv
<1>2. SentInv => AtMostOneOrderAfterStop
    BY DEF SentInv, AtMostOneOrderAfterStop
<1> QED
    BY <1>1, <1>2, TypeCorrect, SentStep, PTL DEF Spec

-----------------------------------------------------------------------------
(* Exposure.  The bound on |position| + working lots is not inductive: the  *)
(* signed sums are, each against what the row vouches for on that side.     *)

Working == loose["LONG"] + loose["SHORT"]

\* What the row, or the fill about to be recorded, accounts for.  Nothing once
\* the position is closed, though its row is still to be cleared.
Holder == IF pc = "record" THEN st ELSE row
Vouched(s) == IF pc # "clear" /\ Holder.side = s THEN Holder.qty ELSE 0

Allowance == Size * lostFills

ExposureInv ==
    /\ Working <= Allowance
    /\ pos + Working <= Allowance + Vouched("LONG")
    /\ Working - pos <= Allowance + Vouched("SHORT")

LEMMA AllowanceFact ==
    ASSUME TypeOK
    PROVE  /\ Allowance \in Nat
           /\ lostFills' = lostFills => Allowance' = Allowance
           /\ lostFills' = lostFills + 1 => Allowance' = Allowance + Size
BY SizeAssumption DEF TypeOK, Allowance

LEMMA VouchedFact ==
    ASSUME TypeOK, NEW s \in Sides
    PROVE  Vouched(s) \in 0..Size
BY SizeAssumption DEF TypeOK, Rows, Vouched, Holder

LEMMA WorkingFact ==
    ASSUME TypeOK
    PROVE  Working \in Nat
BY DEF TypeOK, Working, Sides

\* A step that leaves the exchange alone needs only to vouch for as much, or to
\* count a lost effect.
LEMMA QuietStep ==
    ASSUME TypeOK, TypeOK', ExposureInv, UNCHANGED exchange,
           \/ /\ UNCHANGED lostFills
              /\ \A s \in Sides : Vouched(s) <= Vouched(s)'
           \/ lostFills' = lostFills + 1
    PROVE  ExposureInv'
<1>1. \A s \in Sides : Vouched(s) \in 0..Size /\ Vouched(s)' \in 0..Size
    BY VouchedFact, SizeAssumption DEF TypeOK, Rows, Vouched, Holder
<1>2. Working' = Working /\ pos' = pos /\ pos \in Int
    BY DEF exchange, Working, TypeOK
<1>3. CASE /\ UNCHANGED lostFills
           /\ \A s \in Sides : Vouched(s) <= Vouched(s)'
    BY <1>1, <1>2, <1>3, AllowanceFact, WorkingFact DEF ExposureInv, Sides
<1>4. CASE lostFills' = lostFills + 1
    BY <1>1, <1>2, <1>4, AllowanceFact, WorkingFact, SizeAssumption DEF ExposureInv, Sides
<1> QED
    BY <1>3, <1>4

LEMMA ExposureEnter ==
    ASSUME TypeOK, TypeOK', ControlInv, ExposureInv,
           NEW s \in Sides, NEW done \in 0..Size, NEW reported \in 0..Size,
           NEW working \in 0..Size, Enter(s, done, reported, working)
    PROVE  ExposureInv'
<1>1. Vouched("LONG") = 0 /\ Vouched("SHORT") = 0
    BY DEF Enter, ControlInv, Synced, EntryIsFlat, Vouched, Holder
<1>2. Working' = Working + working
    BY DEF Enter, Working, TypeOK, Sides
<1>3. pos' = pos + Sign(s) * done
    BY DEF Enter
<1>4. Vouched(s)' = reported /\ \A r \in Sides \ {s} : Vouched(r)' = 0
    BY SizeAssumption DEF Enter, ControlInv, Synced, EntryIsFlat, Vouched, Holder, Sides
<1>5. \/ done + working = reported /\ working = 0 /\ Allowance' = Allowance
      \/ Allowance' = Allowance + Size
    BY AllowanceFact, SizeAssumption DEF Enter
<1>6. done + working <= Size
    BY SizeAssumption DEF Enter
<1>7. CASE s = "LONG"
    <2>1. pos' = pos + done /\ Vouched("LONG")' = reported /\ Vouched("SHORT")' = 0
        BY <1>3, <1>4, <1>7, SignFacts, SizeAssumption DEF Sides, TypeOK
    <2> QED
        BY <1>1, <1>2, <1>5, <1>6, <2>1, AllowanceFact, WorkingFact, SizeAssumption
        DEF ExposureInv, TypeOK
<1>8. CASE s = "SHORT"
    <2>1. pos' = pos - done /\ Vouched("SHORT")' = reported /\ Vouched("LONG")' = 0
        BY <1>3, <1>4, <1>8, SignFacts, SizeAssumption DEF Sides, TypeOK
    <2> QED
        BY <1>1, <1>2, <1>5, <1>6, <2>1, AllowanceFact, WorkingFact, SizeAssumption
        DEF ExposureInv, TypeOK
<1> QED
    BY <1>7, <1>8 DEF Sides

LEMMA ExposureClose ==
    ASSUME TypeOK, TypeOK', ControlInv, ExposureInv,
           NEW done \in 0..Size, NEW seen \in BOOLEAN, Close(done, seen)
    PROVE  ExposureInv'
<1>1. /\ pc = "manage" /\ row' = row /\ loose' = loose /\ st = row
      /\ pc' \in {"clear", "idle"}
    BY DEF Close, ControlInv, Synced
<1>2. Working' = Working
    BY <1>1 DEF Working
<1>3. row.side \in Sides
    BY <1>1 DEF ControlInv, ManagedHasSide, TypeOK, Rows
<1>4. /\ Vouched(row.side) = row.qty /\ \A r \in Sides \ {row.side} : Vouched(r) = 0
      /\ pc' = "clear" => \A r \in Sides : Vouched(r)' = 0
      /\ pc' = "idle" => \A r \in Sides : Vouched(r)' = Vouched(r)
    BY <1>1 DEF Vouched, Holder
<1>5. row.qty \in 0..Size
    BY DEF TypeOK, Rows
<1>6. CASE ~Backed(st.side)
    <2>1. /\ pos' = pos /\ pc' = "clear" /\ lostFills' = lostFills
        BY <1>6 DEF Close
    <2>2. row.side = "LONG" => pos <= 0
        BY <1>1, <1>6, SignFacts DEF Backed, TypeOK
    <2>3. row.side = "SHORT" => pos >= 0
        BY <1>1, <1>6, SignFacts DEF Backed, TypeOK
    <2> QED
        BY <1>2, <1>3, <1>4, <2>1, <2>2, <2>3, AllowanceFact, WorkingFact
        DEF ExposureInv, Sides, TypeOK
<1>7. CASE Backed(st.side)
    <2>1. /\ pos' = pos - Sign(row.side) * done
          /\ done <= row.qty /\ done <= Distance(pos)
          /\ pc' = "clear" =>
                \/ done \in {row.qty, Distance(pos)} /\ lostFills' = lostFills
                \/ lostFills' = lostFills + 1
          /\ lostFills' \in {lostFills, lostFills + 1}
        BY <1>1, <1>7 DEF Close
    <2>2. Allowance' = Allowance \/ Allowance' = Allowance + Size
        BY <2>1, AllowanceFact
    <2>3. pc' = "clear" => done \in {row.qty, Distance(pos)} \/ Allowance' = Allowance + Size
        BY <2>1, AllowanceFact
    <2>4. CASE row.side = "LONG"
        <3>1. pos > 0 /\ pos' = pos - done /\ Distance(pos) = pos
            BY <1>1, <1>7, <2>1, <2>4, SignFacts, SizeAssumption DEF Backed, TypeOK, Distance
        <3>2. /\ Vouched("LONG") = row.qty /\ Vouched("SHORT") = 0
              /\ Vouched("SHORT")' = 0
              /\ Vouched("LONG")' = IF pc' = "clear" THEN 0 ELSE row.qty
            BY <1>1, <1>4, <2>4 DEF Sides
        <3> QED
            BY <1>1, <1>2, <1>5, <2>1, <2>2, <2>3, <3>1, <3>2, AllowanceFact, WorkingFact,
               SizeAssumption DEF ExposureInv, TypeOK
    <2>5. CASE row.side = "SHORT"
        <3>1. pos < 0 /\ pos' = pos + done /\ Distance(pos) = -pos
            BY <1>1, <1>7, <2>1, <2>5, SignFacts, SizeAssumption DEF Backed, TypeOK, Distance
        <3>2. /\ Vouched("SHORT") = row.qty /\ Vouched("LONG") = 0
              /\ Vouched("LONG")' = 0
              /\ Vouched("SHORT")' = IF pc' = "clear" THEN 0 ELSE row.qty
            BY <1>1, <1>4, <2>5 DEF Sides
        <3> QED
            BY <1>1, <1>2, <1>5, <2>1, <2>2, <2>3, <3>1, <3>2, AllowanceFact, WorkingFact,
               SizeAssumption DEF ExposureInv, TypeOK
    <2> QED
        BY <1>3, <2>4, <2>5 DEF Sides
<1> QED
    BY <1>6, <1>7

\* The steps that send no order.  Each keeps what is vouched for, or gives up
\* a fill and counts it.
LEMMA ExposureQuiet ==
    ASSUME TypeOK, TypeOK', ControlInv, ExposureInv,
           \/ Start \/ Load \/ CheckSwitch \/ CheckBreaker \/ LoadMarket \/ NoEntry
           \/ RecordEntry \/ Guard \/ EngageSwitch \/ Latch \/ Hold \/ Clear \/ Crash
    PROVE  ExposureInv'
<1> USE DEF Vouched, Holder, gates, exchange, Skip, Fatal
<1>0. row.qty \in 0..Size /\ st.qty \in 0..Size
    BY DEF TypeOK, Rows
<1>1. CASE Start \/ Load \/ CheckSwitch \/ CheckBreaker \/ LoadMarket \/ NoEntry \/ Guard
           \/ EngageSwitch
    <2>1. /\ UNCHANGED <<pos, loose, lostFills, row>>
          /\ pc \notin {"record", "clear"} /\ pc' \notin {"record", "clear"}
        BY <1>1 DEF Start, Load, CheckSwitch, CheckBreaker, LoadMarket, NoEntry, Guard,
           EngageSwitch
    <2>2. \A s \in Sides : Vouched(s) <= Vouched(s)'
        BY <2>1, <1>0
    <2> QED
        BY <2>1, <2>2, QuietStep
<1>2. CASE RecordEntry
    <2>1. CASE lostFills' = lostFills + 1
        BY <1>2, <2>1, QuietStep DEF RecordEntry
    <2>2. CASE lostFills' # lostFills + 1
        <3>1. /\ UNCHANGED <<pos, loose, lostFills>>
              /\ pc = "record" /\ row' = st /\ pc' = "idle"
            BY <1>2, <2>2 DEF RecordEntry
        <3>2. \A s \in Sides : Vouched(s) <= Vouched(s)'
            BY <3>1, <1>0
        <3> QED
            BY <3>1, <3>2, QuietStep
    <2> QED
        BY <2>1, <2>2
<1>3. CASE Latch \/ Hold
    <2>1. /\ UNCHANGED <<pos, loose, lostFills>>
          /\ pc \notin {"record", "clear"} /\ pc' = "idle"
          /\ row'.side = row.side /\ row'.qty = row.qty
        BY <1>3 DEF Latch, Hold, ControlInv, Synced, TypeOK, Rows
    <2>2. \A s \in Sides : Vouched(s) <= Vouched(s)'
        BY <2>1, <1>0
    <2> QED
        BY <2>1, <2>2, QuietStep
<1>4. CASE Clear
    <2>1. UNCHANGED <<pos, loose, lostFills>> /\ pc = "clear"
        BY <1>4 DEF Clear
    <2>2. \A s \in Sides : Vouched(s) = 0 /\ Vouched(s)' \in 0..Size
        BY <2>1, SizeAssumption DEF TypeOK, Rows
    <2>3. \A s \in Sides : Vouched(s) <= Vouched(s)'
        BY <2>2
    <2> QED
        BY <2>1, <2>3, QuietStep
<1>5. CASE Crash
    <2>1. CASE pc = "record"
        BY <1>5, <2>1, QuietStep DEF Crash
    <2>2. CASE pc # "record"
        <3>1. UNCHANGED <<pos, loose, lostFills, row>> /\ pc' = "down"
            BY <1>5, <2>2 DEF Crash
        <3>2. \A s \in Sides : Vouched(s) <= Vouched(s)'
            BY <2>2, <3>1, <1>0
        <3> QED
            BY <3>1, <3>2, QuietStep
    <2> QED
        BY <2>1, <2>2
<1> QED
    BY <1>1, <1>2, <1>3, <1>4, <1>5

LEMMA ExposureWorld ==
    ASSUME TypeOK, TypeOK', ExposureInv, World, ~Crash
    PROVE  ExposureInv'
<1> USE DEF Vouched, Holder, proc, gates, exchange
<1>1. UNCHANGED <<row, st, pc, lostFills>>
    BY DEF World, TimePasses, Liquidate, LooseFill, LooseCancel, OperatorEngage,
       OperatorDisengage, BreakerTrips, NextDay
<1>2. /\ Vouched("LONG")' = Vouched("LONG") /\ Vouched("SHORT")' = Vouched("SHORT")
      /\ Vouched("LONG") \in Nat /\ Vouched("SHORT") \in Nat
    BY <1>1 DEF TypeOK, Rows
<1>3. Allowance' = Allowance
    BY <1>1, AllowanceFact
<1>4. ASSUME NEW s \in Sides, LooseFill(s) PROVE ExposureInv'
    <2>1. Working' = Working - 1
        BY <1>4 DEF LooseFill, Working, TypeOK, Sides
    <2>2. pos' = pos + 1 \/ pos' = pos - 1
        BY <1>4, SignFacts DEF LooseFill, TypeOK
    <2> QED
        BY <1>2, <1>3, <2>1, <2>2, AllowanceFact, WorkingFact DEF ExposureInv, TypeOK
<1>5. ASSUME NEW s \in Sides, LooseCancel(s) PROVE ExposureInv'
    <2>1. Working' <= Working /\ Working' \in Nat
        BY <1>5 DEF LooseCancel, Working, TypeOK, Sides
    <2> QED
        BY <1>2, <1>3, <1>5, <2>1, AllowanceFact, WorkingFact DEF ExposureInv, TypeOK, LooseCancel
<1>6. CASE Liquidate
    <2>1. Working' = Working
        BY <1>6 DEF Liquidate, Working
    <2>2. PICK left \in 0..(Distance(pos) - 1) :
             pos' = IF pos > 0 THEN left ELSE -left
        BY <1>6 DEF Liquidate
    <2>3. \/ pos' \in Int /\ 0 <= pos' /\ pos' <= pos
          \/ pos' \in Int /\ pos' <= 0 /\ pos <= pos'
        BY <2>2 DEF Distance, TypeOK
    <2> QED
        BY <1>2, <1>3, <2>1, <2>3, AllowanceFact, WorkingFact DEF ExposureInv, TypeOK
<1>7. CASE TimePasses \/ OperatorEngage \/ OperatorDisengage \/ BreakerTrips \/ NextDay
    <2>1. UNCHANGED exchange
        BY <1>7 DEF TimePasses, OperatorEngage, OperatorDisengage, BreakerTrips, NextDay
    <2>2. \A s \in Sides : Vouched(s) <= Vouched(s)'
        BY <1>2 DEF Sides
    <2> QED
        BY <1>1, <2>1, <2>2, QuietStep
<1> QED
    BY <1>4, <1>5, <1>6, <1>7 DEF World

LEMMA ExposureStep == TypeOK /\ ControlInv /\ ExposureInv /\ [Next]_vars => ExposureInv'
<1> SUFFICES ASSUME TypeOK, ControlInv, ExposureInv, [Next]_vars PROVE ExposureInv'
    OBVIOUS
<1>1. TypeOK'
    BY TypeStep
<1>2. CASE Start \/ Iteration
    BY <1>1, <1>2, ExposureQuiet, ExposureEnter, ExposureClose DEF Iteration
<1>3. CASE World
    BY <1>1, <1>3, ExposureQuiet, ExposureWorld
<1>4. CASE UNCHANGED vars
    BY <1>4 DEF vars, ExposureInv, Working, Allowance, Vouched, Holder
<1> QED
    BY <1>2, <1>3, <1>4 DEF Next

LEMMA ExposureBound == TypeOK /\ ExposureInv => ExposureBounded
<1> SUFFICES ASSUME TypeOK, ExposureInv PROVE ExposureBounded
    OBVIOUS
<1>1. Size * (1 + lostFills) = Allowance + Size
    BY SizeAssumption DEF TypeOK, Allowance
<1>2. Vouched("LONG") \in 0..Size /\ Vouched("SHORT") \in 0..Size
    BY VouchedFact DEF Sides
<1>3. pos \in Int /\ Working \in Int /\ Allowance \in Int
    BY WorkingFact, AllowanceFact DEF TypeOK
<1>4. Distance(pos) = pos \/ Distance(pos) = -pos
    BY <1>3, DistanceFacts
<1>5. Distance(pos) + Working <= Allowance + Size
    BY <1>2, <1>3, <1>4, SizeAssumption DEF ExposureInv
<1>6. loose["LONG"] \in Nat /\ loose["SHORT"] \in Nat /\ Distance(pos) \in Nat
    BY <1>3, DistanceFacts DEF TypeOK, Sides
<1>7. Distance(pos) + loose["LONG"] + loose["SHORT"] = Distance(pos) + Working
    BY <1>6 DEF Working
<1> QED
    BY <1>1, <1>5, <1>7 DEF ExposureBounded

\* The symbol never carries more than one entry and one more for each order
\* whose effect was lost: a restart alone never doubles the position.
THEOREM ExposureStaysBounded == Spec => []ExposureBounded
<1>1. Init => ExposureInv
    BY SizeAssumption DEF Init, ExposureInv, Working, Allowance, Vouched, Holder, Fresh, Sides
<1> QED
    BY <1>1, ControlInvariant, ExposureStep, ExposureBound, PTL DEF Spec
=============================================================================
