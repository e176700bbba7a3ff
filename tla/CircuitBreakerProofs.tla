------------------------- MODULE CircuitBreakerProofs -------------------------
(***************************************************************************)
(* What the daily-loss halt guarantees for any number of callers, days,    *)
(* trades and PnL percentages.                                             *)
(***************************************************************************)
EXTENDS CircuitBreaker, WellFoundedInduction, TLAPS

\* A caller that can still reach placeOrder: cleared, or about to find the
\* latch unset, with a realized loss the risk guard accepts.
MayEnter(c) ==
    /\ phase[c] = "cleared" \/ (phase[c] = "read" /\ ~rows[today].open)
    /\ GuardAllows(c)

\* A caller has at most one entry on its account, and none while trading goes
\* on or while it can still make one.
HaltInv ==
    \A c \in Callers :
        /\ entries[c] <= 1
        /\ (~Halted \/ MayEnter(c)) => entries[c] = 0

\* An outcome is a record of integers and Booleans, and so is a row.
LEMMA OutcomeType == NoOutcome \in Outcomes
  BY DEF NoOutcome, Outcomes

LEMMA NoRowType == NoRow \in Rows
  BY DEF NoRow, Rows

\* Recording a result yields a row, and never unsets the latch.
LEMMA RecordedRow ==
    ASSUME NEW r \in Rows, NEW o \in Outcomes
    PROVE  /\ Recorded(r, o) \in Rows
           /\ r.open => Recorded(r, o).open
<1>1. CASE o.funded
  <2>1. r.pnl + o.pct \in Int /\ MaxLoss \in Int
    BY MaxLossAssumption DEF Rows, Outcomes
  <2> QED
    BY <1>1, <2>1 DEF Recorded, Accumulate, Rows
<1>2. CASE ~o.funded
  BY <1>2 DEF Recorded, ForceOpen, Rows
<1> QED
  BY <1>1, <1>2

\* The counter restarts, or goes on, within its range.
LEMMA CountFromType ==
    ASSUME NEW base \in [Callers -> 0 .. 2], CountFrom(base)
    PROVE  entries' \in [Callers -> 0 .. 2]
  BY DEF CountFrom

LEMMA EndIterationType ==
    ASSUME TypeOK, NEW c \in Callers, EndIteration(c)
    PROVE  /\ phase' \in [Callers -> {"idle", "read", "booked", "cleared"}]
           /\ seen' \in [Callers -> Int]
           /\ pending' \in [Callers -> Outcomes]
  BY OutcomeType DEF TypeOK, EndIteration

\* Every variable keeps its type.
THEOREM TypeCorrect == Spec => []TypeOK
<1>1. Init => TypeOK
  <2> SUFFICES ASSUME Init PROVE TypeOK
    OBVIOUS
  <2>1. today \in Days /\ candleDay \in Days
    BY LastDayAssumption DEF Init, Days
  <2>2. rows \in [Days -> Rows]
    BY NoRowType DEF Init
  <2>3. booked \in [Days -> Int] /\ seen \in [Callers -> Int]
    BY DEF Init
  <2>4. entries \in [Callers -> 0 .. 2] /\ trades \in 0 .. MaxTrades
    BY MaxTradesAssumption DEF Init
  <2>5. hist \in [Days -> Seq(Outcomes)]
    BY DEF Init
  <2>6. phase \in [Callers -> {"idle", "read", "booked", "cleared"}]
    BY DEF Init
  <2>7. pending \in [Callers -> Outcomes]
    BY OutcomeType DEF Init
  <2> QED
    BY <2>1, <2>2, <2>3, <2>4, <2>5, <2>6, <2>7 DEF TypeOK
<1>2. TypeOK /\ [Next]_vars => TypeOK'
  <2> SUFFICES ASSUME TypeOK, [Next]_vars
               PROVE  TypeOK'
    OBVIOUS
  <2>1. ASSUME NEW c \in Callers, ReadDay(c) PROVE TypeOK'
    BY <2>1 DEF ReadDay, TypeOK
  <2>2. ASSUME NEW c \in Callers, Book(c) PROVE TypeOK'
    <3>1. PICK pct \in Results, funded \in BOOLEAN :
             /\ pending' = [pending EXCEPT
                               ![c] = [pct |-> pct, funded |-> funded]]
             /\ booked' = [booked EXCEPT ![candleDay] = @ + pct]
      BY <2>2 DEF Book
    <3>2. pct \in Int
      BY ResultsAssumption
    <3>3. [pct |-> pct, funded |-> funded] \in Outcomes
      BY <3>2 DEF Outcomes
    <3>4. pending' \in [Callers -> Outcomes]
      BY <3>1, <3>3 DEF TypeOK
    <3>5. booked' \in [Days -> Int]
      BY <3>1, <3>2 DEF TypeOK
    <3>6. entries' \in [Callers -> 0 .. 2]
      BY <2>2, CountFromType DEF Book, TypeOK
    <3>7. trades' \in 0 .. MaxTrades
      BY <2>2, MaxTradesAssumption DEF Book, TypeOK
    <3>8. phase' \in [Callers -> {"idle", "read", "booked", "cleared"}]
      BY <2>2 DEF Book, TypeOK
    <3> QED
      BY <2>2, <3>4, <3>5, <3>6, <3>7, <3>8 DEF Book, TypeOK
  <2>3. ASSUME NEW c \in Callers, Record(c) PROVE TypeOK'
    <3>1. pending[c] \in Outcomes /\ rows[today] \in Rows /\ today \in Days
      BY DEF TypeOK
    <3>2. rows' \in [Days -> Rows]
      BY <2>3, <3>1, RecordedRow DEF Record, TypeOK
    <3>3. hist' \in [Days -> Seq(Outcomes)]
      <4>1. Append(hist[today], pending[c]) \in Seq(Outcomes)
        BY <3>1 DEF TypeOK
      <4> QED
        BY <2>3, <4>1 DEF Record, TypeOK
    <3>4. entries' \in [Callers -> 0 .. 2]
      BY <2>3, CountFromType DEF Record, TypeOK
    <3>5. /\ phase' \in [Callers -> {"idle", "read", "booked", "cleared"}]
          /\ seen' \in [Callers -> Int]
          /\ pending' \in [Callers -> Outcomes]
      BY <2>3, EndIterationType DEF Record
    <3> QED
      BY <2>3, <3>2, <3>3, <3>4, <3>5 DEF Record, TypeOK
  <2>4. ASSUME NEW c \in Callers, CheckOpen(c) PROVE TypeOK'
    <3>1. CASE EndIteration(c)
      BY <2>4, <3>1, EndIterationType DEF CheckOpen, TypeOK
    <3>2. CASE ~EndIteration(c)
      BY <2>4, <3>2 DEF CheckOpen, TypeOK
    <3> QED
      BY <3>1, <3>2
  <2>5. ASSUME NEW c \in Callers, Enter(c) PROVE TypeOK'
    <3>1. entries' \in [Callers -> 0 .. 2]
      <4>1. \/ entries' = entries
            \/ /\ entries' = [entries EXCEPT ![c] = entries[c] + 1]
               /\ entries[c] < 2
        BY <2>5, Zenon DEF Enter
      <4>2. CASE entries' = entries
        BY <4>2 DEF TypeOK
      <4>3. CASE /\ entries' = [entries EXCEPT ![c] = entries[c] + 1]
                 /\ entries[c] < 2
        <5>0. entries[c] \in 0 .. 2 /\ entries[c] < 2
          BY <4>3 DEF TypeOK
        <5>1. entries[c] + 1 \in 0 .. 2
          BY <5>0
        <5> QED
          BY <4>3, <5>1 DEF TypeOK
      <4> QED
        BY <4>1, <4>2, <4>3
    <3>2. EndIteration(c)
      BY <2>5 DEF Enter
    <3> QED
      BY <2>5, <3>1, <3>2, EndIterationType DEF Enter, TypeOK
  <2>6. ASSUME NEW c \in Callers, Crash(c) PROVE TypeOK'
    BY <2>6, EndIterationType DEF Crash, TypeOK
  <2>7. CASE Midnight
    <3>1. today' \in Days
      BY <2>7, LastDayAssumption DEF Midnight, TypeOK, Days
    <3>2. entries' \in [Callers -> 0 .. 2]
      BY <2>7, CountFromType DEF Midnight
    <3> QED
      BY <2>7, <3>1, <3>2 DEF Midnight, TypeOK
  <2>8. CASE NextCandle
    BY <2>8 DEF NextCandle, TypeOK
  <2>9. CASE Reset
    <3>1. rows' \in [Days -> Rows]
      BY <2>9, NoRowType DEF Reset, TypeOK
    <3>2. hist' \in [Days -> Seq(Outcomes)]
      BY <2>9 DEF Reset, TypeOK
    <3>3. entries' \in [Callers -> 0 .. 2]
      BY <2>9, CountFromType DEF Reset
    <3> QED
      BY <2>9, <3>1, <3>2, <3>3 DEF Reset, TypeOK
  <2>10. CASE UNCHANGED vars
    BY <2>10 DEF vars, TypeOK
  <2> QED
    BY <2>1, <2>2, <2>3, <2>4, <2>5, <2>6, <2>7, <2>8, <2>9, <2>10 DEF Next
<1> QED
  BY <1>1, <1>2, PTL DEF Spec

\* A step that leaves the day, the rows and the booked sums alone changes
\* neither the halt nor the latch.
LEMMA HaltFrame ==
    ASSUME UNCHANGED <<today, rows, booked>>
    PROVE  /\ Halted' <=> Halted
           /\ rows'[today'].open <=> rows[today].open
  BY DEF Halted

\* CountFrom(base) leaves base in force only where trading is halted.
LEMMA CountFromHalt ==
    ASSUME NEW base, CountFrom(base), Halted'
    PROVE  entries' = base
  BY DEF CountFrom

\* The halt invariant is inductive.  The interesting steps are the ones that
\* start a halt (Book, Record) while other callers are already cleared.
LEMMA HaltInvStep ==
    ASSUME TypeOK, HaltInv, [Next]_vars
    PROVE  HaltInv'
<1> SUFFICES ASSUME NEW d \in Callers
             PROVE  /\ entries'[d] <= 1
                    /\ (~Halted' \/ MayEnter(d)') => entries'[d] = 0
  BY DEF HaltInv
<1> DEFINE Goal == /\ entries'[d] <= 1
                   /\ (~Halted' \/ MayEnter(d)') => entries'[d] = 0
<1>1. ASSUME NEW base \in [Callers -> {0}], CountFrom(base) PROVE Goal
  <2>1. entries' = base \/ entries' = [c \in Callers |-> 0]
    BY <1>1 DEF CountFrom
  <2> QED
    BY <1>1, <2>1
<1>2. ASSUME CountFrom(entries), MayEnter(d)' => MayEnter(d) PROVE Goal
  <2>1. CASE Halted'
    <3>1. entries' = entries
      BY <1>2, <2>1 DEF CountFrom
    <3> QED
      BY <1>2, <2>1, <3>1 DEF HaltInv
  <2>2. CASE ~Halted'
    BY <1>2, <2>2 DEF CountFrom
  <2> QED
    BY <2>1, <2>2
<1>3. ASSUME UNCHANGED <<today, rows, booked, entries>>,
             MayEnter(d)' => MayEnter(d)
      PROVE  Goal
  <2>1. entries'[d] = entries[d]
    BY <1>3
  <2>2. Halted' <=> Halted
    BY <1>3, HaltFrame
  <2> QED
    BY <1>3, <2>1, <2>2 DEF HaltInv
<1>4. ASSUME NEW c \in Callers, ReadDay(c) PROVE Goal
  <2>1. CASE ~Halted
    <3>1. entries'[d] = entries[d] /\ entries[d] = 0
      BY <1>4, <2>1 DEF ReadDay, HaltInv
    <3> QED
      BY <3>1
  <2>2. CASE Halted
    <3>1. MayEnter(d)' => d # c
      BY <1>4, <2>2 DEF ReadDay, Halted, MayEnter, GuardAllows, TypeOK
    <3>2. d # c => (MayEnter(d)' => MayEnter(d))
      BY <1>4 DEF ReadDay, MayEnter, GuardAllows, TypeOK
    <3> QED
      BY <1>3, <1>4, <3>1, <3>2 DEF ReadDay
  <2> QED
    BY <2>1, <2>2
<1>5. ASSUME NEW c \in Callers, Book(c) PROVE Goal
  <2>1. MayEnter(d)' => MayEnter(d)
    BY <1>5 DEF Book, MayEnter, GuardAllows, TypeOK
  <2> QED
    BY <1>2, <1>5, <2>1 DEF Book
<1>6. ASSUME NEW c \in Callers, Record(c) PROVE Goal
  <2>1. rows[today].open => rows'[today].open
    BY <1>6, RecordedRow DEF Record, TypeOK
  <2>2. MayEnter(d)' => MayEnter(d)
    BY <1>6, <2>1 DEF Record, EndIteration, MayEnter, GuardAllows, TypeOK
  <2> QED
    BY <1>2, <1>6, <2>2 DEF Record
<1>7. ASSUME NEW c \in Callers, CheckOpen(c) PROVE Goal
  <2>1. MayEnter(d)' => MayEnter(d)
    <3>1. CASE EndIteration(c)
      BY <1>7, <3>1 DEF CheckOpen, EndIteration, MayEnter, GuardAllows, TypeOK
    <3>2. CASE ~EndIteration(c)
      BY <1>7, <3>2 DEF CheckOpen, MayEnter, GuardAllows, TypeOK
    <3> QED
      BY <3>1, <3>2
  <2> QED
    BY <1>3, <1>7, <2>1 DEF CheckOpen
<1>8. ASSUME NEW c \in Callers, Enter(c) PROVE Goal
  <2>1. Halted' <=> Halted
    BY <1>8, HaltFrame DEF Enter
  <2>2. MayEnter(d)' => MayEnter(d) /\ d # c
    BY <1>8 DEF Enter, EndIteration, MayEnter, GuardAllows, TypeOK
  <2>3. CASE entries' = entries
    BY <2>1, <2>2, <2>3 DEF HaltInv
  <2>4. CASE entries' # entries
    <3>1. /\ GuardAllows(c) /\ Halted
          /\ entries' = [entries EXCEPT ![c] = entries[c] + 1]
      BY <1>8, <2>4, Zenon DEF Enter
    <3>2. MayEnter(c)
      BY <1>8, <3>1 DEF Enter, MayEnter
    <3>3. entries[c] = 0
      BY <3>2 DEF HaltInv
    <3>4. CASE d = c
      <4>1. entries'[d] = 1
        BY <3>1, <3>3, <3>4 DEF TypeOK
      <4> QED
        BY <2>1, <2>2, <3>1, <3>4, <4>1
    <3>5. CASE d # c
      <4>1. entries'[d] = entries[d]
        BY <3>1, <3>5 DEF TypeOK
      <4> QED
        BY <2>1, <2>2, <4>1 DEF HaltInv
    <3> QED
      BY <3>4, <3>5
  <2> QED
    BY <2>3, <2>4
<1>9. ASSUME NEW c \in Callers, Crash(c) PROVE Goal
  <2>1. MayEnter(d)' => MayEnter(d)
    BY <1>9 DEF Crash, EndIteration, MayEnter, GuardAllows, TypeOK
  <2> QED
    BY <1>3, <1>9, <2>1 DEF Crash
<1>10. CASE Midnight
  BY <1>1, <1>10 DEF Midnight
<1>11. CASE NextCandle
  BY <1>3, <1>11 DEF NextCandle, MayEnter, GuardAllows
<1>12. CASE Reset
  BY <1>1, <1>12 DEF Reset
<1>13. CASE UNCHANGED vars
  BY <1>3, <1>13 DEF vars, MayEnter, GuardAllows
<1> QED
  BY <1>4, <1>5, <1>6, <1>7, <1>8, <1>9, <1>10, <1>11, <1>12, <1>13 DEF Next

\* However many callers race, whatever crashes between booking a loss and
\* recording it: once the day is halted each opens at most one position.
THEOREM OneEntryOnceHalted == Spec => []AtMostOneEntryOnceHalted
<1>1. Init => HaltInv
  <2> SUFFICES ASSUME Init, NEW c \in Callers
               PROVE  entries[c] <= 1 /\ entries[c] = 0
    BY DEF HaltInv
  <2> QED
    BY DEF Init
<1>2. TypeOK /\ HaltInv /\ [Next]_vars => HaltInv'
  BY HaltInvStep
<1>3. HaltInv => AtMostOneEntryOnceHalted
  BY DEF HaltInv, AtMostOneEntryOnceHalted
<1> QED
  BY <1>1, <1>2, <1>3, TypeCorrect, PTL DEF Spec

\* The latch of a date survives every step but the deletion of its row.
THEOREM LatchSticky == Spec => LatchOnlyDeleted
<1> DEFINE Sticky == \A d \in Days :
              rows[d].open => rows'[d].open \/ rows'[d] = NoRow
<1>1. TypeOK /\ [Next]_vars => [Sticky]_vars
  <2> SUFFICES ASSUME TypeOK, Next, NEW d \in Days, rows[d].open
               PROVE  rows'[d].open \/ rows'[d] = NoRow
    BY DEF vars
  <2>1. ASSUME NEW c \in Callers, Record(c)
        PROVE  rows'[d].open
    BY <2>1, RecordedRow DEF Record, TypeOK
  <2>2. CASE Reset
    BY <2>2 DEF Reset, TypeOK
  <2>3. CASE rows' = rows
    BY <2>3
  <2> QED
    BY <2>1, <2>2, <2>3 DEF Next, ReadDay, Book, CheckOpen, Enter, Crash,
                            Midnight, NextCandle
<1> QED
  BY <1>1, TypeCorrect, PTL DEF Spec, LatchOnlyDeleted

-----------------------------------------------------------------------------
(* The day's list of results.                                              *)

\* Induction over the numbers, for a set of them.
LEMMA SetOfNumbers ==
    ASSUME NEW S, 0 \in S, \A n \in Nat : n \in S => n + 1 \in S
    PROVE  \A n \in Nat : n \in S
<1> DEFINE T == Nat \ S
<1> SUFFICES ASSUME T # {} PROVE FALSE
  OBVIOUS
<1>1. \E x \in T : \A y \in T : ~ (<<y, x>> \in OpToRel(<, Nat))
  BY NatLessThanWellFounded, WFMin, Zenon
<1>2. PICK x \in T : \A y \in T : ~(y < x)
  BY <1>1, Zenon DEF OpToRel
<1>3. x # 0 /\ x \in Nat
  OBVIOUS
<1>4. x - 1 \in Nat /\ x - 1 < x
  BY <1>3
<1>5. x - 1 \in S
  BY <1>2, <1>4
<1> QED
  BY <1>3, <1>4, <1>5

\* What the k-th result adds to the total.
Addend(results, k) == IF results[k].funded THEN results[k].pct ELSE 0

\* The totals over the first n results, as read off the function g.
Running(results, n, g) ==
    [k \in 0 .. n |-> IF k = 0 THEN 0 ELSE g[k - 1] + Addend(results, k)]

\* The totals over a list of results exist, so that a total is the one before
\* it and what the result adds.
LEMMA TotalsExist ==
    ASSUME NEW results, Len(results) \in Nat
    PROVE  Totals(results) = Running(results, Len(results), Totals(results))
<1> DEFINE Defined == {n \in Nat : \E g : g = Running(results, n, g)}
<1>1. 0 \in Defined
  <2> DEFINE g == [k \in 0 .. 0 |-> 0]
  <2>1. g = Running(results, 0, g)
    BY DEF Running
  <2> QED
    BY <2>1
<1>2. ASSUME NEW n \in Nat, n \in Defined PROVE n + 1 \in Defined
  <2>1. PICK g : g = Running(results, n, g)
    BY <1>2
  <2> DEFINE f == Running(results, n + 1, g)
  <2>2. \A k \in 0 .. n : f[k] = g[k]
    BY <2>1 DEF Running
  <2>3. \A k \in 1 .. (n + 1) :
            f[k] = g[k - 1] + Addend(results, k) /\ k - 1 \in 0 .. n
    BY DEF Running
  <2>4. f = [k \in 0 .. (n + 1) |-> f[k]] /\ f[0] = 0
    BY DEF Running
  <2> HIDE DEF f
  <2>5. \A k \in 1 .. (n + 1) : f[k] = f[k - 1] + Addend(results, k)
    BY <2>2, <2>3
  <2>6. \A k \in 0 .. (n + 1) :
            f[k] = IF k = 0 THEN 0 ELSE f[k - 1] + Addend(results, k)
    <3>1. \A k \in 0 .. (n + 1) : k = 0 \/ k \in 1 .. (n + 1)
      OBVIOUS
    <3> QED
      BY <2>4, <2>5, <3>1
  <2>7. f = Running(results, n + 1, f)
    BY <2>4, <2>6 DEF Running
  <2> QED
    BY <2>7
<1>3. Len(results) \in Defined
  <2> HIDE DEF Defined
  <2> QED
    BY <1>1, <1>2, SetOfNumbers
<1>4. \E g : g = Running(results, Len(results), g)
  BY <1>3
<1> QED
  BY <1>4 DEF Totals, Running, Addend

LEMMA TotalsStep ==
    ASSUME NEW results \in Seq(Outcomes)
    PROVE  /\ Totals(results)[0] = 0
           /\ \A k \in 1 .. Len(results) :
                 Totals(results)[k] = Totals(results)[k - 1] + Addend(results, k)
<1>1. Len(results) \in Nat
  OBVIOUS
<1>2. Totals(results) = Running(results, Len(results), Totals(results))
  BY <1>1, TotalsExist
<1> QED
  BY <1>1, <1>2 DEF Running

\* A further result leaves the totals before it as they were.
LEMMA EarlierTotals ==
    ASSUME NEW results \in Seq(Outcomes), NEW o \in Outcomes
    PROVE  \A k \in 0 .. Len(results) :
               Totals(Append(results, o))[k] = Totals(results)[k]
<1> DEFINE longer == Append(results, o)
           Same == {n \in Nat : n <= Len(results)
                                   => Totals(longer)[n] = Totals(results)[n]}
<1>1. /\ longer \in Seq(Outcomes) /\ Len(longer) = Len(results) + 1
      /\ Len(results) \in Nat
      /\ \A k \in 1 .. Len(results) : longer[k] = results[k]
  OBVIOUS
<1> HIDE DEF longer
<1>2. 0 \in Same
  BY <1>1, TotalsStep
<1>3. ASSUME NEW n \in Nat, n \in Same PROVE n + 1 \in Same
  <2> SUFFICES ASSUME n + 1 <= Len(results)
               PROVE  Totals(longer)[n + 1] = Totals(results)[n + 1]
    OBVIOUS
  <2>1. n + 1 \in 1 .. Len(results) /\ n + 1 \in 1 .. Len(longer) /\ (n + 1) - 1 = n
    BY <1>1
  <2>2. Totals(longer)[n + 1] = Totals(longer)[n] + Addend(longer, n + 1)
    BY <1>1, <2>1, TotalsStep
  <2>3. Totals(results)[n + 1] = Totals(results)[n] + Addend(results, n + 1)
    BY <2>1, TotalsStep
  <2>4. Totals(longer)[n] = Totals(results)[n]
    BY <1>1, <1>3
  <2>5. Addend(longer, n + 1) = Addend(results, n + 1)
    BY <1>1, <2>1 DEF Addend
  <2> QED
    BY <2>2, <2>3, <2>4, <2>5
<1> HIDE DEF Same
<1>4. \A n \in Nat : n \in Same
  BY <1>2, <1>3, SetOfNumbers
<1> QED
  BY <1>1, <1>4 DEF Same, longer

\* What one more result makes of the sum and of the latch.
LEMMA OneMoreResult ==
    ASSUME NEW results \in Seq(Outcomes), NEW o \in Outcomes
    PROVE  LET longer == Append(results, o) IN
           /\ SumOf(longer) = SumOf(results) + (IF o.funded THEN o.pct ELSE 0)
           /\ Tripped(longer) <=> \/ Tripped(results) \/ ~o.funded
                                  \/ SumOf(longer) <= -MaxLoss
<1> DEFINE longer == Append(results, o)
           n == Len(results)
<1>1. /\ longer \in Seq(Outcomes) /\ Len(longer) = n + 1 /\ n \in Nat
      /\ \A k \in 1 .. n : longer[k] = results[k]
      /\ longer[n + 1] = o
  OBVIOUS
<1>2. \A k \in 0 .. n : Totals(longer)[k] = Totals(results)[k]
  BY EarlierTotals
<1> HIDE DEF longer, n
<1>3. SumOf(longer) = Totals(longer)[n + 1] /\ SumOf(results) = Totals(results)[n]
  BY <1>1 DEF SumOf, n
<1>4. Totals(longer)[n + 1] = Totals(longer)[n] + Addend(longer, n + 1)
  <2>1. n + 1 \in 1 .. Len(longer) /\ (n + 1) - 1 = n
    BY <1>1
  <2> QED
    BY <1>1, <2>1, TotalsStep
<1>5. SumOf(longer) = SumOf(results) + (IF o.funded THEN o.pct ELSE 0)
  BY <1>1, <1>2, <1>3, <1>4 DEF Addend
<1>6. \A k \in 1 .. Len(longer) : k \in 1 .. n \/ k = n + 1
  BY <1>1
<1>7. ASSUME Tripped(longer)
      PROVE  Tripped(results) \/ ~o.funded \/ SumOf(longer) <= -MaxLoss
  <2>1. PICK k \in 1 .. Len(longer) :
            ~longer[k].funded \/ Totals(longer)[k] <= -MaxLoss
    BY <1>7 DEF Tripped
  <2>2. CASE k \in 1 .. n
    BY <1>1, <1>2, <2>1, <2>2 DEF Tripped, n
  <2>3. CASE k = n + 1
    BY <1>1, <1>3, <2>1, <2>3
  <2> QED
    BY <1>6, <2>2, <2>3
<1>8. ASSUME Tripped(results) PROVE Tripped(longer)
  <2>1. PICK k \in 1 .. n : ~results[k].funded \/ Totals(results)[k] <= -MaxLoss
    BY <1>8 DEF Tripped, n
  <2>2. k \in 1 .. Len(longer) /\ k \in 0 .. n
    BY <1>1
  <2> QED
    BY <1>1, <1>2, <2>1, <2>2 DEF Tripped
<1>9. ASSUME ~o.funded \/ SumOf(longer) <= -MaxLoss PROVE Tripped(longer)
  <2>1. n + 1 \in 1 .. Len(longer)
    BY <1>1
  <2> QED
    BY <1>1, <1>3, <1>9, <2>1 DEF Tripped
<1> QED
  BY <1>5, <1>7, <1>8, <1>9 DEF longer

LEMMA NoResults == SumOf(<< >>) = 0 /\ ~Tripped(<< >>)
<1> DEFINE none == << >>
<1>1. none \in Seq(Outcomes) /\ Len(none) = 0
  OBVIOUS
<1> HIDE DEF none
<1>2. Totals(none)[0] = 0
  BY <1>1, TotalsStep
<1>3. SumOf(none) = 0 /\ ~Tripped(none)
  BY <1>1, <1>2 DEF SumOf, Tripped
<1> QED
  BY <1>3 DEF none

-----------------------------------------------------------------------------
(* The rows.                                                               *)

\* A recorded result does to the row what it does to the day's list.
LEMMA RecordedIsOneMore ==
    ASSUME NEW r \in Rows, NEW results \in Seq(Outcomes), NEW o \in Outcomes,
           r.pnl = SumOf(results), r.open <=> Tripped(results)
    PROVE  /\ Recorded(r, o).pnl = SumOf(Append(results, o))
           /\ Recorded(r, o).open <=> Tripped(Append(results, o))
<1>1. r.pnl \in Int /\ o.pct \in Int /\ o.funded \in BOOLEAN /\ MaxLoss \in Nat
  BY MaxLossAssumption DEF Rows, Outcomes
<1> DEFINE sum == SumOf(Append(results, o))
           trip == Tripped(Append(results, o))
<1>2. /\ sum = SumOf(results) + (IF o.funded THEN o.pct ELSE 0)
      /\ trip <=> Tripped(results) \/ ~o.funded \/ sum <= -MaxLoss
  BY OneMoreResult
<1> HIDE DEF sum, trip
<1>3. CASE o.funded
  <2>1. sum = r.pnl + o.pct
    BY <1>2, <1>3
  <2>2. trip <=> r.open \/ r.pnl + o.pct <= -MaxLoss
    BY <1>2, <1>3, <2>1
  <2>3. /\ Recorded(r, o).pnl = r.pnl + o.pct
        /\ Recorded(r, o).open <=> r.open \/ r.pnl + o.pct <= -MaxLoss
    BY <1>3 DEF Recorded, Accumulate
  <2> QED
    BY <2>1, <2>2, <2>3 DEF sum, trip
<1>4. CASE ~o.funded
  <2>1. sum = r.pnl /\ trip
    BY <1>1, <1>2, <1>4
  <2>2. Recorded(r, o).pnl = r.pnl /\ Recorded(r, o).open
    BY <1>4 DEF Recorded, ForceOpen
  <2> QED
    BY <2>1, <2>2 DEF sum, trip
<1> QED
  BY <1>3, <1>4

\* No result is lost, whoever records it beside whom (RowIsTheDaysResults).
THEOREM NoResultLost == Spec => []RowIsTheDaysResults
<1>1. Init => RowIsTheDaysResults
  <2> SUFFICES ASSUME Init, NEW d \in Days
               PROVE  rows[d].pnl = SumOf(hist[d]) /\ (rows[d].open <=> Tripped(hist[d]))
    BY DEF RowIsTheDaysResults
  <2>1. rows[d] = NoRow /\ hist[d] = << >>
    BY DEF Init
  <2> QED
    BY <2>1, NoResults DEF NoRow
<1>2. TypeOK /\ RowIsTheDaysResults /\ [Next]_vars => RowIsTheDaysResults'
  <2> SUFFICES ASSUME TypeOK, RowIsTheDaysResults, [Next]_vars, NEW d \in Days
               PROVE  /\ rows'[d].pnl = SumOf(hist'[d])
                      /\ rows'[d].open <=> Tripped(hist'[d])
    BY DEF RowIsTheDaysResults, Days
  <2>0. /\ rows[d].pnl = SumOf(hist[d])
        /\ rows[d].open <=> Tripped(hist[d])
    BY DEF RowIsTheDaysResults
  <2>1. ASSUME NEW c \in Callers, Record(c), d = today
        PROVE  /\ rows'[d].pnl = SumOf(hist'[d])
               /\ rows'[d].open <=> Tripped(hist'[d])
    <3>1. rows'[d] = Recorded(rows[d], pending[c]) /\ hist'[d] = Append(hist[d], pending[c])
      BY <2>1 DEF Record, TypeOK
    <3>2. rows[d] \in Rows /\ hist[d] \in Seq(Outcomes) /\ pending[c] \in Outcomes
      BY DEF TypeOK
    <3> QED
      BY <2>0, <3>1, <3>2, RecordedIsOneMore
  <2>2. CASE Reset /\ d = today
    <3>1. rows'[d] = NoRow /\ hist'[d] = << >>
      BY <2>2 DEF Reset, TypeOK
    <3> QED
      BY <3>1, NoResults DEF NoRow
  <2>3. CASE rows'[d] = rows[d] /\ hist'[d] = hist[d]
    BY <2>0, <2>3
  <2>4. ASSUME NEW c \in Callers, Record(c), d # today
        PROVE  rows'[d] = rows[d] /\ hist'[d] = hist[d]
    BY <2>4 DEF Record, TypeOK
  <2>5. Reset /\ d # today => rows'[d] = rows[d] /\ hist'[d] = hist[d]
    BY DEF Reset, TypeOK
  <2> QED
    BY <2>1, <2>2, <2>3, <2>4, <2>5 DEF Next, ReadDay, Book, CheckOpen, Enter,
                                       Crash, Midnight, NextCandle, vars
<1> QED
  BY <1>1, <1>2, TypeCorrect, PTL DEF Spec
=============================================================================
