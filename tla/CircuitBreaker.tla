---------------------------- MODULE CircuitBreaker ----------------------------
(***************************************************************************)
(* The daily-loss circuit breaker of risk/circuit-breaker.ts together with *)
(* the way the paper-trading loops use it.  A caller is a fiber of a       *)
(* watchlist sweep or a one-symbol process; all share one database.        *)
(*                                                                         *)
(* An iteration reads the day's realized PnL (getTodayRealizedPnl), then   *)
(* either books a closed trade in the trades table and afterwards records  *)
(* its result with the breaker, or asks isOpen() and, past the risk guard, *)
(* opens a position.  The awaits between those steps let every other       *)
(* caller run, midnight pass, or the process die.                          *)
(*                                                                         *)
(* PnL is a whole percentage of start-of-day capital.                      *)
(***************************************************************************)
EXTENDS Integers, Sequences

CONSTANTS
    Callers,
    Results,    \* PnL percentages a closed trade can have
    MaxLoss,    \* maxDailyLossPct
    LastDay,    \* bound: days are 0 .. LastDay
    MaxTrades   \* bound: trades booked in a behaviour

ASSUME ResultsAssumption == Results \subseteq Int
ASSUME MaxLossAssumption == MaxLoss \in Nat \ {0}
ASSUME LastDayAssumption == LastDay \in Nat
ASSUME MaxTradesAssumption == MaxTrades \in Nat

Days == 0 .. LastDay
NoRow == [pnl |-> 0, open |-> FALSE, stored |-> FALSE]
Rows == [pnl : Int, open : BOOLEAN, stored : BOOLEAN]

VARIABLES
    today,      \* the UTC day, as todayKey() and date('now') see it
    candleDay,  \* the UTC day of the newest candle's timestamp
    rows,       \* risk_circuit_breaker, by date
    booked,     \* sum of the trades table's PnL, by date(closed_at)
    phase,      \* per caller: "idle", "read", "booked", "cleared"
    seen,       \* per caller: the day's realized PnL its iteration read
    pending,    \* per caller: [pct, funded], result still to be recorded
    (***********************************************************************)
    (* History and bounds.                                                 *)
    (***********************************************************************)
    hist,       \* the results recorded on each day, in order
    entries,    \* per caller: entries since trading was halted or reset (up to 2)
    trades      \* trades booked so far

vars == <<today, candleDay, rows, booked, phase, seen, pending, hist, entries, trades>>

Outcomes == [pct : Int, funded : BOOLEAN]
NoOutcome == [pct |-> 0, funded |-> TRUE]

TypeOK ==
    /\ today \in Days
    /\ candleDay \in Days
    /\ rows \in [Days -> Rows]
    /\ booked \in [Days -> Int]
    /\ phase \in [Callers -> {"idle", "read", "booked", "cleared"}]
    /\ seen \in [Callers -> Int]
    /\ pending \in [Callers -> Outcomes]
    /\ hist \in [Days -> Seq(Outcomes)]
    /\ entries \in [Callers -> 0 .. 2]
    /\ trades \in 0 .. MaxTrades

Init ==
    /\ today = 0
    /\ candleDay = 0
    /\ rows = [d \in Days |-> NoRow]
    /\ booked = [d \in Days |-> 0]
    /\ phase = [c \in Callers |-> "idle"]
    /\ seen = [c \in Callers |-> 0]
    /\ pending = [c \in Callers |-> NoOutcome]
    /\ hist = [d \in Days |-> << >>]
    /\ entries = [c \in Callers |-> 0]
    /\ trades = 0

\* New entries are off for the rest of the day: the latch is set, or the loss
\* in the trades table is past the limit the risk guard compares it with.
Halted == rows[today].open \/ booked[today] < -MaxLoss

\* entries counts from the moment trading halts.
CountFrom(base) == entries' = IF Halted' THEN base ELSE [c \in Callers |-> 0]

-----------------------------------------------------------------------------
(* The breaker's row.                                                      *)

\* Mutant: the threshold is tested on the trade instead of the day's sum.
AccumulateTradeOnly(r, pct) ==
    [pnl |-> r.pnl + pct, open |-> r.open \/ pct <= -MaxLoss, stored |-> TRUE]

\* accumulateSQL: the sum and the latch change in one statement.
Accumulate(r, pct) ==
    [pnl |-> r.pnl + pct,
     open |-> r.open \/ r.pnl + pct <= -MaxLoss,
     stored |-> TRUE]

\* openBreaker: forced open, the sum kept.
ForceOpen(r) == [pnl |-> r.pnl, open |-> TRUE, stored |-> TRUE]

\* recordTradeResult: start-of-day capital that is not positive opens it.
Recorded(r, o) == IF o.funded THEN Accumulate(r, o.pct) ELSE ForceOpen(r)

-----------------------------------------------------------------------------
(* One iteration of a caller.                                              *)

\* A new iteration reads everything afresh.
EndIteration(c) ==
    /\ phase' = [phase EXCEPT ![c] = "idle"]
    /\ seen' = [seen EXCEPT ![c] = 0]
    /\ pending' = [pending EXCEPT ![c] = NoOutcome]

ReadDay(c) ==
    /\ phase[c] = "idle"
    /\ phase' = [phase EXCEPT ![c] = "read"]
    /\ seen' = [seen EXCEPT ![c] = booked[today]]
    /\ UNCHANGED <<today, candleDay, rows, booked, pending, hist, entries, trades>>

\* The close is booked under the timestamp of the newest candle.
Book(c) ==
    /\ phase[c] = "read"
    /\ trades < MaxTrades
    /\ \E pct \in Results, funded \in BOOLEAN :
          /\ pending' = [pending EXCEPT
                            ![c] = [pct |-> pct, funded |-> funded]]
          /\ booked' = [booked EXCEPT ![candleDay] = @ + pct]
    /\ phase' = [phase EXCEPT ![c] = "booked"]
    /\ trades' = trades + 1
    /\ UNCHANGED <<today, candleDay, rows, seen, hist>>
    /\ CountFrom(entries)

Record(c) ==
    /\ phase[c] = "booked"
    /\ rows' = [rows EXCEPT ![today] = Recorded(@, pending[c])]
    /\ hist' = [hist EXCEPT ![today] = Append(@, pending[c])]
    /\ EndIteration(c)
    /\ UNCHANGED <<today, candleDay, booked, trades>>
    /\ CountFrom(entries)

\* Mutant: the breaker is not asked again once an iteration has started.
CheckOpenOnce(c) ==
    /\ phase[c] \in {"read", "idle"}
    /\ phase' = [phase EXCEPT ![c] = "cleared"]
    /\ UNCHANGED <<today, candleDay, rows, booked, seen, pending, hist,
                   entries, trades>>

\* isOpen(): a day without a row is closed; an unreadable row throws and ends
\* the iteration, as an open breaker does.
CheckOpen(c) ==
    /\ phase[c] = "read"
    /\ \/ /\ ~rows[today].open
          /\ phase' = [phase EXCEPT ![c] = "cleared"]
          /\ UNCHANGED <<seen, pending>>
       \/ EndIteration(c)
    /\ UNCHANGED <<today, candleDay, rows, booked, hist, entries, trades>>

\* The risk guard compares what the iteration read at its start.
GuardAllows(c) == ~ (seen[c] < -MaxLoss)

Enter(c) ==
    /\ phase[c] = "cleared"
    /\ EndIteration(c)
    /\ entries' = IF GuardAllows(c) /\ Halted /\ entries[c] < 2
                  THEN [entries EXCEPT ![c] = @ + 1] ELSE entries
    /\ UNCHANGED <<today, candleDay, rows, booked, hist, trades>>

\* The process dies, or recordTradeResult throws: a booked trade stays booked
\* and is never recorded.
Crash(c) ==
    /\ phase[c] # "idle"
    /\ EndIteration(c)
    /\ UNCHANGED <<today, candleDay, rows, booked, hist, entries, trades>>

-----------------------------------------------------------------------------
(* The clock and the operator.                                             *)

Midnight ==
    /\ today < LastDay
    /\ today' = today + 1
    /\ UNCHANGED <<candleDay, rows, booked, phase, seen, pending, hist,
                   trades>>
    /\ CountFrom([c \in Callers |-> 0])

NextCandle ==
    /\ candleDay # today
    /\ candleDay' = today
    /\ UNCHANGED <<today, rows, booked, phase, seen, pending, hist, entries, trades>>

Reset ==
    /\ rows' = [rows EXCEPT ![today] = NoRow]
    /\ hist' = [hist EXCEPT ![today] = << >>]
    /\ UNCHANGED <<today, candleDay, booked, phase, seen, pending, trades>>
    /\ CountFrom([c \in Callers |-> 0])

Next ==
    \/ \E c \in Callers : \/ ReadDay(c) \/ Book(c) \/ Record(c)
                          \/ CheckOpen(c) \/ Enter(c) \/ Crash(c)
    \/ Midnight \/ NextCandle \/ Reset

Spec == Init /\ [][Next]_vars

-----------------------------------------------------------------------------
(* Properties.                                                             *)

\* What the day's results say, read off the whole list: an unfunded result or
\* a running total at or below the limit trips the breaker.
Totals(results) ==
    LET total[k \in 0 .. Len(results)] ==
            IF k = 0 THEN 0
            ELSE total[k - 1] + (IF results[k].funded THEN results[k].pct ELSE 0)
    IN  total

SumOf(results) == Totals(results)[Len(results)]

Tripped(results) ==
    \E k \in 1 .. Len(results) :
        ~results[k].funded \/ Totals(results)[k] <= -MaxLoss

\* Results recorded concurrently by several callers are never lost: every row
\* is the fold of all results of its day, in the order they were recorded.
RowIsTheDaysResults ==
    \A d \in Days :
        /\ rows[d].pnl = SumOf(hist[d])
        /\ rows[d].open <=> Tripped(hist[d])

\* Once the day is halted, by the latch or by the booked loss alone (when a
\* crash kept it from the latch), a caller opens at most the one position it
\* was already cleared for.
AtMostOneEntryOnceHalted == Halted => \A c \in Callers : entries[c] <= 1

\* Profits do not reopen trading: the latch of a date is only ever deleted.
LatchOnlyDeleted ==
    [][\A d \in Days :
          rows[d].open => rows'[d].open \/ rows'[d] = NoRow]_vars
=============================================================================
