---------------------------- MODULE PaperPortfolio ----------------------------
(***************************************************************************)
(* The one paper_portfolio row that every symbol of the spot and futures   *)
(* paper engines shares (paper-trading/engine.ts, futures-engine.ts, with  *)
(* the simulated adapters).  A symbol is worked on by one fiber of a       *)
(* watchlist sweep, or by a process of its own.                            *)
(*                                                                         *)
(* An iteration reads the row and its position, waits for candles and      *)
(* order book, and writes the row back from what it read.  It is split at  *)
(* each wait and each commit: the other symbols move in between, and the   *)
(* process may die.  The signal, the exit reason, the risk guard, the kill *)
(* switch and the breaker are choices; the start-of-day row, which only    *)
(* scales what the breaker is told, is left out.                           *)
(***************************************************************************)
EXTENDS Integers

CONSTANTS
    Symbols,
    Futures,    \* the symbols the futures engine trades
    Initial,    \* initialCapital
    Fee,        \* the fee of an entry
    Results,    \* what a full or partial close can add, net of its fee
    MaxRuns     \* bound: iterations of all symbols

ASSUME FuturesAssumption == Futures \subseteq Symbols
ASSUME InitialAssumption == Initial \in Nat \ {0}
ASSUME FeeAssumption == Fee \in Nat
ASSUME ResultsAssumption == Results \subseteq Int
ASSUME MaxRunsAssumption == MaxRuns \in Nat

VARIABLES
    capital, peak,  \* paper_portfolio; 0 and 0 while there is no row
    lots,           \* per symbol: the paper_positions row; 0 none, 1 scaled out
    pc,             \* per symbol: where its iteration is
    copy,           \* per symbol: what the iteration read
    net,            \* per symbol: its result, booked and not yet saved
    (***********************************************************************)
    (* History and bounds.                                                 *)
    (***********************************************************************)
    owned,      \* per symbol: lots entered less lots in the trade ledger
    earned,     \* all results and fees so far
    due,        \* the part of earned whose iterations have yet to save it
    fresh,      \* per symbol: the row is still worth what the iteration read
    torn,       \* an iteration saved over another's, or died before its save
    late,       \* per symbol: entries since the account is blown (up to 2)
    runs

vars == <<capital, peak, lots, pc, copy, net, owned, earned, due, fresh, torn, late, runs>>

Larger(a, b) == IF a > b THEN a ELSE b

Points == {"idle", "market", "decide", "order", "closing",
           "booked", "scaled", "opened", "resave", "record"}
Copies == [capital : Int, peak : Int, lots : 0..2]
NoCopy == [capital |-> 0, peak |-> 0, lots |-> 0]

\* getPortfolio reports 0 and 0 for a missing row, and the engines take that
\* for a fresh account.
IsFresh == capital <= 0 /\ peak <= 0
Worth == IF IsFresh THEN Initial ELSE capital
Peak == Larger(peak, Worth)

\* "a blown account (capital <= 0 with positive peak)".
Blown == capital <= 0 /\ peak > 0

TypeOK ==
    /\ capital \in Int /\ peak \in Int
    /\ lots \in [Symbols -> 0..2]
    /\ pc \in [Symbols -> Points]
    /\ copy \in [Symbols -> Copies]
    /\ net \in [Symbols -> Int]
    /\ owned \in [Symbols -> Int]
    /\ earned \in Int /\ due \in Int
    /\ fresh \in [Symbols -> BOOLEAN] /\ torn \in BOOLEAN
    /\ late \in [Symbols -> 0..2]
    /\ runs \in 0..MaxRuns

Init ==
    /\ capital = 0 /\ peak = 0
    /\ lots = [s \in Symbols |-> 0]
    /\ pc = [s \in Symbols |-> "idle"]
    /\ copy = [s \in Symbols |-> NoCopy]
    /\ net = [s \in Symbols |-> 0]
    /\ owned = [s \in Symbols |-> 0]
    /\ earned = 0 /\ due = 0
    /\ fresh = [s \in Symbols |-> FALSE] /\ torn = FALSE
    /\ late = [s \in Symbols |-> 0]
    /\ runs = 0

-----------------------------------------------------------------------------
account == <<capital, peak>>
book == <<lots, net, owned, earned, due>>

Goto(s, at, next) == pc[s] = at /\ pc' = [pc EXCEPT ![s] = next]

\* setPortfolio(c, p) by the iteration of s.
SetPortfolio(s, c, p) ==
    /\ capital' = c /\ peak' = p
    /\ torn' = (torn \/ ~fresh[s])
    /\ fresh' = [t \in Symbols |-> fresh[t] /\ Worth' = Worth /\ Peak' = Peak]
    /\ late' = IF Blown' THEN late ELSE [t \in Symbols |-> 0]

\* Mutant: the position is not loaded.
ReadNoPosition(s) ==
    /\ runs < MaxRuns /\ runs' = runs + 1
    /\ Goto(s, "idle", "market")
    /\ copy' = [copy EXCEPT ![s] = [capital |-> Worth, peak |-> Peak]]
    /\ fresh' = [fresh EXCEPT ![s] = TRUE]
    /\ UNCHANGED <<account, book, torn, late>>

\* getPortfolio and getOpenPosition.
Read(s) ==
    /\ runs < MaxRuns /\ runs' = runs + 1
    /\ Goto(s, "idle", "market")
    /\ copy' = [copy EXCEPT ![s] = [capital |-> Worth, peak |-> Peak,
                                    lots |-> lots[s]]]
    /\ fresh' = [fresh EXCEPT ![s] = TRUE]
    /\ UNCHANGED <<account, book, torn, late>>

\* Too few candles or an empty book hold the iteration.
Market(s) ==
    /\ Goto(s, "market", "decide") \/ Goto(s, "market", "idle")
    /\ UNCHANGED <<account, book, copy, fresh, torn, late, runs>>

\* Holds that save nothing: at the switch, the breaker, a blown account or an
\* entry without a plan.  The futures engine asks them on an entry signal only.
Hold(s) ==
    /\ s \in Futures => copy[s].lots = 0
    /\ Goto(s, "decide", "idle")
    /\ UNCHANGED <<account, book, copy, fresh, torn, late, runs>>

\* No exit and no entry signal, or a risk guard that refuses the entry.  The
\* spot engine has held a blown account before.
Save(s) ==
    /\ s \notin Futures => copy[s].capital > 0
    /\ Goto(s, "decide", "idle")
    /\ SetPortfolio(s, copy[s].capital, copy[s].peak)
    /\ UNCHANGED <<book, copy, runs>>

\* Mutant: the capital is not asked for.
PlaceOrderBlown(s) ==
    /\ copy[s].lots = 0
    /\ Goto(s, "decide", "order")
    /\ late' = IF Blown /\ late[s] < 2 THEN [late EXCEPT ![s] = @ + 1] ELSE late
    /\ UNCHANGED <<account, book, copy, fresh, torn, runs>>

PlaceOrder(s) ==
    /\ copy[s].lots = 0 /\ copy[s].capital > 0
    /\ Goto(s, "decide", "order")
    /\ late' = IF Blown /\ late[s] < 2 THEN [late EXCEPT ![s] = @ + 1] ELSE late
    /\ UNCHANGED <<account, book, copy, fresh, torn, runs>>

\* The iteration's result, in the ledger but not yet in the row.
Earn(s, n) ==
    /\ net' = [net EXCEPT ![s] = n]
    /\ earned' = earned + n /\ due' = due + n

\* saveOpenPosition after the fill.
Open(s) ==
    /\ Goto(s, "order", "opened")
    /\ lots' = [lots EXCEPT ![s] = 2]
    /\ owned' = [owned EXCEPT ![s] = @ + 2]
    /\ Earn(s, -Fee)
    /\ UNCHANGED <<account, copy, fresh, torn, late, runs>>

\* adapter.closePosition, awaited before anything is booked.
Close(s) ==
    /\ copy[s].lots > 0
    /\ Goto(s, "decide", "closing")
    /\ UNCHANGED <<account, book, copy, fresh, torn, late, runs>>

\* closePosition: the trade and the position's deletion in one transaction.
Book(s) ==
    /\ Goto(s, "closing", "booked")
    /\ lots' = [lots EXCEPT ![s] = 0]
    /\ owned' = [owned EXCEPT ![s] = @ - copy[s].lots]
    /\ \E n \in Results : Earn(s, n)
    /\ UNCHANGED <<account, copy, fresh, torn, late, runs>>

\* scaleOutPosition: the trade and the position's update in one transaction.
ScaleOut(s) ==
    /\ copy[s].lots = 2
    /\ Goto(s, "decide", "scaled")
    /\ lots' = [lots EXCEPT ![s] = 1]
    /\ owned' = [owned EXCEPT ![s] = @ - 1]
    /\ \E n \in Results : Earn(s, n)
    /\ UNCHANGED <<account, copy, fresh, torn, late, runs>>

\* Mutant: the result is kept out of the row.
SettleStale(s, at, next) ==
    /\ Goto(s, at, next)
    /\ SetPortfolio(s, copy[s].capital, copy[s].peak)
    /\ due' = due - net[s]
    /\ net' = [net EXCEPT ![s] = 0]
    /\ UNCHANGED <<lots, copy, owned, earned, runs>>

\* Mutant: the peak is not carried along.
SettleNoPeak(s, at, next) ==
    /\ Goto(s, at, next)
    /\ LET c == copy[s].capital + net[s] IN SetPortfolio(s, c, c)
    /\ due' = due - net[s]
    /\ net' = [net EXCEPT ![s] = 0]
    /\ UNCHANGED <<lots, copy, owned, earned, runs>>

\* The row takes the result; an entry's fee cannot raise the peak.
Settle(s, at, next) ==
    /\ Goto(s, at, next)
    /\ LET c == copy[s].capital + net[s]
       IN SetPortfolio(s, c, Larger(copy[s].peak, c))
    /\ due' = due - net[s]
    /\ net' = [net EXCEPT ![s] = 0]
    /\ UNCHANGED <<lots, copy, owned, earned, runs>>

SettleEntry(s) == Settle(s, "opened", "idle")
SettleClose(s) == Settle(s, "booked", "record")
SettleScaleOut(s) == Settle(s, "scaled", "resave")

\* Mutant: the position is saved as it was read.
ResaveOld(s) ==
    /\ Goto(s, "resave", "record")
    /\ lots' = [lots EXCEPT ![s] = copy[s].lots]
    /\ UNCHANGED <<account, copy, net, owned, earned, due, fresh, torn, late, runs>>

\* saveOpenPosition(updatedPosition): an upsert of what is already there.
Resave(s) ==
    /\ Goto(s, "resave", "record")
    /\ lots' = [lots EXCEPT ![s] = copy[s].lots - 1]
    /\ UNCHANGED <<account, copy, net, owned, earned, due, fresh, torn, late, runs>>

\* recordTradeResult.
Record(s) ==
    /\ Goto(s, "record", "idle")
    /\ UNCHANGED <<account, book, copy, fresh, torn, late, runs>>

\* An error is not caught: it ends the iteration as a crash does, and with it
\* the sweep, whose other symbols die at points of their own.
Die(s) ==
    /\ pc[s] # "idle" /\ pc' = [pc EXCEPT ![s] = "idle"]
    /\ torn' = (torn \/ net[s] # 0)
    /\ due' = due - net[s]
    /\ net' = [net EXCEPT ![s] = 0]
    /\ UNCHANGED <<account, lots, copy, owned, earned, fresh, late, runs>>

Iteration(s) ==
    \/ Read(s) \/ Market(s) \/ Hold(s) \/ Save(s)
    \/ PlaceOrder(s) \/ Open(s) \/ SettleEntry(s)
    \/ Close(s) \/ Book(s) \/ SettleClose(s)
    \/ ScaleOut(s) \/ SettleScaleOut(s) \/ Resave(s)
    \/ Record(s)

Next == \E s \in Symbols : Iteration(s) \/ Die(s)

Spec == Init /\ [][Next]_vars

-----------------------------------------------------------------------------
(* Properties.                                                             *)

\* The row holds the initial capital and every result and fee, unless two
\* iterations overlapped with a change or one died between its ledger entry
\* and its save: setPortfolio writes what the iteration read, not a difference.
AccountMatchesLedger == ~torn => Worth + due = Initial + earned

\* Once there is a row, no result and no stale save make it look like a
\* missing one: initialCapital is not paid in again, however deep the loss,
\* and the drawdown is measured from a peak that covers the capital.
BlownIsNotFresh == peak # 0 => (peak >= Initial /\ capital <= peak)

\* While the account is blown, a symbol enters at most the one position for
\* which it had read the capital before.
AtMostOneEntryOnBlown == Blown => \A s \in Symbols : late[s] <= 1

\* Every lot that was entered is in the position row or in the trade ledger,
\* once, wherever the process died.
LotsTradedOnce == owned = lots

\* "a blown account (capital <= 0 with positive peak) that must stay
\* terminal": with no position left to win it back, it is never in funds again.
Ruined == Blown /\ \A s \in Symbols : lots[s] = 0 /\ pc[s] # "booked"
BlownIsTerminal == [][Ruined => capital' <= 0]_vars
=============================================================================
