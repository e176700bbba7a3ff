------------------------------ MODULE KillSwitch ------------------------------
(***************************************************************************)
(* The SQLite-backed kill switch of risk/kill-switch.ts, shared by every   *)
(* process that trades on one database.  A process holds one service       *)
(* object (and so one mirror); the fibers of its watchlist sweep are the   *)
(* callers, each asking isEngaged() before it sends an order.              *)
(*                                                                         *)
(* A call of the service is one synchronous statement, so it is one step.  *)
(* Any call may find the database unusable (locked past its timeout, disk  *)
(* full, closed).  Reasons and timestamps are left out.                    *)
(***************************************************************************)
EXTENDS Naturals

CONSTANTS
    Procs,      \* processes that open the database
    Callers,    \* fibers that consult the switch before an order
    Owner       \* the process a fiber runs in

ASSUME OwnerAssumption == Owner \in [Callers -> Procs]

VARIABLES
    row,        \* risk_kill_switch(id = 1)
    mirror,     \* per process: last known state, "null" until confirmed
    live,       \* processes that are running
    answer,     \* per caller: the outcome of its last isEngaged()
    (***********************************************************************)
    (* History, read by properties only.                                   *)
    (***********************************************************************)
    stopped,    \* a stop was persisted, and neither lifted nor deleted since
    sent        \* per caller: orders sent since the stop (saturates at 2)

vars == <<row, mirror, live, answer, stopped, sent>>

Rows == {"missing", "off", "on"}
Mirrors == {"null", "false", "true"}
Answers == {"none", "clear", "engaged", "error"}

TypeOK ==
    /\ row \in Rows
    /\ mirror \in [Procs -> Mirrors]
    /\ live \subseteq Procs
    /\ answer \in [Callers -> Answers]
    /\ stopped \in BOOLEAN
    /\ sent \in [Callers -> 0..2]

Init ==
    /\ row = "off"
    /\ mirror = [p \in Procs |-> "null"]
    /\ live = {}
    /\ answer = [c \in Callers |-> "none"]
    /\ stopped = FALSE
    /\ sent = [c \in Callers |-> 0]

-----------------------------------------------------------------------------
(* The process: constructor and end of life.                               *)

\* The constructor creates the table and inserts a disengaged row unless one
\* is there; an unusable database makes it throw and nothing starts.
EnsureRow(r) == IF r = "missing" THEN "off" ELSE r

Start(p) ==
    /\ p \notin live
    /\ live' = live \cup {p}
    /\ mirror' = [mirror EXCEPT ![p] = "null"]
    /\ row' = EnsureRow(row)
    /\ UNCHANGED <<answer, stopped, sent>>

\* A crash, or the exit that follows a KillSwitchError.
Exit(p) ==
    /\ p \in live
    /\ live' = live \ {p}
    /\ answer' = [c \in Callers |-> IF Owner[c] = p THEN "none" ELSE answer[c]]
    /\ UNCHANGED <<row, mirror, stopped, sent>>

-----------------------------------------------------------------------------
(* engage(): the mirror first, then the UPDATE.  An UPDATE of a missing     *)
(* row changes nothing and reports no error.                               *)

Engage(p) ==
    /\ p \in live
    /\ mirror' = [mirror EXCEPT ![p] = "true"]
    /\ \/ /\ row # "missing"
          /\ row' = "on"
          /\ stopped' = TRUE
          /\ sent' = IF stopped THEN sent ELSE [c \in Callers |-> 0]
       \/ UNCHANGED <<row, stopped, sent>>   \* no row to update, or it throws
    /\ UNCHANGED <<live, answer>>

(* disengage(): the UPDATE first; the mirror only after it succeeded.       *)

DisengageWrite(p) ==
    /\ row' = IF row = "missing" THEN row ELSE "off"
    /\ mirror' = [mirror EXCEPT ![p] = "false"]
    /\ stopped' = FALSE

DisengageThrow(p) == UNCHANGED <<row, mirror, stopped>>

Disengage(p) ==
    /\ p \in live
    /\ DisengageWrite(p) \/ DisengageThrow(p)
    /\ UNCHANGED <<live, answer, sent>>

(* isEngaged(): the row decides; the mirror only when it cannot be read.    *)

\* Mutant: the answer comes from the mirror once it says disengaged.
ReadRowCached(c) ==
    /\ answer' = [answer EXCEPT
                     ![c] = CASE row = "missing" -> "error"
                              [] mirror[Owner[c]] = "false" -> "clear"
                              [] row = "on" -> "engaged"
                              [] OTHER -> "clear"]
    /\ mirror' = [mirror EXCEPT
                     ![Owner[c]] = IF @ = "null" /\ row = "off" THEN "false" ELSE @]

ReadRow(c) ==
    IF row = "missing"
    THEN /\ answer' = [answer EXCEPT ![c] = "error"]
         /\ UNCHANGED mirror
    ELSE /\ mirror' = [mirror EXCEPT
                          ![Owner[c]] = IF row = "on" THEN "true" ELSE "false"]
         /\ answer' = [answer EXCEPT
                          ![c] = IF row = "on" THEN "engaged" ELSE "clear"]

\* Mutant: an unreadable row with an open mirror is taken as disengaged.
ReadThrowOpen(c) ==
    /\ answer' = [answer EXCEPT
                     ![c] = IF mirror[Owner[c]] = "true" THEN "engaged"
                            ELSE "clear"]
    /\ UNCHANGED mirror

ReadThrow(c) ==
    /\ answer' = [answer EXCEPT
                     ![c] = IF mirror[Owner[c]] = "true" THEN "engaged"
                            ELSE "error"]
    /\ UNCHANGED mirror

\* A caller that was told of an error never asks again: it aborts trading and
\* the failure ends its process (Exit).
IsEngaged(c) ==
    /\ Owner[c] \in live
    /\ answer[c] \in {"none", "engaged"}
    /\ ReadRow(c) \/ ReadThrow(c)
    /\ UNCHANGED <<row, live, stopped, sent>>

\* Mutant: the answer is kept for the orders of later iterations.
OrderOnOldAnswer(c) ==
    /\ Owner[c] \in live
    /\ answer[c] = "clear"
    /\ sent' = IF stopped /\ sent[c] < 2
               THEN [sent EXCEPT ![c] = @ + 1] ELSE sent
    /\ UNCHANGED <<row, mirror, live, answer, stopped>>

\* The order a caller sends on a clear answer; the next order needs a new one.
Order(c) ==
    /\ Owner[c] \in live
    /\ answer[c] = "clear"
    /\ answer' = [answer EXCEPT ![c] = "none"]
    /\ sent' = IF stopped /\ sent[c] < 2
               THEN [sent EXCEPT ![c] = @ + 1] ELSE sent
    /\ UNCHANGED <<row, mirror, live, stopped>>

\* Somebody deletes the row, or restores a database without one.
LoseRow ==
    /\ row # "missing"
    /\ row' = "missing"
    /\ stopped' = FALSE
    /\ UNCHANGED <<mirror, live, answer, sent>>

Next ==
    \/ \E p \in Procs : Start(p) \/ Exit(p) \/ Engage(p) \/ Disengage(p)
    \/ \E c \in Callers : IsEngaged(c) \/ Order(c)
    \/ LoseRow

Spec == Init /\ [][Next]_vars

\* A fiber that was cleared finishes the iteration it is in.
FairSpec == Spec /\ \A c \in Callers : WF_vars(Order(c))

-----------------------------------------------------------------------------
(* Properties.                                                             *)

\* No caller of any process is told "clear" while a persisted stop stands,
\* whatever crashed, restarted or failed to be read in between: a stop
\* engaged by another process is visible here (isEngaged reads the row) and
\* an unreadable row never opens the switch.
StopIsSticky ==
    [][\A c \in Callers :
          (stopped /\ answer[c] # "clear") => answer'[c] # "clear"]_vars

\* After a stop was persisted a fiber sends at most the one order whose check
\* it had already passed: the window between isEngaged() and placeOrder().
AtMostOneOrderAfterStop == stopped => \A c \in Callers : sent[c] <= 1

\* A stop that nobody lifts ends all trading on the database for good.
StopQuietsEveryCaller ==
    <>[]stopped => <>[](\A c \in Callers : answer[c] # "clear")

\* Processes that are already running do fail closed on a missing row: it takes
\* a restart, whose constructor inserts a disengaged row, to clear anybody.
MissingRowStopsRunning ==
    [][\A c \in Callers :
          (row = "missing" /\ answer[c] # "clear") => answer'[c] # "clear"]_vars
=============================================================================
