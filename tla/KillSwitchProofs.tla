--------------------------- MODULE KillSwitchProofs ---------------------------
(***************************************************************************)
(* The kill switch's guarantees for any number of processes and callers.   *)
(***************************************************************************)
EXTENDS KillSwitch, TLAPS

\* The row carries the stop, and an order sent since the stop used up the one
\* clear answer its caller can have been holding.
StopInv ==
    stopped => /\ row = "on"
               /\ \A c \in Callers :
                     /\ sent[c] <= 1
                     /\ answer[c] = "clear" => sent[c] = 0

\* The switch's variables keep their types whatever the callers do.
THEOREM TypeCorrect == Spec => []TypeOK
<1>1. Init => TypeOK
  <2> SUFFICES ASSUME Init PROVE TypeOK
    OBVIOUS
  <2>1. sent \in [Callers -> 0..2]
    BY DEF Init
  <2> QED
    BY <2>1, Zenon DEF Init, TypeOK, Rows, Mirrors, Answers
<1>2. TypeOK /\ [Next]_vars => TypeOK'
  <2> SUFFICES ASSUME TypeOK, [Next]_vars
               PROVE  TypeOK'
    OBVIOUS
  <2> USE DEF TypeOK, Rows, Mirrors, Answers
  <2>1. ASSUME NEW p \in Procs, Start(p) PROVE TypeOK'
    BY <2>1 DEF Start, EnsureRow
  <2>2. ASSUME NEW p \in Procs, Exit(p) PROVE TypeOK'
    BY <2>2, OwnerAssumption DEF Exit
  <2>3. ASSUME NEW p \in Procs, Engage(p) PROVE TypeOK'
    <3>1. sent' \in [Callers -> 0..2]
      BY <2>3 DEF Engage
    <3> QED
      BY <2>3, <3>1, Zenon DEF Engage
  <2>4. ASSUME NEW p \in Procs, Disengage(p) PROVE TypeOK'
    <3>1. CASE DisengageWrite(p)
      BY <2>4, <3>1 DEF Disengage, DisengageWrite
    <3>2. CASE DisengageThrow(p)
      BY <2>4, <3>2 DEF Disengage, DisengageThrow
    <3> QED
      BY <2>4, <3>1, <3>2 DEF Disengage
  <2>5. ASSUME NEW c \in Callers, IsEngaged(c) PROVE TypeOK'
    <3>1. Owner[c] \in Procs
      BY OwnerAssumption
    <3>2. CASE ReadRow(c)
      BY <2>5, <3>1, <3>2 DEF IsEngaged, ReadRow
    <3>3. CASE ReadThrow(c)
      BY <2>5, <3>1, <3>3 DEF IsEngaged, ReadThrow
    <3> QED
      BY <2>5, <3>2, <3>3 DEF IsEngaged
  <2>6. ASSUME NEW c \in Callers, Order(c) PROVE TypeOK'
    BY <2>6 DEF Order
  <2>7. CASE LoseRow
    BY <2>7 DEF LoseRow
  <2>8. CASE UNCHANGED vars
    BY <2>8 DEF vars
  <2> QED
    BY <2>1, <2>2, <2>3, <2>4, <2>5, <2>6, <2>7, <2>8 DEF Next
<1> QED
  BY <1>1, <1>2, PTL DEF Spec

\* Every step preserves the link between a stop, the row and the orders sent.
LEMMA StopInvStep ==
    ASSUME TypeOK, StopInv, [Next]_vars
    PROVE  StopInv'
<1> USE DEF TypeOK, Rows, Mirrors, Answers, StopInv
<1>1. ASSUME NEW p \in Procs, Start(p) PROVE StopInv'
  BY <1>1 DEF Start, EnsureRow
<1>2. ASSUME NEW p \in Procs, Exit(p) PROVE StopInv'
  BY <1>2 DEF Exit
<1>3. ASSUME NEW p \in Procs, Engage(p) PROVE StopInv'
  <2>1. CASE row' = "on" /\ sent' = IF stopped THEN sent ELSE [c \in Callers |-> 0]
    BY <1>3, <2>1 DEF Engage
  <2>2. CASE UNCHANGED <<row, stopped, sent>>
    BY <1>3, <2>2 DEF Engage
  <2> QED
    BY <1>3, <2>1, <2>2 DEF Engage
<1>4. ASSUME NEW p \in Procs, Disengage(p) PROVE StopInv'
  BY <1>4 DEF Disengage, DisengageWrite, DisengageThrow
<1>5. ASSUME NEW c \in Callers, IsEngaged(c) PROVE StopInv'
  <2>1. CASE ReadRow(c)
    BY <1>5, <2>1 DEF IsEngaged, ReadRow
  <2>2. CASE ReadThrow(c)
    BY <1>5, <2>2 DEF IsEngaged, ReadThrow
  <2> QED
    BY <1>5, <2>1, <2>2 DEF IsEngaged
<1>6. ASSUME NEW c \in Callers, Order(c) PROVE StopInv'
  BY <1>6 DEF Order
<1>7. CASE LoseRow
  BY <1>7 DEF LoseRow
<1>8. CASE UNCHANGED vars
  BY <1>8 DEF vars
<1> QED
  BY <1>1, <1>2, <1>3, <1>4, <1>5, <1>6, <1>7, <1>8 DEF Next

\* The inductive invariant: whatever is lost or restarted, a stop that stands is
\* in the row.
THEOREM StopInvariant == Spec => []StopInv
<1>1. Init => StopInv
  BY DEF Init, StopInv
<1>2. TypeOK /\ StopInv /\ [Next]_vars => StopInv'
  BY StopInvStep
<1> QED
  BY <1>1, <1>2, TypeCorrect, PTL DEF Spec

\* A fiber sends at most the one order it was already cleared for.
THEOREM OneOrderAfterStop == Spec => []AtMostOneOrderAfterStop
<1>1. StopInv => AtMostOneOrderAfterStop
  BY DEF StopInv, AtMostOneOrderAfterStop
<1> QED
  BY <1>1, StopInvariant, PTL

\* While a persisted stop stands no isEngaged() clears any caller.
THEOREM StopSticky == Spec => StopIsSticky
<1> DEFINE Quiet == \A c \in Callers :
              (stopped /\ answer[c] # "clear") => answer'[c] # "clear"
<1>1. TypeOK /\ StopInv /\ [Next]_vars => [Quiet]_vars
  <2> SUFFICES ASSUME TypeOK, StopInv, Next, stopped,
                      NEW c \in Callers, answer[c] # "clear"
               PROVE  answer'[c] # "clear"
    BY DEF vars
  <2> USE DEF TypeOK, Answers
  <2>1. row = "on"
    BY DEF StopInv
  <2>2. ASSUME NEW p \in Procs, Start(p) \/ Exit(p) \/ Engage(p) \/ Disengage(p)
        PROVE  answer'[c] # "clear"
    BY <2>2 DEF Start, Exit, Engage, Disengage
  <2>3. ASSUME NEW d \in Callers, IsEngaged(d)
        PROVE  answer'[c] # "clear"
    BY <2>1, <2>3 DEF IsEngaged, ReadRow, ReadThrow
  <2>4. ASSUME NEW d \in Callers, Order(d)
        PROVE  answer'[c] # "clear"
    BY <2>4 DEF Order
  <2>5. CASE LoseRow
    BY <2>5 DEF LoseRow
  <2> QED
    BY <2>2, <2>3, <2>4, <2>5 DEF Next
<1> QED
  BY <1>1, StopInvariant, TypeCorrect, PTL DEF Spec, StopIsSticky

\* While the row is missing nobody is cleared: it takes a new process.
THEOREM MissingRowStops == Spec => MissingRowStopsRunning
<1> DEFINE Quiet == \A c \in Callers :
              (row = "missing" /\ answer[c] # "clear") => answer'[c] # "clear"
<1>1. TypeOK /\ [Next]_vars => [Quiet]_vars
  <2> SUFFICES ASSUME TypeOK, Next, row = "missing",
                      NEW c \in Callers, answer[c] # "clear"
               PROVE  answer'[c] # "clear"
    BY DEF vars
  <2> USE DEF TypeOK, Answers
  <2>1. ASSUME NEW p \in Procs, Start(p) \/ Exit(p) \/ Engage(p) \/ Disengage(p)
        PROVE  answer'[c] # "clear"
    BY <2>1 DEF Start, Exit, Engage, Disengage
  <2>2. ASSUME NEW d \in Callers, IsEngaged(d) \/ Order(d)
        PROVE  answer'[c] # "clear"
    BY <2>2 DEF IsEngaged, ReadRow, ReadThrow, Order
  <2>3. CASE LoseRow
    BY <2>3 DEF LoseRow
  <2> QED
    BY <2>1, <2>2, <2>3 DEF Next
<1> QED
  BY <1>1, TypeCorrect, PTL DEF Spec, MissingRowStopsRunning
=============================================================================
