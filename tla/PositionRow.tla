------------------------------ MODULE PositionRow ------------------------------
(***************************************************************************)
(* What an engine promises about the persisted row of a symbol, seen by    *)
(* whoever reads the database: a position is opened, closed or latched as  *)
(* a whole.  Its side and quantity never change while it is open, and a    *)
(* latched position is left to the operator for good; only a latch on a    *)
(* flat row is released.                                                   *)
(***************************************************************************)
EXTENDS Naturals

CONSTANT Sides       \* the sides of a position, "flat" not among them

VARIABLES
    side,            \* of the recorded position, or "flat"
    qty,             \* recorded quantity
    killed           \* the engine keeps out of this symbol

vars == <<side, qty, killed>>

Init == side = "flat" /\ qty = 0 /\ killed = FALSE

Open ==
    /\ side = "flat" /\ ~killed
    /\ side' \in Sides /\ qty' \in Nat \ {0} /\ killed' \in BOOLEAN

Close ==
    /\ side # "flat" /\ ~killed
    /\ side' = "flat" /\ qty' = 0 /\ killed' \in BOOLEAN

Latch ==
    /\ ~killed /\ killed' = TRUE
    /\ UNCHANGED <<side, qty>>

Release ==
    /\ side = "flat" /\ killed /\ killed' = FALSE
    /\ UNCHANGED <<side, qty>>

Next == Open \/ Close \/ Latch \/ Release

Spec == Init /\ [][Next]_vars
=============================================================================
