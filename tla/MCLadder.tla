------------------------------- MODULE MCLadder -------------------------------
(* One rung per side and three bars: one opens both rungs and expires an     *)
(* older short one, one opens both and kills the long one at a loss, which   *)
(* closes the short one, too, and one seeds and touches nothing but reaches  *)
(* the long target.  With one rung a kill and the stop boundary do the same. *)
EXTENDS Ladder

Both(x) == PerSide(x, x)
Bar(gate, touch, exit, loss) ==
    LET Reached(kind, n, none) == [s \in Sides |-> IF exit[s] = kind THEN n ELSE none]
    IN  [gate |-> gate, touch |-> touch, stop |-> Reached("stop", TRUE, FALSE),
         kill |-> Reached("kill", 1, 0), target |-> Reached("target", 1, N + 1),
         expire |-> Reached("expire", 1, 0), loss |-> loss]

MCBars == {
    Bar(Both(TRUE), Both(1), PerSide("none", "expire"), FALSE),
    Bar(Both(TRUE), Both(1), PerSide("kill", "none"), TRUE),
    Bar(Both(FALSE), Both(0), PerSide("target", "none"), FALSE) }
=============================================================================
