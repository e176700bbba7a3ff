--------------------------- MODULE MCCircuitBreaker ---------------------------
(* Two fibers, two days, a limit of 2% that one 2% loss meets and that a 3%  *)
(* loss or a 2% loss after a 1% profit brings into play.                     *)
EXTENDS CircuitBreaker, TLC
MCResults == {-3, -2, 1}
Fibers == Permutations(Callers)
=============================================================================
