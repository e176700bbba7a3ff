----------------------------- MODULE MCFlowTrade ------------------------------
(* One symbol, entries of two lots (so that a partial fill exists).          *)
EXTENDS FlowTrade
=============================================================================
