----------------------------- MODULE MCKillSwitch -----------------------------
(* Two processes on one database: a watchlist sweep of two fibers and a      *)
(* one-symbol loop.                                                          *)
EXTENDS KillSwitch
CONSTANTS sweep, single, f1, f2, g

MCProcs == {sweep, single}
MCCallers == {f1, f2, g}
MCOwner == [c \in MCCallers |-> IF c = g THEN single ELSE sweep]
=============================================================================
