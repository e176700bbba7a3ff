-------------------------------- MODULE MCGrid --------------------------------
(* One symbol, entries of two lots (so that a partial fill exists).  A run   *)
(* chooses at its start whether the symbol is live or simulated: Grid is     *)
(* extended with Live = TRUE and Simulated is the other instance of it.      *)
EXTENDS Grid

VARIABLE mode

Simulated == INSTANCE Grid WITH Live <- FALSE

BothInit == Init /\ mode \in {"live", "simulated"}

BothNext ==
    /\ UNCHANGED mode
    /\ \/ mode = "live" /\ Next
       \/ mode = "simulated" /\ Simulated!Next

BothSpec == BothInit /\ [][BothNext]_<<vars, mode>>

FairBothSpec ==
    /\ BothSpec
    /\ WF_vars(mode = "live" /\ Start)
    /\ WF_vars(mode = "live" /\ Iteration)

\* A difference between the row and the exchange of a live symbol is adopted,
\* closed or latched in the end, engaged switch, open breaker, pause or not,
\* unless the process was restarted with another capital than the position was
\* entered under (DivergenceIsResolved of Grid; a simulated symbol has no
\* exchange).
LiveDivergenceIsResolved ==
    (mode = "live" /\ ~Agree) ~> (Agree \/ row.killed \/ Held)

\* "... a reduce-only exchange close before clearing local state and
\* activating the kill switch": when a live row is cleared and killed at once,
\* and not for its drawdown, a liquidation was closed; an engaged kill switch
\* goes with it.
LiveLiquidationActivatesSwitch ==
    [][(mode = "live" /\ row.side # "flat" /\ row'.side = "flat" /\ row'.killed
            /\ ~row'.dd) => ks']_<<vars, mode>>
=============================================================================
