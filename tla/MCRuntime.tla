------------------------------- MODULE MCRuntime -------------------------------
(* Two ladder members of weights 1 and 2, the second of the cohort, and a     *)
(* grid symbol, two at a time; two callers of a limiter; two search workers.  *)
EXTENDS Runtime

MCEntries == 1..3
MCKind == <<"ladder", "ladder", "grid">>
MCCohort == {2}
MCWeight == <<1, 2>>

MCCallers == 1..2
MCWorkers == 1..2
=============================================================================
