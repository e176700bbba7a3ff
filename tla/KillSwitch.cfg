SPECIFICATION FairSpec
INVARIANT AtMostOneOrderAfterStop
PROPERTY StopIsSticky
PROPERTY StopQuietsEveryCaller
CONSTANTS
    sweep = sweep
    single = single
    f1 = f1
    f2 = f2
    g = g
    Procs <- MCProcs
    Callers <- MCCallers
    Owner <- MCOwner
