SPECIFICATION Spec
CONSTANTS
    c1 = c1
    c2 = c2
    Callers = {c1, c2}
    Results <- MCResults
    MaxLoss = 2
    LastDay = 1
    MaxTrades = 3
SYMMETRY Fibers
INVARIANT RowIsTheDaysResults
INVARIANT AtMostOneEntryOnceHalted
