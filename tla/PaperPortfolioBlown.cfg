SPECIFICATION Spec
CONSTANTS
    spot = spot
    perp = perp
    Symbols <- MCSymbols
    Futures <- MCFutures
    Initial = 2
    Fee = 1
    Results <- MCResults
    MaxRuns = 4
CHECK_DEADLOCK FALSE
PROPERTY BlownIsTerminal
