SPECIFICATION Spec
CONSTANTS
    spot = spot
    perp = perp
    Symbols <- MCSymbols
    Futures <- MCFutures
    Initial = 2
    Fee = 1
    Results <- MCResults
    MaxRuns = 6
CHECK_DEADLOCK FALSE
INVARIANT TypeOK
INVARIANT AccountMatchesLedger
INVARIANT BlownIsNotFresh
INVARIANT AtMostOneEntryOnBlown
INVARIANT LotsTradedOnce
