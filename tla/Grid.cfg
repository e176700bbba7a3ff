SPECIFICATION FairBothSpec
INVARIANT ExposureBounded
INVARIANT AtMostOneEntryAfterStop
INVARIANT ExitAccountedBeforeEntry
INVARIANT LedgerCoversCapital
PROPERTY KeepsPositionRow
PROPERTY LiveDivergenceIsResolved
CONSTANTS
    Live = TRUE
    Size = 2
    Pause = 1
    MaxFaults = 2
    MaxStrays = 1
    MaxStops = 1
