SPECIFICATION FairSpec
INVARIANT ExposureBounded
INVARIANT AtMostOneOrderAfterStop
PROPERTY KeepsPositionRow
PROPERTY PositionIsResolved
CONSTANTS
    Size = 2
    MaxFaults = 3
    MaxStops = 1
