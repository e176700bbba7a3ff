SPECIFICATION FairSpec
INVARIANT ExposureBounded
INVARIANT OneBatchAfterStop
PROPERTY RungLeavesWithItsOrder
PROPERTY OrphanIsClosed
PROPERTY DrawdownEnds
CONSTANTS
    N = 1
    Pause = 1
    Bars <- MCBars
    MaxBars = 2
    Seen = 1
    MaxFaults = 1
    MaxEdits = 1
    MaxStops = 1
