SPECIFICATION FairSpec
INVARIANT TypeOK
INVARIANT ForeignSpared
INVARIANT OrphansAreOwed
INVARIANT ModeIsTrue
PROPERTY FailedStartLeavesNothing
PROPERTY CommandsEnd
CONSTANTS
    Commands <- MCCommands
    Pids <- MCPids
    NoPid = 0
    Wishes <- MCWishes
    MaxFaults = 1
    MaxRash = 1
