SPECIFICATION Spec
PROPERTY TargetsClose
CONSTANTS
    N = 1
    Pause = 1
    Bars <- MCBars
    MaxBars = 2
    Seen = 2
    MaxFaults = 0
    MaxEdits = 0
    MaxStops = 0
