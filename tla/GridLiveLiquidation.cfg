SPECIFICATION BothSpec
PROPERTY LiveLiquidationActivatesSwitch
CONSTANTS
    Live = TRUE
    Size = 2
    Pause = 1
    MaxFaults = 0
    MaxStrays = 0
    MaxStops = 0
