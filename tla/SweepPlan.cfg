SPECIFICATION RuntimeSpec
PROPERTY PlanUsesRealCapital
CHECK_DEADLOCK FALSE
CONSTANTS
    Entries <- MCEntries
    Kind <- MCKind
    Cohort <- MCCohort
    Weight <- MCWeight
    Share = 1
    MaxCapital = 3
    Width = 2
    Iterations = 2
    MaxFaults = 2
    Callers <- MCCallers
    PerSecond = 2
    PerMinute = 4
    MaxAsks = 2
    MaxSets = 1
    Workers <- MCWorkers
    Goal = 2
    MaxMishaps = 1
