SPECIFICATION Spec
CONSTANTS
    p = p
    q = q
    Project <- MCProject
    Period <- MCPeriod
    Excluded <- MCExcluded
    MaxTime = 7
    MaxSignals = 2
    HighWater = 2
INVARIANTS
    TypeOK
    OneCheckPerDueTime
PROPERTIES
    DueAsked
    StopEnds
CHECK_DEADLOCK FALSE
