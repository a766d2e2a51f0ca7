SPECIFICATION Spec
CONSTANTS
    p = p
    q = q
    Project <- MCProject
    Period <- MCPeriod
    Excluded <- MCExcluded
    MaxTime = 7
    MaxSignals = 0
    HighWater = 2
PROPERTY
    ProjectsChecked
CHECK_DEADLOCK FALSE
