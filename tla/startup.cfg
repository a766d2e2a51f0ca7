SPECIFICATION StartupSpec
CONSTANTS
    None = None
    p = p
    q = q
    Project <- MCProject
    Branch = {main, side}
    Default = main
    MaxPushes <- MCMaxPushes
    MaxTasks = 1
    MaxCrashes = 1
    MaxFaults = 1
    MaxGitTroubles = 1
INVARIANTS
    StartupTypeOK
    OneLossPerFailure
    UnusableOnlyByFirstStart
    StuckByAccident
    SmoothStartConfigures
    ChangesMissed
    ReportsNeedPushes
PROPERTIES
    StuckStays
    SmoothStartComesUp
    HopelessStays
CHECK_DEADLOCK FALSE
