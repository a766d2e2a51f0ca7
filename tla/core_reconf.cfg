SPECIFICATION Spec
CONSTANTS
    None = None
    p = p
    q = q
    e = e
    r1 = r1
    r2 = r2
    Project <- MCProjectE
    Tasks <- MCTasksE
    Runner <- MCRunner
    RunnerIdOf <- MCRunnerIdOf
    ConfFiles <- AnyConfE
    ExactRoundTrip = FALSE
    MaxRef <- OnePushE
    MaxStarts = 2
    MaxLosses = 0
    MaxFaults = 1
INVARIANTS
    Backed
    PipelineOrder
    OneLossPerDeath
    RevivedByFailure
    NoLostWakeup
    DeafOnlyByOrphan
PROPERTY
    DeafUntilRestart
CHECK_DEADLOCK FALSE
