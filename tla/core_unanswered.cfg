SPECIFICATION Spec
CONSTANTS
    None = None
    p = p
    q = q
    e = e
    r1 = r1
    r2 = r2
    Project <- MCProject
    Tasks <- MCTasks
    Runner <- MCRunner
    RunnerIdOf <- MCRunnerIdOf
    ConfFiles <- AnyConf
    ExactRoundTrip = TRUE
    MaxRef <- OnePush
    MaxStarts = 2
    MaxLosses = 0
    MaxFaults = 0
INVARIANT
    AlwaysAnswers
CHECK_DEADLOCK FALSE
