SPECIFICATION Spec
CONSTANTS
    None = None
    p = p
    q = q
    e = e
    r1 = r1
    r2 = r2
    Project <- MCProject
    Tasks <- MCTasks
    Runner <- MCRunner
    RunnerIdOf <- MCRunnerIdOf
    ConfFiles <- FixedConf
    ExactRoundTrip = TRUE
    MaxRef <- OnlyP
    MaxStarts = 1
    MaxLosses = 1
    MaxFaults = 0
INVARIANTS
    RunOnce
    AlwaysAnswers
PROPERTIES
    QueryAnswered
    TaskDispatched
