SPECIFICATION Spec
CONSTANTS
    None = None
    p = p
    q = q
    e = e
    r1 = r1
    r2 = r2
    Project <- MCProject
    Tasks <- MCTasks
    Runner <- MCRunner
    RunnerIdOf <- MCRunnerIdOf
    ConfFiles <- FixedConf
    ExactRoundTrip = TRUE
    MaxRef <- TwoOnP
    MaxStarts = 1
    MaxLosses = 0
    MaxFaults = 0
INVARIANT
    SuccessorOwned
