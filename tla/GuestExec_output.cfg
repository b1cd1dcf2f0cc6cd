SPECIFICATION ExecFairSpec
CONSTANTS
    Limit = 2
    Capacity = 2
    MaxWritten = 4
    MaxRead = 2
    Forks = TRUE
    WaitFails = TRUE
    Leaves = TRUE
INVARIANTS
    OutputWithinLimit
    NoSilentLoss
PROPERTIES
    ExitAlwaysReported
    ExecReturns
