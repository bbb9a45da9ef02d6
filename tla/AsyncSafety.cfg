SPECIFICATION Spec
CONSTANTS
    N = 2
    DrainTries = 1
    MaxRuns = 2
    MaxFaults = 1
    Env <- Sound
INVARIANTS
    OutstandingExact
    NoFreeInFlight
    NoCloseUnderReader
    FailedStartReported
    RunEndsInactive
