SPECIFICATION Spec
CONSTANTS
    N = 2
    DrainTries = 1
    MaxRuns = 1
    MaxFaults = 0
    Env <- CancelAndUnplug
INVARIANT
    QuietIsInactive
