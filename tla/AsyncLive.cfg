SPECIFICATION Spec
CONSTANTS
    N = 2
    DrainTries = 1
    MaxRuns = 1
    MaxFaults = 1
    Env <- NoTransferErrors
PROPERTIES
    UnplugEndsRun
    CallsReturn
INVARIANT
    StreamNotStalled
