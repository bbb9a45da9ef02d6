SPECIFICATION Spec
CONSTANTS
    N = 2
    DrainTries = 1
    MaxRuns = 2
    MaxFaults = 1
    Env <- NoEventErrors
PROPERTIES
    MeetsContract
    DrainNeverRearms
