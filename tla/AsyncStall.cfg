SPECIFICATION Spec
CONSTANTS
    N = 2
    DrainTries = 1
    MaxRuns = 1
    MaxFaults = 2
    Env <- ErrorsAndUnplug
PROPERTY
    UnplugEndsRun
