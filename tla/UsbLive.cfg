SPECIFICATION Spec
CONSTANTS
    Callers = {"A"}
    Bulk = {b1}
    Control = {c1}
    U = 1
    ReapAfter = TRUE
    Env <- Waits
PROPERTIES
    UnplugEndsTransfers
    CallsReturn
