SPECIFICATION Spec
CONSTANTS
    Callers = {"A"}
    Bulk = {b1}
    Control = {}
    U = 3
    ReapAfter = TRUE
    Env <- StallOnly
INVARIANTS
    ReapedIsAwaited
