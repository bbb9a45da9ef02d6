SPECIFICATION Spec
CONSTANTS
    Callers = {"A", "B"}
    Bulk = {}
    Control = {c1, c2}
    U = 1
    ReapAfter = TRUE
    Env <- Requests
INVARIANTS
    CancelIsReported
    NoUseAfterFree
