SPECIFICATION Spec
CONSTANTS
    Callers = {"A"}
    Bulk = {b1}
    Control = {}
    U = 3
    ReapAfter = TRUE
    Env <- Streaming
INVARIANTS
    FlyingExact
    OneCallbackEach
    RefsExact
    ReapedIsAwaited
    DisconnectIsFinal
