SPECIFICATION Spec
CONSTANTS
    Descs <- TheDescs
    Files <- TheFiles
    Actives <- TheActives
    Values = {1, 2}
    BosAnswers <- TheBos
    OomAt <- TheOom
    MaxCalls = 2
    Threads = {t1, t2}
    MaxInterfaces = 2
    Drivers = {0}
    Configs <- TheConfigs
    MaxOps = 4
    Others = TRUE
    ResetErrors = TRUE
    Users = {u1, u2}
    MaxContexts = 2
    MaxDevices = 1
    MaxHandles = 2
    MaxCallbacks = 1
    EepromSize = 4
    IrByte = 0
    StrOffset = 1
    Bytes = {0, 2}
    Images <- TheImages
    Pins = {0, 5}
    MaxFaults = 1
    MaxJobs = 3
INVARIANTS
    MemoryExact
    ClaimsAgree
    DriverReturned
    ConfigCached
    ContextAlive
    CountersExact
    EepromExact
    BiasTeeOnlyAsked
    StringsInside
CHECK_DEADLOCK FALSE
