SPECIFICATION Spec
CONSTANTS
    MinCompactionRange = 2
    Drivers <- HostOnly
    MissingIds = FALSE
    InitialLogs <- NewSession
    MaxTurns = 2
    MaxCompactions = 1
    MaxParallel = 2
    MaxCalls = 2
    MaxInjected = 1
INVARIANT CompactionTakesMessagesOnly
