SPECIFICATION Spec
CONSTANTS
    MinCompactionRange = 2
    Drivers <- TerminalOnly
    MissingIds = FALSE
    InitialLogs <- NewSession
    MaxTurns = 2
    MaxCompactions = 1
    MaxParallel = 2
    MaxCalls = 2
    MaxInjected = 1
PROPERTY RequestsPairCalls
