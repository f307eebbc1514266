SPECIFICATION Spec
CONSTANTS
    MinCompactionRange = 2
    Drivers <- BothDrivers
    MissingIds = FALSE
    InitialLogs <- AnySession
    MaxTurns = 2
    MaxCompactions = 1
    MaxParallel = 2
    MaxCalls = 2
    MaxInjected = 1
INVARIANTS ResultsAnswerCalls ClosedTurnsAreWhole RequestsOnlyGrow
PROPERTIES StoppedTurnsPairCalls UndoAligned InjectedReachTheModel
