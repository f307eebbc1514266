SPECIFICATION FairSpec
CONSTANTS
    MaxTurns = 3
    SlowTail = FALSE
INVARIANTS LiveRequestsSurvive CancelReachesTurn
PROPERTIES InputReturns
CHECK_DEADLOCK FALSE
