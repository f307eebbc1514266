SPECIFICATION SavedSpec
CONSTANTS
    Sessions = {s1, s2}
    None = None
    MaxMessages = 4
    Windows = {w1, w2, w3}
    MaxIndexed = 1
    LongTitles = {"renamed"}
    MinCompactionRange = 2
    OpenedLogs <- MCLogs
    TurnLimit = 3
    Threshold = 2
    SummarySize = 2
    MaxSaid = 3
    MaxAsked = 2
    MaxAtOnce = 2
    MaxSummaries = 1
INVARIANTS AtRestOnDisk NoEventTwice ReplayIsLive WindowsTile DamageIsPassing DeletedStayGone
PROPERTIES TornLogsStay StatsAreTheTurns WorkKeepsTheTools
CHECK_DEADLOCK FALSE
