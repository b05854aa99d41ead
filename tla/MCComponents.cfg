SPECIFICATION PartsSpec
CONSTANTS
    CommandIds = {c1, c2, c3}
    MaxOutcomes = 2
    None = None
    MaxTurns = 2
    MaxLog = 4
    MaxMessages = 3
    MaxCalls = 4
    MaxRevision = 3
    MaxRetries = 1
    PublicWorlds = {w1, w2}
    Operations = {a, b}
    Toolsets <- MCToolsets
    Window = 4
    MaxObservationOnly = 3
    Receipts = 1
    MaxDecisions = 6
    MaxCases = 2
    MaxTroubles = 1
    Outcomes = {done}
    NoRow = NoRow
INVARIANTS
    HistoryAgrees
    OneTurn
    HistoryTellsTheTruth
    OneAllowance
    StallEnds
    RecordIsTrue
PROPERTIES
    TurnFollowsGui
    BlockIsEarned
    VerdictStays
    RunIsOver
CHECK_DEADLOCK FALSE
