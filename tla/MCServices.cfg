SPECIFICATION ServicesSpec
CONSTANTS
    CommandIds = {c1, c2, c3}
    MaxOutcomes = 2
    MaxTurns = 2
    MaxSends = 2
    None = None
    Pages <- MCPages
    Goals <- MCGoals
    Contested <- MCContested
    Trusted = {"reveal"}
    MaxActions = 2
    Sites <- MCSites
    PageSize = 2
    SoftTarget = 3
    HardLimit = 5
    MaxSites = 2
    MaxDeliveries = 3
    Tasks = {t1, t2, t3}
    Commands = {m1}
    MaxHandles = 3
    MaxEvents = 2
    MaxFeed = 1
    MaxCalls = 4
    Nothing = Nothing
    Revises = {r1, r2}
    MaxEffects = 2
    MaxSaved = 4
    Slots = {1, 2}
    Nobody = Nobody
    Trials <- MCTrials
    Prefix <- MCPrefix
    WebPages <- MCWebPages
    Documents <- MCDocuments
    Webs <- MCWebs
SYMMETRY IdSymmetry
INVARIANTS
    TruthClosed
    PauseAgrees
    CancelledMeansCancelled
    OfferedCanBeDone
    RiskyNeedsApproval
    TurnServesAgent
    SessionIsKept
    InputUnderLease
    RevisionIsOne
    RevisionIsDurable
    CallsKeepApart
    PlanIsOrdered
    EvaluationIsAccepted
    JudgementIsEarned
    ObservationIsTrue
    DeedIsTrue
PROPERTIES
    NoDispatchUnderControl
    EndedStays
CHECK_DEADLOCK FALSE
