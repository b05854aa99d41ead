CONSTANTS
    CommandIds = {c1, c2, c3}
    MaxOutcomes = 1
    MaxTurns = 2
    MaxSends = 1
    MaxCheckpoints = 2
    None = None
\* an ended session stops
CHECK_DEADLOCK FALSE
SPECIFICATION FairSpec
INVARIANTS
    CheckpointsAreTrue
    UserActsAlone
PROPERTIES
    ImplementsLifecycle
    DispatchIsOwned
    ReleaseAfterRunner
    LockIsReleased
    TurnAnswersRequests
