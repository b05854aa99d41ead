SPECIFICATION FairSpec
CONSTANTS
    Budget = 2
    Deployments <- MCDeployments
    MaxDispatches = 2
    MaxDrift <- MCDrift
    MaxCaptures <- MCCaptures
    MaxCancels = 1
INVARIANTS
    ReportIsTrue
    FaultFreeActionIsSeen
PROPERTIES
    EffectLandsOnce
    AbandonedOwnerIsLeftAlone
    DispatchEnds
CHECK_DEADLOCK FALSE
