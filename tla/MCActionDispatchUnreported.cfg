SPECIFICATION DispatchSpec
CONSTANTS
    Pages <- MCPages
    Goals <- MCGoals
    Contested <- MCContested
    Trusted = {"reveal"}
    MaxActions = 2
INVARIANT CrossingIsReported
CHECK_DEADLOCK FALSE
