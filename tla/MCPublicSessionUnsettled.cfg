CONSTANTS
    CommandIds = {c1, c2, c3}
    MaxOutcomes = 1
    MaxTurns = 2
    MaxSends = 1
    MaxCheckpoints = 2
    None = None
\* an ended session stops
CHECK_DEADLOCK FALSE
SPECIFICATION Spec
SYMMETRY CommandSymmetry
INVARIANTS
    PauseIsSettled
