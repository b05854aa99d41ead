CONSTANTS
    CommandIds = {c1, c2}
    MaxOutcomes = 2
    MaxTurns = 2
    MaxSends = 2
    None = None
\* an ended run stops, and so does a paused one when every command is used up
CHECK_DEADLOCK FALSE
SPECIFICATION LoopSpec
INVARIANTS
    TurnWithinBudget
