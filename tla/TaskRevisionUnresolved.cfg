SPECIFICATION RevisionSpec
CONSTANTS
    Revises = {r1, r2}
    MaxEffects = 2
    MaxSaved = 4
INVARIANTS
    UnresolvedStaysPaused
CHECK_DEADLOCK FALSE
