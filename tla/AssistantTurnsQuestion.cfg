SPECIFICATION FairTurnsSpec
CONSTANTS
    MaxTurns = 2
    MaxLog = 4
    MaxMessages = 2
PROPERTIES
    AskedIsAnswerable
CHECK_DEADLOCK FALSE
