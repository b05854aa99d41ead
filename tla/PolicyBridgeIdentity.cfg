SPECIFICATION BridgeSpec
CONSTANTS
    MaxCalls = 2
    MaxRevision = 2
    MaxRetries = 1
INVARIANTS
    EligibleCheckpointRestores
CHECK_DEADLOCK FALSE
