SPECIFICATION ServingSpec
CONSTANTS
    Scopes = {1}
    Ids = {d1, d2}
    Actions = {a1}
    NoAction = NoAction
    ModelGenerations = {1}
    MaxGeneration = 4
    MaxRestarts = 1
    InitialGeneration = 0
    InitialBytes = 1
    MaxPartitions = 1
    MaxModelBytes = 2
    MaxTotalBytes = 6
    MaxSnapshotBytes = 6
    MaxPending = 2
    MaxCompleted = 2
    HandlerErrors = {"handlerTrap"}
    NoError = NoError
    None = None
    Requests <- MCRequests
    HandlerResults <- PlainResults
    HostSnapshots <- MCHostSnapshots
    RuntimeSnapshots <- NoRuntimeSnapshots
INVARIANTS
    LedgerMatchesState
PROPERTIES
    NoSilentEviction
    ImplementsDelayedFeedback
CHECK_DEADLOCK FALSE
