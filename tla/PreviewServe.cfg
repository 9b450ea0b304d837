SPECIFICATION ServeSpec
CONSTANTS
    Scopes = {1}
    Ids = {d1, d2}
    Actions = {a1}
    NoAction = NoAction
    ModelGenerations = {1, 2}
    MaxGeneration = 3
    MaxRestarts = 1
    InitialGeneration = 0
    InitialBytes = 1
    MaxPartitions = 1
    MaxModelBytes = 2
    MaxTotalBytes = 3
    MaxSnapshotBytes = 5
    MaxPending = 1
    MaxCompleted = 1
    HandlerErrors = {"eventRejected"}
    NoError = NoError
    None = None
    Requests <- ClientRequests
    HandlerResults <- PlainResults
    HostSnapshots <- NoHostSnapshots
    RuntimeSnapshots <- NoRuntimeSnapshots
    NoFile = NoFile
    NoRequest = NoRequest
    MaxStops = 2
INVARIANTS
    ServeTypeOK
    AcknowledgedIsDurable
    FileLedgerMatchesState
    RefusedOnlyForFeatures
PROPERTIES
    AlwaysServesAgain
    RequestsSettle
CHECK_DEADLOCK FALSE
