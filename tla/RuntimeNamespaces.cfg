\* Three namespaces for two places, under requests and every call of the host.
SPECIFICATION Spec
CONSTANTS
    Scopes = {1, 2, 3}
    Ids = {d1}
    Actions = {a1}
    NoAction = NoAction
    ModelGenerations = {1, 2}
    MaxGeneration = 2
    MaxRestarts = 1
    InitialGeneration = 0
    InitialBytes = 1
    MaxPartitions = 2
    MaxModelBytes = 2
    MaxTotalBytes = 5
    MaxSnapshotBytes = 6
    MaxPending = 1
    MaxCompleted = 1
    HandlerErrors = {"handlerTrap"}
    NoError = NoError
    None = None
    Requests <- MCRequests
    HandlerResults <- SizedResults
    HostSnapshots <- MCHostSnapshots
    RuntimeSnapshots <- MCRuntimeSnapshots
VIEW StateWithoutReply
INVARIANTS
    TypeOK
    HeldStateIsBounded
    NoPhantomPartition
    LedgersDisjoint
PROPERTIES
    FailedRequestChangesNothing
CHECK_DEADLOCK FALSE
