SPECIFICATION LedgerSpec
CONSTANTS
    Ids = {d1, d2}
    Contexts = {c1, huge}
    Actions = {a1, a2}
    Oversized = {huge}
    ModelGenerations = {1, 2}
    MaxTime = 2
    MaxPending = 1
    MaxCompleted = 1
    None = None
INVARIANTS
    LedgerTypeOK
    StructureIsValid
PROPERTIES
    FactsAreImmutable
    NoDecisionIsLost
    ImplementsDelayedFeedback
CHECK_DEADLOCK FALSE
