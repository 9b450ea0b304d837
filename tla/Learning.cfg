\* Models, transformers, pipelines, bandits, the replay and the C interface.
SPECIFICATION LearningSpec
CONSTANTS
    Unit = 60
    Digits = 10
    Largest = 4092
    Tolerance = 1000
    MaxCount = 8
    FeatureCount = 2
    Rate = 15
    Ridge = 6
    Epsilon = 6
    HuberDelta = 60
    Sigmoid <- MCSigmoid
    ScaleEpsilon = 1
    WithMean = TRUE
    WithStd = TRUE
    TargetMin = 0
    TargetMax = 60
    MachineEpsilon = 1
    ClipMin = 0
    ClipMax = 60
    FillValue = 0
    EwAlpha = 30
    Capacity = 3
    MinWindow = 2
    ClipLower = 0
    ClipUpper = 60
    NullPointer = NullPointer
    Smoothing = 60
    TotalTolerance = 100
    HalfLnTwoPi = 55
    Ln <- MCLn
    FtrlAlpha = 30
    FtrlBeta = 60
    FtrlL1 = 12
    FtrlL2 = 60
    MaxFeatures = 3
    NewFeaturePolicy = "ignore"
    Logistic <- MCSigmoid
    Dimension = 2
    Bucket <- MCBucket
    Sign <- MCSign
    Arms <- MCArms
    Epsilon0 = 60
    EpsilonDecay = 30
    MinEpsilon = 6
    Exploration = 60
    AlphaPrior = 60
    BetaPrior = 60
    LinAlpha = 60
    ContextSize = 2
    PosteriorTolerance = 100
    LnOfCount <- MCLnOfCount
    DecisionIds <- MCDecisionIds
    NoDecision = NoDecision
    MaxRecords = 4
    MaxDelay = 2
    MaxTimestamp = 8
    FirstGeneration = 1
    MetricCapacity = 2
    LogLossOf <- MCLogLossOf
    Handles <- MCHandles
    h1 = h1
    h2 = h2
    h3 = h3
    Probes <- MCProbes
    Streams <- MCStreams
INVARIANTS
    SavedModelIsAccepted
    AgreesWithSamples
    PosteriorsFollowEvidence
    SeenValuesStayInRange
    StagesAgree
    ExplorationIsComplete
    FastFollowsExact
    ReplayAddsUp
    HandlesCountTheirOwnCalls
CHECK_DEADLOCK FALSE
