\* What the documentation of OnlineModelSelector::select says of None.
SPECIFICATION MonitoringSpec
CONSTANTS
    Unit = 12
    Digits = 8
    Largest = 1020
    Tolerance = 1000
    MaxCount = 8
    FeatureCount = 1
    EwAlpha = 6
    Capacity = 3
    MinWindow = 2
    ClipLower <- MCClipLower
    ClipUpper = 20
    EffectiveAlpha <- MCEffectiveAlpha
    VarianceTolerance = 0
    MinSamples = 2
    DriftThreshold = 24
    WarningThreshold = 12
    Alpha = 12
    Delta = 0
    MaxWindow = 4
    LogTerm <- MCLogTerm
    WindowSize = 3
    CheckInterval = 2
    PValue <- MCPValue
    Significance = 1
    InitialPrediction = 0
    MaxEvents = 2
    WarningAction = "notify_only"
    DriftAction = "reset_model"
    DecayFactor <- MCDecayFactor
    MetricCapacity = 2
    LogLossOf <- MCLogLossOf
    Models <- MCModels
    CoolingPeriod = 1
    MinSamplesBeforeSwitch = 2
    WarmingThreshold = 2
    UsableThreshold = 3
    StableThreshold = 3
    DegradedRatio = 18
    IntervalWidth = 24
    MaxWindows = 12
    MinWarning = 1
    MinDrift = 2
    Confirmation = 2
    Clearing = 2
    Cooldown = 2
    MergeHorizon = 3
    Warming = 1
    MaxDetectors = 3
    NoGeneration = NoGeneration
    NoEvent = NoEvent
    Quantiles <- MCQuantiles
    Streams <- SelectorStreams
INVARIANT NoneMeansTooFewSamples
CHECK_DEADLOCK FALSE
