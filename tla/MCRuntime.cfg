SPECIFICATION RuntimeSpec
CONSTANTS
    SdkSpans = {s1, s2}
    Stoppers = {c1, c2}
    SdkBatchSize = 2
    MaxVersion = 1
    ProcThreads = {t1, t2}
    ProcPayloads <- MCPayloads
    Services = {"x", "y"}
    Service <- MCService
    Matches <- MCMatches
    IsError <- MCIsError
    Hash <- MCHash
    Include = TRUE
    Actions <- MCActions
    Attributes <- MCAttributes
    SoftLimit = 2
    HardLimit = 3
    Heaps = {1, 2, 3}
    DropEvery = 2
    Scale = 10
    InitialRate = 10
    Target = 1
    MaxChecks = 2
    MaxAdjusts = 1
    Registering <- MCRegistering
    Bounds <- MCBounds
    Updates <- MCUpdates
    MetricThreads = {m1, m2}
    PerMilli = 10
    MaxScrapes = 1
    MaxUpdates = 2
    Contents = {"missing", "bad", "c1", "c2"}
    Missing = "missing"
    Bad = "bad"
    hashContent <- MCHashContent
    Strategies <- MCStrategies
    Default <- MCDefault
    FullSampling = "all"
    Loaders = {l1}
    SamplingServices = {"a", "b"}
    Recorders = {r1, r2}
    TargetRate = 1
    RateScale = 100
    MaxEdits = 2
    MaxRecords = 3
    Requests <- MCRequests
    QueueSize = 1
    ServerBatchSize = 2
    RpcCalls <- MCRpcCalls
    maxRetries = 1
    MaxAccepts = 2
    MaxCalls = 2
    UdpWorkers = {w1, w2}
    Datagrams <- MCDatagrams
    MaxReadErrors = 1
    QuerySpans <- MCQuerySpans
    QWidth = 3
    Chains <- MCChains
    MaxAdjust = 0
    Links <- MCLinks
    MaxQueries = 2
    MaxArchives = 1
INVARIANTS
    SdkLeavesNothingBehind
    NoUnguardedWindow
    ChainAccounts
    MetricsLoseNothing
    SamplingKeepsUp
    AnswersHoldToTheEnd
    CallsAreAccountedFor
    
    
CHECK_DEADLOCK FALSE
