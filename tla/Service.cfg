SPECIFICATION ServiceSpec
CONSTANTS
    r1 = r1
    r2 = r2
    r3 = r3
    s1 = s1
    Requests = {r1, r2, r3}
    StatusRequests = {s1}
    MaxTransactions = 1
    MaxRuns = 2
    c1 = c1
    c2 = c2
    Commands = {c1, c2}
    NoCommand = NoCommand
    FullBudget = 1
    MaxGroups = 3
    MaxFaults = 1
    MaxRestarts = 1
    RefusedLoads = FALSE
    UnsureWrites = FALSE
    Callers = {c1, c2}
    MaxKeys = 3
    MaxKeyFaults = 2
    MaxKeyRestarts = 1
    SiteOfOrigin <- MCSites
    NoSite = 0
    FeDomain = 1
    FeHeaders <- MCHeaders
    FeBodies <- MCFeBodies
    FePerDay = {TRUE, FALSE}
    NoOrigin = 0
    CbClients = {c1, c2}
    CbBodies <- MCCbBodies
    CbHeaders <- MCCbHeaders
    CbDomain = 1
    CbHours = {1, 2}
    CbBadRows <- MCBadRows
    CbMaxAborts = 1
    AzCalls = {r1, r2}
    AzKeys <- MCTokens
    AzProxies <- MCProxies
    AzMaxTries = 1
    HsRequests = {r1}
    HsShapes <- MCShapes
    HsPaths = {"begin"}
    HsRouting = TRUE
    HsDnsRouting = FALSE
    HsOtel = FALSE
    HsOwnProxies <- MCServerProxies
    HsAwsProxy <- MCAws
    Delay = 1
    MaxRetries = 4
    Lifetime = 8
    MaxParts = 1
    LeaseDuration = 3
    RenewAt = 2
    Faults = {}
    NsCalls = {c1, c2}
    NsProviders = {"GcpSpannerClientProvider", "GcpSpanner", "AwsDynamoDBClientProvider", "AwsDynamoDB"}
    NsTables <- MCTables
    NsUpserts <- MCUpserts
    NsCreates <- MCCreates
    NsGets <- MCGets
    NsMaxAborts = 1
    SiConfigs <- MCSiConfigs
    SiMaxFaults = 1
INVARIANTS
    CountIsExact
    StopDrains
    CacheConservesTokens
    
    EveryBudgetOnce
    
    RequestsEndOnce
    CallerHearsInTime
    HostedOnlyByOwner
    ProcessIsWhole
    UpsertsDoNotCollide
PROPERTIES
    ConsumptionImplementsLedger
    RequestsAreAnswered
    NoMissedTransition
CHECK_DEADLOCK FALSE
