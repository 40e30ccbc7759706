SPECIFICATION ClientsSpec
CONSTANTS
    n1 = n1
    n2 = n2
    w1 = w1
    w2 = w2
    Nodes = {n1, n2}
    NoNode = NoNode
    None = None
    Duration = 2
    Threshold = 50
    MaxSkew = 1
    Skew <- SkewedClocks
    MaxLockTime = 8
    MaxWrites = 2
    Frequency = 1
    MaxRefresh = 1
    DbLimit = 1
    MaxPlainTime = 3
    LateStart = 4
    MaxLateWrites = 1
    JcWorkers = {w1, w2}
    JcClouds = {"gcp"}
    JcRedeliver = FALSE
    JcMaxMessages = 1
    JcMaxClock = 3
    BcClients = {"core aws", "core gcp", "cpio aws", "cpio gcp"}
    BcNames = {1, 2, 3, 4}
    BcInitial = {1, 2, 4}
    BcMaxPage = 2
    BcPageSizes = {0, 1, 3}
    BcMaxWrites = 1
    PcClouds = {"aws", "gcp"}
    PcSpared <- MCSpared
    PkEndpointCounts <- MCEndpoints
    PkKeys = 2
    PkMethods = {"id", "age"}
    PkLists = {{1}, {1, 2}}
    PkDiffer = FALSE
    PkTornMap = FALSE
    PuEndpoints = 3
    PuRefusals = FALSE
    McClouds = {"aws", "gcp"}
    McBatching = {TRUE, FALSE}
    McSize <- MCMetricSizes
    McBad <- MCBadMetrics
    McBatchSize = 4
    McChunkSize = 2
    McMaxTimers = 3
    McEarlyPut = FALSE
    McLatePut = FALSE
    CuMethods = {"GET", "POST", "PUT", "UNKNOWN"}
    CuSizes = {0, 2}
    CuBuffer = 2
    CuReplies = {0, 2}
    CuPortions = {2}
    CuNumbers = {0, 404, 503}
    CuTries = 2
INVARIANTS
    MutualExclusion
    OneServer
    
    
    
PROPERTIES
    NoEarlyTakeover
    
CHECK_DEADLOCK FALSE
