SPECIFICATION TransferSpec
CONSTANTS
    Logs = {l1, l2}
    MaxPerRun = 1
    MaxJournals = 3
    MaxErrors = 2
    MaxCrashes = 1
    Refusals = TRUE
    JrJournals <- MCJournals
    JrCheckpoints <- MCCheckpoints
    JrAsks <- MCAsks
    JrPage = 2
    JrPerBatch = 2
    JrPerRead = 2
    LfAsks <- MCFormats
    LfMaxHalf = 3
    LfThreshold = 20
    k1 = k1
    k2 = k2
    HcCalls = {k1, k2}
    HcForms = {"good", "method"}
    HcWidth = 1
    HcTries <- MCTries
    ScCapacity = 2
    BsClouds = {"aws", "gcp"}
    BsSizes = {1, 3, 4}
    BsRanges <- MCRanges
    BsMaxBytes = {2, 3}
    BsPortions <- MCPortions
    BsMinimumPart = 2
    BsTornReads = FALSE
    BsLatePush = FALSE
    BsGcpRefusal = FALSE
    Threads = {1}
    Tasks = {1, 2}
    QueueCap = 2
    MaxTime = 1
INVARIANTS
    AckedSurvives
    PersistedIdIsSafe
    
    
    StopRunsSettledTasks
PROPERTIES
    StartsOnTime
    
    
CHECK_DEADLOCK FALSE
