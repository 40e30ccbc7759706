SPECIFICATION HsSpec
CONSTANTS
    r1 = r1
    r2 = r2
    AzCalls = {r1, r2}
    AzKeys <- MCTokens
    AzProxies <- MCProxies
    AzMaxTries = 1
    HsRequests = {r1, r2}
    HsShapes <- MCShapes
    HsPaths = {"begin"}
    HsRouting = FALSE
    HsDnsRouting = TRUE
    HsOtel = FALSE
    HsOwnProxies <- MCOwnProxies
    HsAwsProxy <- MCAws
INVARIANTS
    ProxyMatchesToken
CHECK_DEADLOCK FALSE
