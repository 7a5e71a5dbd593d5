SPECIFICATION Spec
CONSTANTS
    Registries = {r1, r2}
    MaxTime = 2
    Slots = {1, 2}
    Tokens <- MCTokens
    RegistryUrl = TRUE
    StaticKey = 0
    FailMode = "closed"
    CacheTtl = 1
    FetchTimeout = 1
    StaticToken <- MCStaticToken
    Ids = {1}
    MaxRequests = 2
INVARIANT DocumentedFailClosed
CHECK_DEADLOCK FALSE
