SPECIFICATION PathSpec
CONSTANTS
    Callers = {c1, c2}
    ToolCalls = {c1, c2}
    Requests <- MCRequests
    failureThreshold = 2
    recoveryTime = 1
    maxSize = 1
    ttl = 1
    maxRequests = 2
    rateWindow = 2
    maxRetries = 1
INVARIANTS
PROPERTIES
    AllowIsRecent
    EveryCallAnswered
    BreakerRecovers
