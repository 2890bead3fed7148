SPECIFICATION BreakerFairSpec
CONSTANTS
    Callers = {c1, c2}
    FailureThreshold = 1
    SuccessThreshold = 1
    HalfOpenMaxRequests = 1
    ResetTicks = 1
    Limiters = {"off", "semaphore", "bucket"}
    Capacity = 1
    AdminCalls = 1
INVARIANTS
    NoLeakedProbe
PROPERTIES
    Recovers
