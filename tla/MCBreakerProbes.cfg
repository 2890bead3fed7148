\* Counterexamples: INVARIANT ProbesBounded, and PROPERTY RecoversLimited with
\* Limiters = {"semaphore"} and AdminCalls = 0.
SPECIFICATION BreakerFairSpec
CONSTANTS
  Callers = {c1, c2}
  FailureThreshold = 1
  SuccessThreshold = 1
  HalfOpenMaxRequests = 1
  ResetTicks = 1
  Limiters = {"off"}
  Capacity = 1
  AdminCalls = 1
INVARIANTS ProbesBounded
CHECK_DEADLOCK FALSE
