\* Counterexamples: INVARIANT NotRepeated, INVARIANT OneEndpointPerCall.
SPECIFICATION RpcSpec
CONSTANTS
  Clients = {t1, t2}
  Endpoints <- TwoEndpoints
  MaxConnections = 1
  MinConnections = 1
  MaxWaiters = 1
  MaxAttempts = 2
  Idempotent = {t1}
  Worlds <- SomeWorlds
INVARIANTS NotRepeated
