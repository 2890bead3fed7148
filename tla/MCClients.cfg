SPECIFICATION ClientsSpec
CONSTANTS
    Clients = {t1, t2}
    Endpoints <- TwoEndpoints
    MaxConnections = 1
    MinConnections = 1
    MaxWaiters = 1
    MaxAttempts = 2
    Idempotent = {t1}
    Worlds <- SomeWorlds
    Tasks = {t1, t2}
    t1 = t1
    Admin = adm
    Conns = {c1, c2}
    Max = 1
    MaxCalls = 2
    MaxOps = 1
    Setups <- SomeSetups
    NoConn = NoConn
    NoWaiter = NoWaiter
INVARIANTS
    PoolAccounted
    OneOwner
    CountersSound
PROPERTIES
    ShutdownIsFinal
    CallReturns
    AcquireReturns
CHECK_DEADLOCK FALSE
