SPECIFICATION Http2Spec
CONSTANTS
    Ids = {1, 2}
    Default = 4
    MaxFrame = 2
    MaxWindow = 100
    MaxBatch = 2
    Connections <- SomeConnections
    Handlers <- Streams
    Services <- SomeServices
INVARIANTS
    CreditBalanced
    EndsAgree
    StopsLast
PROPERTIES
    RequestEnds
    CalmShutdown
    StartReturns
CHECK_DEADLOCK FALSE
