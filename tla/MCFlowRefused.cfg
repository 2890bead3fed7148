CONSTANTS
    Ids = {1, 2}
    Default = 4
    MaxFrame = 2
    MaxWindow = 100
    MaxBatch = 2
    Connections <- LimitedOnly
SPECIFICATION FlowFairSpec
INVARIANT OneAtATimeAccepted
CHECK_DEADLOCK FALSE
