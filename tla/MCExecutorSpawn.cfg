SPECIFICATION ExecutorFairSpec
CONSTANTS
    Jobs = {a,b}
    Workers = {v,w}
    m_minWorkers = 1
    m_maxWorkers = 2
    SpawnMayFail = TRUE
    NoTask = NoTask
PROPERTIES
    ShutdownEnds
CHECK_DEADLOCK FALSE
