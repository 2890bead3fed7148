SPECIFICATION ExecutorSpec
CONSTANTS
    Jobs = {a,b,c}
    Workers = {v,w}
    m_minWorkers = 1
    m_maxWorkers = 2
    SpawnMayFail = FALSE
    NoTask = NoTask
INVARIANTS
    GrowsWhenNeeded
CHECK_DEADLOCK FALSE
