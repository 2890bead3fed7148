SPECIFICATION ThreadsSpec
CONSTANTS
    Tasks = {a, b}
    Wakers = {w1, w2}
    Owner = owner
    Suspensions = 2
    Redundant = {a}
    Overlap = FALSE
    Stops = 1
    Jobs = {j1, j2, j3, j4}
    Workers = {u, v, w}
    m_minWorkers = 1
    m_maxWorkers = 3
    SpawnMayFail = TRUE
    NoTask = NoTask
    Notifiers = {l, m, n}
    NoValue = NoValue
    Voids = {TRUE, FALSE}
    Timeds = {TRUE, FALSE}
INVARIANTS
    WakeIsKept
    RunOnce
    OneNotification
PROPERTIES
    WokenTaskRuns
    EveryTaskRuns
    WaitEnds
CHECK_DEADLOCK FALSE
