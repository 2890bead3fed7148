SPECIFICATION FairSpec
CONSTANTS
    t1 = t1
    t2 = t2
    t3 = t3
    r1 = r1
    r2 = r2
    Tasks = {t1,t2,t3}
    Remotes = {r1,r2}
    kCapacity = 1
    lifo_poll_limit = 1
    max_passes = 2
    Workloads <- StoppedOrMixed
    None = None
INVARIANTS
    AcceptedIsKept
    QueuesSound
PROPERTIES
    NotForgotten
    StopEnds
CHECK_DEADLOCK FALSE
