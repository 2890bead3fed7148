\* Counterexamples: PROPERTY ReadyTaskRuns, also with Workloads <- OnlyWakes; PROPERTY
\* PassEnds with Workloads <- YieldsInBatches; PROPERTY StopEnds with Workloads <-
\* YieldsThenStops and CHECK_DEADLOCK FALSE.
SPECIFICATION FairSpec
CONSTANTS
    t1 = t1
    t2 = t2
    t3 = t3
    r1 = r1
    r2 = r2
    Tasks = {t1,t2,t3}
    Remotes = {r1,r2}
    kCapacity = 2
    lifo_poll_limit = 1
    max_passes = 1
    Workloads <- OnlyYields
    None = None
PROPERTIES
    ReadyTaskRuns
