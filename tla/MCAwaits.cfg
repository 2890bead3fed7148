SPECIFICATION AwaitsSpec
CONSTANTS
    Ops = {o1, o2, o3}
    Awaiter = awaiter
    TimerThread = timer
    q1 = q1
    q2 = q2
    Callers = {q1, q2, q3}
    NoCaller = nobody
    MaxSize = 2
    CallsEach = 2
    SqlSetups <- SomeSqlSetups
INVARIANTS
    WakeIsSafe
    TimeoutMovesNothing
    SqlAccounted
PROPERTIES
    ImplementsTimedAwait
    AwaitReturns
    WaiterResumed
CHECK_DEADLOCK FALSE
