\* Counterexamples of EveryWaiterResumed: SqlSetups is one of ParallelOnly,
\* FailingMysql, FailingPostgres, BrokenPostgres.
SPECIFICATION SqlSpec
CONSTANTS
    q1 = q1
    q2 = q2
    Callers = {q1, q2, q3}
    NoCaller = nobody
    MaxSize = 2
    CallsEach = 2
    SqlSetups <- ParallelOnly
PROPERTY EveryWaiterResumed
CHECK_DEADLOCK FALSE
