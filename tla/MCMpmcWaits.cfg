CONSTANTS
    Senders = {s1}
    Receivers = {r1}
    Closers = {c1}
    Capacity = 2
    LastPosition = 9
    SendOps = 3
    AllOps = 4
    RecvOps = 1
    Counts = {2}
    Modes = {"try", "await", "timed"}
SPECIFICATION TimedSpec
INVARIANTS
    NoValueLost
PROPERTIES
    TimedWaitReturns
    CloseWakesAll
CHECK_DEADLOCK FALSE
