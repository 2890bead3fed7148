CONSTANTS
    Senders = {s1, s2}
    Receivers = {r1, r2}
    Closers = {}
    Capacity = 2
    LastPosition = 3
    SendOps = 2
    AllOps = 5
    RecvOps = 1
    Counts = {1}
    Modes = {"await"}
SPECIFICATION Spec
SYMMETRY ThreadSymmetry
INVARIANTS
    FifoPerProducer
    Exclusive
    NoLostWakeup
CHECK_DEADLOCK FALSE
