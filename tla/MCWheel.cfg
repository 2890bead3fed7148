SPECIFICATION Spec
CONSTANTS
    Timers = {t1, t2}
    Sizes <- ThreeWheels
    TickDuration = 2
    Delays = {0, 3, 8, 21, 30, 31}
    MaxLag = 1
    MaxNow = 32
INVARIANTS
    OnTime
CHECK_DEADLOCK FALSE
