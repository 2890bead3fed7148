SPECIFICATION Spec
CONSTANTS
    Timers = {t1, t2}
    Sizes <- ThreeWheels
    TickDuration = 2
    Delays = {0, 3, 9, 31}
    MaxLag = 4
    MaxNow = 18
INVARIANTS NotLate
CHECK_DEADLOCK FALSE
