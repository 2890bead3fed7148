SPECIFICATION Spec
CONSTANTS
    Timers = {t1, t2}
    Sizes <- ThreeWheels
    TickDuration = 2
    Delays = {1, 5}
    MaxLag = 1
    MaxNow = 30
INVARIANTS NotEarly
CHECK_DEADLOCK FALSE
