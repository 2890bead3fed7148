\* Counterexamples: INVARIANT WheelOneDue, and PROPERTY CancelledNotHandled with
\* Delays = {5}.
SPECIFICATION Spec
CONSTANTS
    Timers = {t1}
    Sizes <- ThreeWheels
    TickDuration = 2
    Delays = {8, 21}
    MaxLag = 1
    MaxNow = 30
INVARIANTS WheelOneDue
CHECK_DEADLOCK FALSE
