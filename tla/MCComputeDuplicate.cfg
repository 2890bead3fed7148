\* Counterexamples: INVARIANT WakeOnItsWay, INVARIANT LinkedOnce.
SPECIFICATION Spec
CONSTANTS
    Tasks = {a}
    Wakers = {w1, w2}
    Owner = owner
    Suspensions = 2
    Redundant = {a}
    Overlap = TRUE
    Stops = 0
INVARIANTS
    WakeOnItsWay
CHECK_DEADLOCK FALSE
