\* Counterexamples: INVARIANT NoDataRace, INVARIANT WaitingMeansSuspended with
\* Voids = {FALSE}, INVARIANT UnusedAfterWait with Timeds = {FALSE}.
SPECIFICATION WaiterSpec
CONSTANTS
    Notifiers = {m,n}
    NoValue = NoValue
    Voids = {TRUE}
    Timeds = {TRUE}
INVARIANTS
    NoDataRace
CHECK_DEADLOCK FALSE
