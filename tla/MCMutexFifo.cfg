\* Counterexamples: INVARIANT FifoHandOver, INVARIANT TimeoutDeactivates with
\* Timings = {{a}}, INVARIANT TimeoutHoldsNothing with Timings = {{a}} and
\* Threadings = {TRUE}.
SPECIFICATION Spec
CONSTANTS
    Tasks = {a, b, c}
    Calls = 2
    AllCalls = 6
    Timings = {{}}
    Threadings = {FALSE}
INVARIANTS FifoHandOver
CHECK_DEADLOCK FALSE
