SPECIFICATION Spec
CONSTANTS
    Tasks = {a, b}
    Calls = 2
    AllCalls = 4
    Timings = {{}}
    Threadings = {FALSE}
INVARIANTS NoLostWakeup
CHECK_DEADLOCK FALSE
