SPECIFICATION FairSpec
CONSTANTS
    Tasks = {a, b, c}
    Calls = 2
    AllCalls = 3
    Timings = {{}, {a}, {a, b}}
    Threadings = {TRUE, FALSE}
INVARIANTS
    HandOverSound
    OneThreadFifo
PROPERTIES
    LockReturns
CHECK_DEADLOCK FALSE
