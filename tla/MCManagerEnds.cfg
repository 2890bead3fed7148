\* Counterexamples: PROPERTY EveryShutdownReturns with Services Lossy or SlowReplies,
\* PROPERTY EveryStartReturns with LossyReplies, INVARIANT FdClosedLast with Lossy,
\* INVARIANT NoHandlerLeft with Remote.
SPECIFICATION ManagerFairSpec
CONSTANTS
    Handlers <- Streams
    Services <- Lossy
PROPERTIES
    EveryShutdownReturns
CHECK_DEADLOCK FALSE
