\* Counterexamples of EveryRequestEnds: Connections is one of CancelledUpload,
\* LateSettings, UnwaitedReply.
CONSTANTS
    Ids = {1, 2}
    Default = 4
    MaxFrame = 2
    MaxWindow = 100
    MaxBatch = 2
    Connections <- CancelledUpload
SPECIFICATION FlowFairSpec
PROPERTY EveryRequestEnds
CHECK_DEADLOCK FALSE
