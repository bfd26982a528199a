\* Four events, a list of two, two dropped connections, one Redis fault.
SPECIFICATION FairSpec
CONSTANTS
    MaxNodes = 2
    BufferSize = 2
    MaxDisconnects = 2
    MaxRedisFaults = 1
INVARIANTS
    OnlyExcusedGaps
PROPERTIES
    StreamKept
    ViewerLearnsEnd
\* The run ends and so may everything.
CHECK_DEADLOCK FALSE
