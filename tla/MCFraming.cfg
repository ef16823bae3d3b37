SPECIFICATION FairSpec
CONSTANTS
    MaxFrames = 3
    MaxBody = 2
INVARIANTS
    FramingTypeOK
    RightSoFar
PROPERTIES
    FirstInFirstOut
    EveryFrameRead
CHECK_DEADLOCK FALSE
