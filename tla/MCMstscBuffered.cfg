SPECIFICATION FairSpec
CONSTANTS
    Servers = {"batching"}
    MaxBitmaps = 2
    MaxShares = 1
    MaxQueue = 1
    MaxBatch = 2
PROPERTY
    EveryBitmapDrawn
CHECK_DEADLOCK FALSE
