SPECIFICATION FairSpec
CONSTANTS
    Servers = {"plain", "chatty"}
    MaxBitmaps = 2
    MaxShares = 2
    MaxQueue = 1
    MaxBatch = 2
INVARIANTS
    MstscTypeOK
    BitmapsInOrder
PROPERTIES
    Terminates
    StopsWithThread
    EveryBitmapDrawn
CHECK_DEADLOCK FALSE
