SPECIFICATION Spec
CONSTANTS
    Servers = {"plain"}
    MaxBitmaps = 2
    MaxShares = 1
    MaxQueue = 2
    MaxBatch = 1
INVARIANT
    NeverPanics
CHECK_DEADLOCK FALSE
