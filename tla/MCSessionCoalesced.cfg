SPECIFICATION FairSession
CONSTANTS
    Tls = TRUE
    Payloads <- NoPayloads
    MaxQueue = 3
    MaxSent = 16
    MaxEvents = 4
    MaxShare = 2
    MaxBitmaps = 2
    MaxBatch = 2
    Servers = {"coalescing"}
PROPERTY
    Reactivates
