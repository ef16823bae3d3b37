SPECIFICATION Spec
CONSTANTS
    Tls = TRUE
    Payloads <- AnyPayloads
    MaxQueue = 1
    MaxSent = 12
    MaxEvents = 2
INVARIANTS
    TypeOK
    HandshakeOrder
    HandshakeComplete
    SilentAfterShutdown
    DemandsAnswered
PROPERTY
    ErrorsDoNotAdvance
