SPECIFICATION ConnectionSpec
CONSTANTS
    Messages <- MCMessages
    MaxFlight = 1
    Kinds = {"conforming"}
    Initiators = {6}
    Versions = {"00080001", "00080004"}
INVARIANTS
    ExtendedInfo
CHECK_DEADLOCK FALSE
