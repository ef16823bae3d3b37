SPECIFICATION ConnectionSpec
CONSTANTS
    Messages <- MCMessages
    MaxFlight = 1
    Kinds = {"conforming", "split", "stranger", "any"}
    Initiators = {6}
    Versions = {"00080001", "00080004"}
INVARIANTS
    ConnectTypeOK
    InSequence
    CredentialsGuarded
    Agreement
    InStep
    NoFalseAlarm
    OnlyTheAccountHolder
PROPERTIES
    LayerByLayer
    Returns
    Connects
CHECK_DEADLOCK FALSE
