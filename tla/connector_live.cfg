SPECIFICATION FairSpec
CONSTANTS
    Calls = {c1, c2}
    Ops = {"start","stop","connectEv","disconnectEv","remoteStart"}
    Tags = {t1}
    NoTag = NoTag
    TxIds = {7}
    Faults = {}
    MaxRequests = 3
    OneOperator = TRUE
INVARIANTS
    ChargingHasVehicle
PROPERTIES
    HandshakeWindowCloses
    AttemptSettles
    FinishingSettles
    LostAttemptIsClosed
    KeepsLifecycle
