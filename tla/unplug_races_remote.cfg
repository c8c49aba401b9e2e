SPECIFICATION Spec
CONSTANTS
    Calls = {c1, c2}
    Ops = {"remoteStart", "connectEv", "disconnectEv"}
    Tags = {t1}
    NoTag = NoTag
    TxIds = {7, 9}
    Faults = {}
    MaxRequests = 3
    OneOperator = FALSE
INVARIANT ChargingHasVehicle
CHECK_DEADLOCK FALSE
