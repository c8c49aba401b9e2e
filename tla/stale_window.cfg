SPECIFICATION Spec
CONSTANTS
    Calls = {c1}
    Ops = {"start", "stop", "connectEv", "disconnectEv", "clearFault"}
    Tags = {t1}
    NoTag = NoTag
    TxIds = {7, 9}
    Faults = {}
    MaxRequests = 6
    OneOperator = TRUE
PROPERTY FreshWindow
CHECK_DEADLOCK FALSE
