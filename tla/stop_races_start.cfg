SPECIFICATION Spec
CONSTANTS
    Calls = {c1, c2}
    Ops = {"start", "stop", "connectEv"}
    Tags = {t1}
    NoTag = NoTag
    TxIds = {7, 9}
    Faults = {}
    MaxRequests = 3
    OneOperator = TRUE
PROPERTY StopClosesTransaction
CHECK_DEADLOCK FALSE
