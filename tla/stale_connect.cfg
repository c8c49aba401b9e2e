SPECIFICATION Spec
CONSTANTS
    Calls = {c1, c2}
    Ops = {"start", "connectEv"}
    Tags = {t1}
    NoTag = NoTag
    TxIds = {7, 9}
    Faults = {}
    MaxRequests = 3
    OneOperator = FALSE
PROPERTY SessionLeftAlone
CHECK_DEADLOCK FALSE
