SPECIFICATION Spec
CONSTANTS
    Calls = {c1, c2}
    Ops = {"start", "remoteStart", "remoteStop", "stop", "connectEv",
           "disconnectEv", "lock", "unlock", "clearFault"}
    Tags = {t1}
    NoTag = NoTag
    TxIds = {7}
    Faults = {"drop", "lost", "crash"}
    MaxRequests = 3
    OneOperator = FALSE
SYMMETRY Symmetry
INVARIANTS
    OneStartPerAttempt
    SessionIsWhole
    PreparingHasDeadline
    StopNamesIssuedTransaction
CHECK_DEADLOCK FALSE
