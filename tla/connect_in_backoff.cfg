SPECIFICATION Spec
CONSTANTS
    Sockets = {s1, s2, s3}
    NoSocket = NoSocket
    Requests = {r1, r2}
    MaxRetries = 2
    MaxConnects = 3
INVARIANT DisconnectCancelsReconnects
SYMMETRY Symmetry
CHECK_DEADLOCK FALSE
