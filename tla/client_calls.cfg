SPECIFICATION FairSpec
CONSTANTS
    Sockets = {s1, s2, s3}
    NoSocket = NoSocket
    Requests = {r1, r2}
    MaxRetries = 2
    MaxConnects = 3
INVARIANTS
    NoCallOutlivesItsSocket
    KeepsTrying
    OneConnection
PROPERTY LostLinkIsRetried
CHECK_DEADLOCK FALSE
