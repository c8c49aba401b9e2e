SPECIFICATION LinkSpec
CONSTANTS
    Sockets = {s1, s2}
    NoSocket = NoSocket
    Requests = {}
    MaxRetries = 1
    MaxConnects = 2
    MaxBoots = 2
    MaxWrites = 2
    MaxCrashes = 1
    ExploreEarly = FALSE
INVARIANTS
    KeepsBooting
    RegistrationNeedsLink
    StatusIsReported
    StopIsFinal
    ResetIsWoken
SYMMETRY SocketSymmetry
CHECK_DEADLOCK FALSE
