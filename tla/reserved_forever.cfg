SPECIFICATION RemoteSpec
CONSTANTS
    Connectors = {c1}
    ReservationIds = {r1}
    Tags = {t1}
    None = None
    Jobs = {j1}
    MaxCommands = 2
    MaxTransactions = 2
CHECK_DEADLOCK FALSE
INVARIANT ReservedIsBacked
