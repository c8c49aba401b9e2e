SPECIFICATION StationSpec
CONSTANTS
    Connectors = {c1}
    ReservationIds = {r1}
    Tags = {t1}
    None = None
    Jobs = {j1, j2}
    MaxCommands = 3
    MaxTransactions = 2
    Drains = {j1, j2}
    MaxMessages = 3
    PanelJobs = {j1, j2}
    MaxPanelCommands = 3
    MaxPanelRestarts = 1
    BoardJobs = {j1, j2}
    MaxUpgrades = 3
    MaxBoardCrashes = 1
    ListJobs = {j1, j2}
    ListTags = {a, b}
    MaxListVersion = 2
    MaxListSends = 3
    MaxListCrashes = 1
    ProfileIds = {1, 2}
    StackLevels = {0, 1}
    Starts <- PeriodStarts
    Limits = {1, 5}
    NoLimit = NoLimit
    Rate = 3
    MaxPeriods = 2
    MaxSeconds = 4
    MaxProfileCommands = 2
    LoopJobs = {j1, j2}
    MaxInterval = 2
    MaxLoopCommands = 4
    ConfigJobs = {j1, j2}
    LongestTimer = 2
    DefaultHeartbeat = 1
    MaxConfigCommands = 4
    Runs = {j1, j2}
    MaxUpdateCommands = 3
    Entries = {e1, e2}
    NoEntry = NoEntry
    Urls = {u1, u2}
    NoUrl = NoUrl
    HttpRequests = {j1, j2}
    MaxRequests = 4
    MaxStatuses = 1
    RegisterJobs = {j1, j2}
    MaxClock = 2
    MaxTold = 2
    MaxRegisterCommands = 4
    MaxRegisterRestarts = 1
    Sown = {1, 11}
    Seeders = {s1}
    Entered = {"padded", "beyond"}
    ParameterJobs = {p1}
    Instances = {demo, mine}
    Demo = demo
    MaxSeeds = 2
    MaxParameterCommands = 3
    Incoming = {j1, j2}
    MaxLinks = 2
    Plugs = {k1, k2}
    Presses = {p1}
    MaxVersion = 2
    Upgrading = {2}
SYMMETRY Interchangeable
CHECK_DEADLOCK FALSE
INVARIANTS
    StartCallExclusive NoForgottenTransaction LoopsOwned ExpiryIsOwned
    DeliveredOnce
    NoCollision ShownIsStored
    UpgradeIsOwned VersionCountsUpgrades
    VersionedListIsWhole
    EnergyAddsUp
    LoopServesSession HeartbeatIsStored FirmwareStatusIsTrue
    ClientsAreHeld RowAndEntryAgree MeterIsTrue
    InstancesAreWhole AnswersComeFirst DoneIsShown
PROPERTY DeliversInOrder
