SPECIFICATION RegisterSpec
CONSTANTS
    RegisterJobs = {j1}
    MaxClock = 4
    MaxTold = 2
    MaxRegisterCommands = 5
    MaxRegisterRestarts = 1
CHECK_DEADLOCK FALSE
INVARIANTS BilledAsUsed
