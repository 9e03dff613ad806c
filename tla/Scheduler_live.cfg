CONSTANTS
    N = 2
    MaximumConcurrent = 1
    MaxTime = 1
    Starts = {0, 1}
    Duration = 1
    Priorities = {1}
    Enabling = {TRUE}
    Modes = {"STANDBY"}
    Requests = {"STANDBY"}
    LateStartLimit = 0
    MinimumRunTime = 1
    MinimumIdle = 2
    WakeMargin = 1
    MaxChanges = 1
    MaxFaults = 1
    MayShutDown = TRUE
SPECIFICATION LiveSpec
INVARIANTS ActiveWithinLimit RegistryAccepts AttemptOwned
PROPERTIES RunReturns DueIsHandled
CHECK_DEADLOCK FALSE
