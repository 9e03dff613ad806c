CONSTANTS
    N = 2
    MaximumConcurrent = 1
    MaxTime = 3
    Starts = {1, 3}
    Duration = 2
    Priorities = {1}
    Enabling = {TRUE}
    Modes = {}
    Requests = {"none"}
    LateStartLimit = 1
    MinimumRunTime = 1
    MinimumIdle = 2
    WakeMargin = 1
    MaxChanges = 0
    MaxFaults = 0
    MayShutDown = FALSE
SPECIFICATION Spec
PROPERTY SlotReused
CHECK_DEADLOCK FALSE
