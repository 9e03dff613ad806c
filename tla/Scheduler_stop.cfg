CONSTANTS
    N = 2
    MaximumConcurrent = 2
    MaxTime = 3
    Starts = {1}
    Duration = 2
    Priorities = {1}
    Enabling = {TRUE}
    Modes = {}
    Requests = {"none"}
    LateStartLimit = 1
    MinimumRunTime = 1
    MinimumIdle = 2
    WakeMargin = 1
    MaxChanges = 1
    MaxFaults = 0
    MayShutDown = FALSE
SPECIFICATION Spec
INVARIANT StopConfined
CHECK_DEADLOCK FALSE
