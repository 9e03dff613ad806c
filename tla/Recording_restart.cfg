CONSTANTS
    Packet = 2
    MaxBytes = 2
    ForeignSize = 2
    MaxReconnects = 1
    MaxCrashes = 1
    MaxFaults = 0
    MaxUserOps = 0
    PowerLoss = FALSE
SPECIFICATION Spec
INVARIANT StopSurvivesRestart
