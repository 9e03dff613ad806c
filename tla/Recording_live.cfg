CONSTANTS
    Packet = 2
    MaxBytes = 2
    ForeignSize = 2
    MaxReconnects = 1
    MaxCrashes = 2
    MaxFaults = 1
    MaxUserOps = 1
    PowerLoss = FALSE
SPECIFICATION LiveSpec
INVARIANT RowMatchesFiles
PROPERTIES StopHonoured Settles AvailabilityConverges
