CONSTANTS
    Packet = 2
    MaxBytes = 3
    ForeignSize = 2
    MaxReconnects = 1
    MaxCrashes = 2
    MaxFaults = 1
    MaxUserOps = 1
    PowerLoss = TRUE
SPECIFICATION Spec
INVARIANTS RecoveryNeverRefuses StopDecidesPlan FinalFilesSound IInv
PROPERTIES ForeignFileKept KeepsPromise
