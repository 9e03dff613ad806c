CONSTANTS
    OperationCap = 2
    MaxKills = 2
    MaxErrors = 1
    MaxRevision = 1
SPECIFICATION RestoreLiveSpec
PROPERTY RecoveryConverges
CHECK_DEADLOCK FALSE
