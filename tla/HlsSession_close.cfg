CONSTANTS
    Slots = {0}
    Keys = {k1}
    k1 = k1
    MaxSelections = 1
    MaxTouches = 1
SPECIFICATION SessionLiveSpec
PROPERTY CloseCompletes
CHECK_DEADLOCK FALSE
