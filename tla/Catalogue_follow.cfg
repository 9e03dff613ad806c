CONSTANTS
    Locators = {e1}
    e1 = e1
    First <- A
    Configured = {e1}
    Contents <- MCContents
    Offers <- MCOffers
    Generations = 4
    Kept = 2
    Retention = 1
    Horizon = 2
    MaxShift = 1
    Batch = 1
    Numbers = {1}
    MaxPage = 1
    ExtensionOnly = FALSE
    MaxTime = 3
    MaxFaults = 1
    MaxUserOps = 2
SPECIFICATION Spec
PROPERTY FollowsVerifiedOnly
CHECK_DEADLOCK FALSE
