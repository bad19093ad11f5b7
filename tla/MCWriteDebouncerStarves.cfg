CONSTANTS
    Calls = {c1, c2}
    Addresses <- MCAddresses
    Groups <- MCStarvationGroups
    MaxGroup = 2
    Window = 1
    MaxHold = 2
    FlushFullRuns = TRUE
    Limit = 2
    MaxQueue = 1
    Repeat = TRUE
    NoCall = NoCall
    NoEntry = NoEntry
SPECIFICATION FairSpec
CHECK_DEADLOCK FALSE
PROPERTY HoldLimitEnds
