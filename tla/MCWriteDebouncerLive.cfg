SPECIFICATION FairSpec
CONSTANTS
    Calls = {c1, c2}
    MaxGroup = 2
    FlushFullRuns = FALSE
    Limit = 2
    MaxQueue = 1
    Repeat = TRUE
    NoCall = NoCall
    NoEntry = NoEntry
CHECK_DEADLOCK FALSE
PROPERTIES EveryCallSettles
