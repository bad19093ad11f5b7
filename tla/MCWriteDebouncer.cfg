CONSTANTS
    Calls = {c1, c2}
    Addresses <- MCAddresses
    Groups <- MCGroups
    MaxGroup = 2
    Window = 2
    MaxHold = 3
    FlushFullRuns = TRUE
    Limit = 2
    MaxQueue = 2
    Repeat = FALSE
    NoCall = NoCall
    NoEntry = NoEntry
SPECIFICATION OrderSpec
SYMMETRY MCSymmetry
INVARIANTS TypeOK NobodyStranded RemainingIsExact SettledHasNothingLeft HoldIsBounded BypassSticks
PROPERTIES ImplementsOrderedWrites TimerTakesWhenDue
CHECK_DEADLOCK FALSE
