SPECIFICATION FairSpec
CONSTANTS
    Callers = {c1, c2}
    Addresses <- MCAddresses
    Groups <- MCGroups
    MaxGroup = 3
    Windows = {0, 2}
    MaxPerRead = 3
    MaxGap = 1
    MaxVersion = 1
    MaxFlushes = 1
    Nobody = Nobody
CHECK_DEADLOCK FALSE
INVARIANTS WindowIsFixed AnswersAreWhole AnswersAreFresh
PROPERTIES EveryReaderAnswered
