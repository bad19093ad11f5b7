SPECIFICATION FairSpec
CONSTANTS
    Registers <- MCRegisters
    Coils <- MCCoils
    Values = {0, 1}
    PowerOn = 0
    Limit = 4
    MinRun = 2
    MaxGap = 1
    ReadLimit = 1
    Batches <- MCBatches
    RawCallers = {r1}
    RawWrites <- MCRawWrites
    Retries = TRUE
    Interrupts = TRUE
    MaxGeneration = 1
    Unknown = Unknown
    Build = Build
    Free = Free
CHECK_DEADLOCK FALSE
INVARIANTS TypeOK CacheIsTrue BatchReachesDevice OneWritePath
PROPERTIES WriteLockSettles ImplementsUnitWrites
