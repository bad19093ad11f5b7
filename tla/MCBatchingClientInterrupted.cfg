SPECIFICATION Spec
CONSTANTS
    Registers <- MCTwoRegisters
    Coils <- MCNoCoils
    Values = {0, 1}
    PowerOn = 0
    Limit = 4
    MinRun = 2
    MaxGap = 1
    ReadLimit = 1
    Batches <- MCRegisterBatches
    RawCallers = {r1}
    RawWrites <- MCRegisterWrites
    Retries = FALSE
    Interrupts = TRUE
    MaxGeneration = 1
    Unknown = Unknown
    Build = Build
    Free = Free
CHECK_DEADLOCK FALSE
INVARIANTS InterruptionIsNoticed
