SPECIFICATION HealingSpec
CONSTANTS
    Callers = {c1, c2}
    Kinds = {"operation", "withClient", "reconnect"}
    Supervisors = {s1}
    Handles = {h1}
    Supervised = TRUE
    Serial = FALSE
    TimedConnect = TRUE
    RuntimeLimits = FALSE
    NoHandle = NoHandle
    Free = Free
    Work = Work
CHECK_DEADLOCK FALSE
INVARIANTS HandlesAreOwned OnePendingConnect CircuitHasSupervisor
PROPERTIES SuccessIsByTheHandle EveryCallerAnswered CircuitCloses
