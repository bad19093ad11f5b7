SPECIFICATION Spec
CONSTANTS
    Callers = {c1}
    Kinds = {"operation", "reconnect"}
    Supervisors = {s1, s2}
    Handles = {h1}
    Supervised = TRUE
    Serial = FALSE
    TimedConnect = FALSE
    RuntimeLimits = FALSE
    NoHandle = NoHandle
    Free = Free
    Work = Work
CHECK_DEADLOCK FALSE
INVARIANTS OneSupervisor
