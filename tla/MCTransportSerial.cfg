SPECIFICATION Spec
CONSTANTS
    Callers = {c1, c2}
    Kinds = {"operation", "reconnect"}
    Supervisors = {s1}
    Handles = {h1, h2, h3}
    Supervised = FALSE
    Serial = TRUE
    TimedConnect = FALSE
    RuntimeLimits = TRUE
    NoHandle = NoHandle
    Free = Free
    Work = Work
CHECK_DEADLOCK FALSE
SYMMETRY MCSymmetry
INVARIANTS TypeOK LimitIsOfHandle OneOnTheLine
