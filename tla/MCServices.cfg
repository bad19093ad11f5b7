SPECIFICATION ServicesSpec
CONSTANTS
    Undefined = Undefined
    c1 = c1
    c2 = c2
    Callers = {c1, c2}
    UnitIds = {1, 2}
    MaxSupervisors = 2
    Definitions <- MCDefinitions
    Operations <- MCOperations
    ClientPolicies <- MCClientPolicies
    TransportOptions <- MCTransportOptions
    Faults <- MCFaults
    Devices = {d1, d2, d3}
    LongPaths = {d3}
    Directories = {dir1, dir2}
    Absent = Absent
    t1 = t1
    t2 = t2
    Transports = {t1, t2}
    Units = {1, 2}
    Declarations <- MCDeclarations
    MaxLosses <- MCLosses
    MaxGeneration = 1
    MaxFlights = 2
    Undeclared = Undeclared
    Idle = Idle
    Unknown = Unknown
CHECK_DEADLOCK FALSE
INVARIANTS AttemptsAreBounded ScopesReleaseWhatTheyHold BeliefsAreCurrent
PROPERTIES OperationsAreWhole CircuitRecovers OpensFollowTheLink
