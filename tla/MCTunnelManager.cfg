SPECIFICATION MCSpec
CONSTANTS
    c1 = c1
    c2 = c2
    p1 = p1
    Cameras = {c1, c2}
    Ports = {p1}
    PortOf <- MCPortOf
    Requests = {1, 2, 3}
    NoTask = NoTask
INVARIANTS
    TypeOK
    StatusIsBacked
    OneListenerPerPort
PROPERTIES
    StartingEnds
    LossIsReported
CHECK_DEADLOCK FALSE
