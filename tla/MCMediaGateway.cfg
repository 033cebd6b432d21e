SPECIFICATION FairSpec
CONSTANTS
    Cameras = {c1}
    Requests = {r1, r2}
    Loop = Loop
    Ports = {p1, p2, p3}
    LivePids = {v1}
    RecorderPids = {f1, f2}
    MaxFailures = 1
    None = None
INVARIANTS
    TypeOK
    RecorderKept
    ListenerOwned
PROPERTIES
    RecorderEnds
    RecorderComesBack
