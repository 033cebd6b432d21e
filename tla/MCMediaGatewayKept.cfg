SPECIFICATION Spec
CONSTANTS
    Cameras = {c1}
    Requests = {r1, r2}
    Loop = Loop
    Ports = {p1, p2, p3}
    LivePids = {v1, v2}
    RecorderPids = {f1}
    MaxFailures = 0
    None = None
INVARIANT LiveKept
