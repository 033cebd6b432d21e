SPECIFICATION Spec
CONSTANTS
    Cameras = {c1, c2}
    Ports = {1, 2}
    Provider = Provider
    Other = Other
    ProviderIds = {p1, p2}
    Calls = {a, b}
    MaxRequests = 3
    MaxRestarts = 2
    None = None
    Torn = Torn
    Unknown = Unknown
PROPERTIES
    RestartKeepsCameras
CHECK_DEADLOCK FALSE
