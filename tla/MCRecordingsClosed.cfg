SPECIFICATION Spec
CONSTANTS
    Segments = {s1}
    Calls = {}
    MaxCrashes = 0
    U64 = 6
    MayStall = TRUE
    s1 = s1
INVARIANTS
    IndexedIsClosed
