SPECIFICATION FairSpec
CONSTANTS
    Segments = {s1}
    Calls = {}
    MaxCrashes = 1
    U64 = 6
    MayStall = FALSE
    s1 = s1
PROPERTIES
    SegmentsUploaded
