SPECIFICATION UploadFairSpec
CONSTANTS
    Segments = {s1}
    Calls = {a}
    MaxCrashes = 1
    U64 = 6
    MayStall = TRUE
    s1 = s1
    a = a
INVARIANTS
    TypeOK
    ArchiveClaims
    NeverLastCopy
    UploadHasOwner
PROPERTIES
    UploadEnds
