SPECIFICATION FairMediaSpec
CONSTANTS
    None = None
    Requests = {r1, r2}
    Sizes <- MCSizes
    Bounds <- MCBounds
    Chunk = 2
    MinPart = 3
    MaxChanges = 1
    Limit = 1
INVARIANTS
    MediaTypeOK
    PermitsKept
    ProcessesBounded
    RangeDelivered
    PartsMakeFile
PROPERTIES
    WaitersServed
    CopyEnds
CHECK_DEADLOCK FALSE
