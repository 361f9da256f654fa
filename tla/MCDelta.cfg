SPECIFICATION EncodeSpec
CONSTANTS
    Base = 2
    Low = 2
    MaxObject = 40
    MaxHead = 6
    MaxDistance = 12
    Contents <- MCContents
    Window = 2
    ScanLimit = 2
    MaxInsert = 3
    Wide = 2
    OffsetBytes = 4
    SizeBytes = 2
    HashBase = 3
    HashMod = 3
    MaxTarget = 6
INVARIANTS
    Restores
CHECK_DEADLOCK FALSE
