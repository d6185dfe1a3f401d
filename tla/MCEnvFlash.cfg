SPECIFICATION Spec
CONSTANTS
    Keys = {k1, k2}
    Vals = {v1, v2}
    Absent = Absent
    NumSectors = 3
    Cap = 2
    MaxFailures = 1
INVARIANTS
    TypeOK
    ReadsTellTheLastSet
    ReadsTellTheStore
    CacheTellsFlash
    ReserveIsKept
PROPERTIES
    ImplementsStore
    WorkEnds
