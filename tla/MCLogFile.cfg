CONSTANTS
    Process = {p1, p2}
    MaxFiles = 1
    PeriodLength = 1
    MaxTime = 1
    MaxStamp = 5
    MaxFaults = 1
SPECIFICATION LogSpec
SYMMETRY Symmetry
INVARIANTS NoLineLost PrunesOnlyOld ArchiveFree
CHECK_DEADLOCK FALSE
