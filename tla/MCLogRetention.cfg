CONSTANTS
    Process = {p1, p2}
    MaxFiles = 1
    PeriodLength = 1
    MaxTime = 0
    MaxStamp = 3
    MaxFaults = 0
SPECIFICATION LogSpec
SYMMETRY Symmetry
INVARIANTS RetainsMaxFiles
CHECK_DEADLOCK FALSE
