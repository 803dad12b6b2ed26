CONSTANTS
    Probes = TRUE
    MaxFrames = 3
    MaxBatches = 1
    BatchFrames = 2
    MaxPings = 2
SPECIFICATION FairSpec
INVARIANTS BatchIntact ProbeMatchesPong
PROPERTIES SessionEnds ProbeResolved
CHECK_DEADLOCK FALSE
