CONSTANTS
    Conn = {c1, c2}
    HandshakeTime = 2
    WriteTime = 2
    CloseTime = 1
    GraceTime = 5
    WaitTime = 1
    NapTime = 1
    TickTime = 1
    SlowTime = 6
    Budget = 2
SPECIFICATION FairSpec
INVARIANTS GraceSuffices NoLostWake
PROPERTIES ServerExits
CHECK_DEADLOCK FALSE
