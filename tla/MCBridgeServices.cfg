CONSTANTS
    Conn = {c1, c2}
    Service = {s1}
    Type = {t1, t2}
    NoService = NoService
    MaxCalls = 1
    MaxAdverts = 3
    MaxRequests = 2
    MaxBatch = 2
SPECIFICATION FairSpec
INVARIANTS ResourcesOwned RequestsAnswerable AnsweredOnce
PROPERTIES CallsEnd FailedReaped
CHECK_DEADLOCK FALSE
