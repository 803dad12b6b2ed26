CONSTANTS
    Conn = {c1, c2}
    Topic = {t1}
    Id = {}
    NoId = NoId
    Queues = {0, 1}
    MaxPublishers = 1
    MaxSubscriptions = 1
    MaxMessages = 3
    MaxBatch = 2
SPECIFICATION FairSpec
INVARIANTS SharedEntities LateJoiner InOrder
PROPERTIES QueueBounded PendingDrains
CHECK_DEADLOCK FALSE
