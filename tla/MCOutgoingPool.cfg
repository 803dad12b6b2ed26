CONSTANTS
    Conn = {c1, c2}
    Topic = {t1}
    Control = control
    Capacity = 1
    ControlCapacity = 1
    ByteLimit = 1
    Workers = 1
    Sizes = {1, 2}
    TopicLimits = {1}
    Encodings = {TRUE, FALSE}
    MaxTopic = 0
    MaxControl = 1
SPECIFICATION FairSpec
INVARIANTS PermitsConserved WakeupPending
PROPERTIES ControlDelivered
CHECK_DEADLOCK FALSE
