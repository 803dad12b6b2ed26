CONSTANTS
    Conn = {c1}
    Topic = {t1, t2}
    Control = control
    Capacity = 2
    ControlCapacity = 1
    ByteLimit = 3
    Workers = 1
    Sizes = {1, 2, 4}
    TopicLimits = {0, 1, 2}
    Encodings = {TRUE, FALSE}
    MaxTopic = 3
    MaxControl = 2
SPECIFICATION Spec
INVARIANTS LanesFaithful
PROPERTIES CloseIsFinal EvictOwnTopic
CHECK_DEADLOCK FALSE
