CONSTANTS
    Conn = {c1, c2}
    Capacity = 2
    MaxSent = 3
SPECIFICATION FairSpec
INVARIANTS ReadyIffWork BoundedBypass
PROPERTIES ChannelSpec EventuallyServed
CHECK_DEADLOCK FALSE
