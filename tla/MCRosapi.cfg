CONSTANTS
    MaxNodes = 2
    MaxRequests = 3
    MaxClients = 5
    MaxBatch = 2
SPECIFICATION RosapiFairSpec
INVARIANTS GroupsMatchCalls HeadersTracked
PROPERTIES EveryRequestEnds
CHECK_DEADLOCK FALSE
