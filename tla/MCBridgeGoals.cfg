CONSTANTS
    Conn = {c1, c2}
    Tag = {a}
    MaxGoals = 2
    MaxFeedback = 1
    MaxCancels = 1
    MaxBatch = 2
SPECIFICATION FairSpec
INVARIANTS Conversation GoalsTracked
PROPERTIES LeaversCancel GoalsDecided
CHECK_DEADLOCK FALSE
