CONSTANTS
    Conn = {c1, c2}
    Action = {act}
    Type = {t1, t2}
    Uuid = {u1, u2}
    Zero = Zero
    MaxServers = 2
    MaxGoals = 2
    MaxRequests = 4
    MaxBatch = 2
SPECIFICATION Spec
SYMMETRY Symmetry
INVARIANTS ServersTracked SameResult
PROPERTIES GoalLife
CHECK_DEADLOCK FALSE
