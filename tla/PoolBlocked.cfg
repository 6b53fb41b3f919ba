SPECIFICATION Spec
CONSTANTS
    w1 = w1  w2 = w2  c1 = c1  c2 = c2  j1 = j1  j2 = j2  j3 = j3  j4 = j4  j5 = j5  j6 = j6
    None = None
    Workers = {w1, w2}
    Clients = {c1}
    Jobs = {j1, j2}
    Setups <- BlockedSetups
    PullBatch = 32
    MaxRuns = 1
INVARIANTS BlockedOwnerKeepsOnlySlot
CHECK_DEADLOCK FALSE
