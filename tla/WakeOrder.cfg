SPECIFICATION Spec
CONSTANTS
    p1 = p1  p2 = p2
    Worker = Worker
    Publishers = {p1, p2}
    Scripts <- Workloads
INVARIANT NoMissedWake
CHECK_DEADLOCK FALSE
