SPECIFICATION FairSpec
CONSTANTS
    t1 = t1  t2 = t2  t3 = t3
    None = None
    Threads = {t1, t2, t3}
    Values = {1, 2, 3, 4, 5, 6}
    LAP = 4
    Scripts <- Workloads
INVARIANTS TypeOK NoBlockFreedUnderReader HeadBehindTail NothingLeaks
PROPERTIES EmptyIsTrue LenIsASnapshot ImplementsQueue CallsReturn
CHECK_DEADLOCK FALSE
