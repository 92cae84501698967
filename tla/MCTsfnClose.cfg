SPECIFICATION Spec
CONSTANTS
    Threads = {m, t1, t2}
    Main = m
    InitialThreads = {m, t1}
    MaxQueueSize = 1
    Aborters = {m}
    JoinInFinalizer = TRUE
    MaxCalls <- CallsOfThreads
    m = m
    t1 = t1
    t2 = t2
INVARIANT
    ClosedOnlyWhenCleared
CHECK_DEADLOCK FALSE
