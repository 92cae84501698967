SPECIFICATION Spec
CONSTANTS
    Threads = {m, t1, t2}
    Main = m
    InitialThreads = {m, t1}
    MaxQueueSize = 1
    Aborters = {m}
    JoinInFinalizer = FALSE
    MaxCalls <- CallsOfThreads
    m = m
    t1 = t1
    t2 = t2
INVARIANTS
    ExactlyOnceInOrder
    NoUseAfterFree
    NothingLostWithoutAbort
    NoLostWakeup
PROPERTIES
    BlockedCallReturns
    EventuallyReleased
CHECK_DEADLOCK FALSE
