SPECIFICATION NetSpec
CONSTANTS
    Sockets = {s1, s2}
    MaxCalls = 4
    MaxInput = 1
SYMMETRY SocketSymmetry
INVARIANTS
    HandlesAccountedFor
    DestroyIsDone
PROPERTY
    ServerCloseIsLast
CHECK_DEADLOCK FALSE
