SPECIFICATION Spec
CONSTANTS
    Handles = {h1, h2, h3}
    Timeouts = {t1, t2}
    MaxFires = 2
    MaxRefs = 1
    None = None
    h1 = h1
    h2 = h2
    h3 = h3
    t1 = t1
    t2 = t2
INVARIANTS
    TimersSafe
PROPERTIES
    FollowsHandleLife
    FiresOnlyWhenDue
    FinishedIsReleased
