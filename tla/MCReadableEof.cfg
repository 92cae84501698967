SPECIFICATION ReadableSpec
CONSTANTS
    MaxPushes = 2
    MaxEofs = 1
INVARIANT
    EndWhenConsumed
CHECK_DEADLOCK FALSE
