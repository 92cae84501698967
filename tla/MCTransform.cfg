SPECIFICATION Spec
CONSTANTS
    HighWaterMark = 2
    Sizes = {1}
    MaxWrites = 2
    MaxPushes = 2
    MaxEofs = 1
PROPERTY
    TransformFinishes
CHECK_DEADLOCK FALSE
