SPECIFICATION Spec
CONSTANTS
    HighWaterMark = 2
    Sizes = {0, 1, 2}
    MaxWrites = 3
    MaxPushes = 2
    MaxEofs = 2
    MaxScriptWrites = 1
INVARIANTS
    WrittenInOrder
    DrainIsDue
    FinishIsLast
    SourceInOrder
PROPERTIES
    PipeFinishes
CHECK_DEADLOCK FALSE
