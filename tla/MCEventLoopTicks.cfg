SPECIFICATION Spec
CONSTANTS
    Handles = {h1}
    Codes = {0, 3}
    Throwers = {"main"}
    Handlers = {"returns"}
    MaxTicks = 2
    MaxImmediates = 2
    MaxSync = 1
    h1 = h1
PROPERTY
    TicksBeforeIO
