SPECIFICATION Spec
CONSTANTS
    Handles = {h1, h2}
    Codes = {0, 3}
    Throwers = {"io", "raw", "sync", "tick", "immediate", "exit", "exitCall"}
    Handlers = {"none", "returns", "throws"}
    MaxTicks = 2
    MaxImmediates = 2
    MaxSync = 1
    h1 = h1
    h2 = h2
INVARIANTS
    CallbacksInOrder
    NothingWaits
    OneExitEvent
PROPERTIES
    ExitsOnlyWhenIdle
    CallbacksRun
