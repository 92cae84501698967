SPECIFICATION Spec
CONSTANTS
  MaxObjects = 3
  MaxRefs = 2
  MaxDepth = 3
  MaxSteps = 5
  Works = {w1}
  Hooks = {h1, h2}
INVARIANT CountsOwners
INVARIANT ReferencesExact
INVARIANT ExceptionStaysInFrame
INVARIANT WorkSafe
INVARIANT HooksInOrder
CHECK_DEADLOCK FALSE
