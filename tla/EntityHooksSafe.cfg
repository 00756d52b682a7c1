SPECIFICATION Spec
CONSTANTS
  Entity = {e1, e2}
  MaxClock = 3
  MaxExtra = 2
  InOrder = TRUE
  Faults = {"hook", "fetch", "crash"}
INVARIANTS ChangesAreQueued FreshModel
CHECK_DEADLOCK FALSE
