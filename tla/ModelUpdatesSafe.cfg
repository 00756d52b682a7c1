SPECIFICATION Spec
CONSTANTS
  Worker = {w1, w2}
  Entity = {scene}
  Mode = {"build", "update-model", "sync-build"}
  MaxRequests = 2
  Revert = FALSE
  Faults = {"crash", "cancel", "build_fails"}
INVARIANTS OneBuilder ModelAvailable FreshWhenClean
CHECK_DEADLOCK FALSE
