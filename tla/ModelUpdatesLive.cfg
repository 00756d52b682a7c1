SPECIFICATION FairSpec
CONSTANTS
  Worker = {w1}
  Entity = {scene}
  Mode = {"build", "force-build", "update-model"}
  MaxRequests = 2
  Revert = FALSE
  Faults = {"crash", "cancel", "build_fails"}
PROPERTIES RequestsArePublished
CHECK_DEADLOCK FALSE
