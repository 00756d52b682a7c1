SPECIFICATION Spec
CONSTANTS
  Specs <- MCOneSpec
  Interval <- MCDaily
  Day = 2
  AutoTasks = TRUE
  Window = 2
  MaxChanges = 1
  MaxFaults = 1
  MaxRows = 2
  Events = {"feedback", "play"}
INVARIANTS SyncedPlaysAreImported
PROPERTIES WaitingEnds
CHECK_DEADLOCK FALSE
