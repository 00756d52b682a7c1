SPECIFICATION Spec
CONSTANTS
  Specs <- MCSpecs
  Interval <- MCInterval
  Day = 4
  AutoTasks = TRUE
  Window = 2
  MaxChanges = 2
  MaxFaults = 1
  MaxRows = 2
  Events = {"page"}
INVARIANTS SchedulesKeepTime
PROPERTIES BackupFirst
CHECK_DEADLOCK FALSE
