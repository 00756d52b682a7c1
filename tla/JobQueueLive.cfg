SPECIFICATION FairSpec
CONSTANTS
  Job = {j1, j2}
  TaskType = {build}
  AutoType = {build}
  Pid = {p1}
  Client = {c1}
  Stale = 2
  Window = 2
  IdleLimit = 1
  AutoEnabled = TRUE
  TimelyHeartbeats = TRUE
  ProcListing = TRUE
  Faults = {"crash", "cancel", "idle_exit"}
INVARIANT OneActivePerType
PROPERTIES AskedJobStarts RunningJobSettles
CHECK_DEADLOCK FALSE
