SPECIFICATION Spec
CONSTANTS
  Job = {j1, j2}
  TaskType = {build}
  AutoType = {}
  Pid = {p1, p2}
  Client = {c1}
  Stale = 2
  Window = 2
  IdleLimit = 0
  AutoEnabled = FALSE
  TimelyHeartbeats = TRUE
  ProcListing = FALSE
  Faults = {"crash", "sigterm", "cancel", "idle_exit", "request_dies", "spawn_fails", "open_fails", "schema_skew", "write_fails"}
INVARIANTS TypeOK SingleExecution InterruptedMeansGone
PROPERTIES TerminalIsFinal ImplementsJobService
SYMMETRY Symmetry
CHECK_DEADLOCK FALSE
