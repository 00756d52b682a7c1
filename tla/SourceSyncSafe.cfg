SPECIFICATION Spec
CONSTANTS
  LastScene = 3
  MaxClock = 4
  PageSize = 1
  SweepSize = 1
  FullOverlap = {"play"}
  IncrementalOverlap = {"create", "update", "play"}
INVARIANTS WatermarkSound
PROPERTIES CompleteSyncAgrees 
CHECK_DEADLOCK FALSE
