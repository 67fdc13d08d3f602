SPECIFICATION FairSpec
CONSTANTS
  Requests = {"r1", "r2"}
  Model <- MCModel
  Background = {"r2"}
  Managers = {"g"}
  None = None
  DrainDisconnects = FALSE
  UnloadOnSwitch = TRUE
  Guarded = TRUE
  MaxRevision = 2
CHECK_DEADLOCK FALSE
INVARIANTS
  OneInference
  OneAtATime
  ManagementAlone
  ReleasedMeansEmpty
PROPERTIES
  
  ServiceEnds
  PauseSettles
