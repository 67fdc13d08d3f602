SPECIFICATION Spec
CONSTANTS
  Requests = {"r1", "r2"}
  Model <- MCModel
  Background = {}
  Managers = {}
  None = None
  DrainDisconnects = TRUE
  UnloadOnSwitch = TRUE
  Guarded = FALSE
  MaxRevision = 0
CHECK_DEADLOCK FALSE
PROPERTIES
  UnloadsBeforeSwitch
