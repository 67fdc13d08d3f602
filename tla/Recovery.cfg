SPECIFICATION Spec
CONSTANTS
  None = None
  MaxOperations = 2
  HostLimit = 1
  MaxFaults = 2
  MaxRestarts = 1
  StableSamples = 2
  MaxIncidents = 2
  MaxCommands = 2
  MaxCrashes = 1
INVARIANTS
  UncertainBlocked
  RestartOnce
  
PROPERTIES
  PauseRespected
CHECK_DEADLOCK FALSE
