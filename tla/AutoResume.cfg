SPECIFICATION FairSpec
CONSTANTS
  Durations = {1}
  None = None
  Unreadable = Unreadable
  MaxClock = 1
  MaxCommands = 2
  MaxFaults = 0
  MaxCrashes = 0
PROPERTIES
  ManualPauseRemains
CHECK_DEADLOCK FALSE
