SPECIFICATION FairSpec
CONSTANTS
  Durations = {1}
  None = None
  Unreadable = Unreadable
  MaxClock = 1
  MaxCommands = 3
  MaxFaults = 2
  MaxCrashes = 1
INVARIANTS
  PauseSurvives
  AdmissionFollows
  ReleaseNeverStale
PROPERTIES
  TimedPauseEnds
CHECK_DEADLOCK FALSE
