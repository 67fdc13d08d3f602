SPECIFICATION Spec
CONSTANTS
  Events = {e1, e2}
  None = None
  MaxVerifying = 1
  MaxRequests = 2
  MaxTickets = 2
  MaxFaults = 1
  MaxCrashes = 1
INVARIANTS
  TypeOK
  SavedRestorable
  OneOnGpu
  RescueOnce
  NoOrphan
PROPERTIES
  NeverRepeated
SYMMETRY Symmetry
CHECK_DEADLOCK FALSE
