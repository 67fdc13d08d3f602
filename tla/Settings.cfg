SPECIFICATION FairSpec
CONSTANTS
  Pages = {p1, p2}
  Fields <- MCFields
  Values = {0, 1}
  Hosts <- MCHosts
  Valid <- MCValid
  Drafts <- MCDrafts
  None = None
  Unreadable = Unreadable
  MaxRevision = 2
  MaxFaults = 1
  MaxStops = 2
  MaxHostChanges = 2
INVARIANTS
  AcknowledgedSurvives
  ChangeFromCurrent
  RestartKillsNothing

  
