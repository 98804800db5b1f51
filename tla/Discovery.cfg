SPECIFICATION Spec
CONSTANTS
  None = None
  Unknown = Unknown
  Stations <- MCStations
  Known <- MCKnown
  Heard <- MCHeard
  MaxHeard = 3
  MaxChanges = 3
  Values = {0, 1}
  Flows = {f1, f2}
  MaxFlows = 4
INVARIANTS
  TypeOK
  StrongestIsKept
  IdentityIsRead
  WatchTellsEverything
  EntryFitsTheStation
PROPERTY
  OnlyRacersReplace
