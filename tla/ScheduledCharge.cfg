\* Quarters of a minute, delays up to two minutes, three minutes of time.
SPECIFICATION Spec
CONSTANTS
  Minute = 4
  MaxDelay = 2
  Horizon = 12
  MaxEdits = 2
  None = None
  Unavailable = Unavailable
CHECK_DEADLOCK FALSE
INVARIANTS
  TypeOK
  ShowsTheSchedule
PROPERTIES
  NeverDrifts
