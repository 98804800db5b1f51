\* Two dialogs, the setup and two reloads, two changes of the readings.
SPECIFICATION Spec
CONSTANTS
  Dialogs = {d1, d2}
  MaxSetups = 3
  MaxReadings = 2
  MaxChanges = 2
  None = None
SYMMETRY Symmetry
CHECK_DEADLOCK FALSE
INVARIANTS
  TypeOK
  ReadBeforeEntities
  CorrectionInForce
  OnlyWhileCharging
PROPERTIES
  NoSampleLost
  SampleIsFresh
