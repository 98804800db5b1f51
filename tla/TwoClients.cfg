\* The same instance: a task of the previous coordinator is still connected.
SPECIFICATION Spec
CONSTANTS
  Dialogs = {d1, d2}
  MaxSetups = 3
  MaxReadings = 1
  MaxChanges = 2
  None = None
SYMMETRY Symmetry
CHECK_DEADLOCK FALSE
INVARIANTS
  SingleClient
