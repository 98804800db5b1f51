\* Two service calls, a poll and refreshes, with faults and cancelled calls.
SPECIFICATION Spec
CONSTANTS
  Writers = {w1, w2}
  Toggles = {}
  Values = {off, on}
  Polling = TRUE
  Faults = TRUE
  Cancels = TRUE
  LateReplies = TRUE
  MaxPanel = 1
SYMMETRY CallSymmetry
CHECK_DEADLOCK FALSE
INVARIANTS
  TypeOK
  
  ReadBackIsFresh
  LastWriteWins
PROPERTIES
  NeverBackwards
