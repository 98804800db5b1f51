\* Two calls on one switch, nothing fails.
SPECIFICATION Spec
CONSTANTS
  Writers = {w1, w2}
  Toggles = {w1, w2}
  Values = {off, on}
  Polling = FALSE
  Faults = FALSE
  Cancels = FALSE
  LateReplies = FALSE
  MaxPanel = 0
CHECK_DEADLOCK FALSE
INVARIANTS
  LastRequestWins
