\* One abandoned write echo is kept by the station.
SPECIFICATION Spec
CONSTANTS
  Writers = {w1, w2}
  Toggles = {}
  Values = {off, on}
  Polling = TRUE
  Faults = TRUE
  Cancels = FALSE
  LateReplies = TRUE
  MaxPanel = 0
CHECK_DEADLOCK FALSE
INVARIANTS
  NeverFailsSilently
