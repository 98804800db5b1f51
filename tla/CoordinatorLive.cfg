\* Polling disabled, faults, cancelled calls and late replies, fair tasks and timers.
SPECIFICATION FairSpec
CONSTANTS
  Writers = {w1, w2}
  Toggles = {}
  Values = {off, on}
  Polling = FALSE
  Faults = TRUE
  Cancels = TRUE
  LateReplies = TRUE
  MaxPanel = 0
CHECK_DEADLOCK FALSE
PROPERTIES
  EveryCallReturns
  WritesConverge
