\* The library's own number of attempts, damaged replies, fair client.
SPECIFICATION FairSpec
CONSTANTS
  Values = {v1}
  Garbled = garbled
  MaxRetries = 3
  MaxCalls = 2
  MaxQueue = 2
  Disturbances = {"damage", "loss"}
CHECK_DEADLOCK FALSE
INVARIANTS
  TimeoutAfterEveryAttempt
PROPERTIES
  EveryCallEnds
