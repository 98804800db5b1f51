\* Replies in two notifications, exceptions and stale replies.
SPECIFICATION Spec
CONSTANTS
  Values = {v1, v2}
  Garbled = garbled
  MaxRetries = 2
  MaxCalls = 2
  MaxQueue = 3
  Disturbances = {"split", "exception", "loss"}
SYMMETRY ValueSymmetry
CHECK_DEADLOCK FALSE
INVARIANTS
  TypeOK
  ReturnsTheRightBank
  NeverGarbled
  CleanCallIsTruthful
  WholeRepliesNeverFail
PROPERTIES
  ImplementsRegisterAccess
