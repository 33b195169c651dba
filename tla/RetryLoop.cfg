SPECIFICATION Spec
CONSTANTS
  Device = {0, 1, 11}
  MsgId = {20, 300}
  PolledMsg = {20}
  Exchange = {x1, x2}
  MaxRetries = 3
  MaxCrashes = 1
INVARIANTS
  TypeOK
  RetryBudget
PROPERTIES
  CountersIsolated
  RetriesCease
CHECK_DEADLOCK FALSE
