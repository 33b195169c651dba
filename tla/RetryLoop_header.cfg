SPECIFICATION Spec
CONSTANTS
  Device = {1}
  MsgId = {16, 20}
  PolledMsg = {20}
  Exchange = {x1}
  MaxRetries = 3
  MaxCrashes = 0
INVARIANT
  LoneExchangeBudget
CHECK_DEADLOCK FALSE
