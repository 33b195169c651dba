SPECIFICATION Spec
CONSTANTS
  DeviceId = {1}
  MsgId <- MCMsgId
  Time = {120}
  Energy <- MCEnergy
  MaxCalls = 1
INVARIANT
  OnlyStartStarts
CHECK_DEADLOCK FALSE
