SPECIFICATION NoisySpec
CONSTANTS
  DeviceId = {1, 31}
  MsgId <- MCMsgId
  Time = {120}
  Energy <- MCEnergy
  MaxCalls = 1
  Noisy = {31}
  MaxFlips = 2
  Burst <- MCBurst
INVARIANTS
  FrameCarriesCommand
  ValidIffCodeword
  DamageIsDetected
CHECK_DEADLOCK FALSE
