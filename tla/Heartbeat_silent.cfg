SPECIFICATION Spec
CONSTANTS
  Cycle = {c1, c2}
  Address = {1}
  MaxTicks = 2
  MaxFrames = 1
  MaxCrashes = 0
  Absent = Absent
  NoReport = NoReport
  Nobody = Nobody
INVARIANT
  SilentDeviceGoesOffline
CHECK_DEADLOCK FALSE
