SPECIFICATION Spec
CONSTANTS
  Cycle = {c1, c2}
  Address = {1, 2}
  MaxTicks = 3
  MaxFrames = 3
  MaxCrashes = 1
  Absent = Absent
  NoReport = NoReport
  Nobody = Nobody
INVARIANTS
  TypeOK
  ChannelKnowsOffline
PROPERTY
  CyclesEnd
CHECK_DEADLOCK FALSE
