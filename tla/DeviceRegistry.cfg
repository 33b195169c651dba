SPECIFICATION Spec
CONSTANTS
  Address = {0, 3}
  FaultCode <- MCFaultCode
  ReadySignals <- MCReadySignals
  Call = {c1, c2}
  Absent = Absent
  NoReport = NoReport
SYMMETRY CallSymmetry
INVARIANTS
  TypeOK
  AlarmsMatchErrors
PROPERTY
  ErrorOutlivesFrames
