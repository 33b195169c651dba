SPECIFICATION Spec
CONSTANTS
  Address = {3}
  FaultCode <- MCDbcFaultCode
  ReadySignals <- MCReadySignals
  Call = {c1}
  Absent = Absent
  NoReport = NoReport
SYMMETRY CallSymmetry
INVARIANT
  ErrorsNamedByDbc
