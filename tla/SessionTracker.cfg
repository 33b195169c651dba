SPECIFICATION Spec
CONSTANTS
  Address = {3}
  Port = {0, 1}
  SessionId = {1, 2}
  Energy = {5}
  Call = {c1, c2}
  NoSession = NoSession
  NoSave = NoSave
  MaxReadings = 2
SYMMETRY CallSymmetry
INVARIANTS
  TypeOK
  BackendHoldsAMessage
PROPERTY
  SetBackOnlyByOverlap
