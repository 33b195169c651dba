SPECIFICATION Spec
CONSTANTS
  Handler = {h1, h2}
  Address = {3}
  Port = {0}
  SessionId = {1, 2}
  Energy = {5}
  FaultCode <- MCFaultCode
  MaxFrames = 3
  MaxCrashes = 1
  Absent = Absent
  NoReport = NoReport
  NoSession = NoSession
  NoSave = NoSave
  NoFrame = NoFrame
INVARIANTS
  TypeOK
  WaitsAgree
  SubscribersAgreeWithMaps
PROPERTIES
  ErrorsEndByRegistration
  RegistryImplemented
  SessionsImplemented
  HandlersReturn
CHECK_DEADLOCK FALSE
