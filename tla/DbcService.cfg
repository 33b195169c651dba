SPECIFICATION PipelineSpec
CONSTANTS
  Call = {c1, c2}
  CanId = {16, 34, 99}
  MessageName = {"evse_state", "remote_cmd"}
  Dbc <- MCDbc
  NoMessage = NoMessage
  CanFrame <- MCCanFrame
  Malformed = {Malformed}
  Task = {t1, t2}
  MaxBatch = 2
  MaxStarts = 2
  Handler = {c1}
  Handled = {"evse_state"}
INVARIANTS
  TypeOK
  WarmWhileServing
  ActsOnDecodedFrames
PROPERTIES
  AnswersImplemented
  SignalStops
  HandlersAnswered
CHECK_DEADLOCK FALSE
