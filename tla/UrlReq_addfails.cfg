SPECIFICATION Spec
CONSTANTS
  Main = Main
  Workers = {w1}
  EventThread = EventThread
  NoThread = NoThread
  NoRequest = NoRequest
  Requests = {r1}
  PipeCapacity = 4
  MaxShutdowns = 1
  OwnThreadCtx = TRUE
  LateAdds = FALSE
  AddMayFail = TRUE
  WriteMayFail = FALSE
  StartFailures = {}
PROPERTY ShutdownEndsThread
CHECK_DEADLOCK FALSE
