SPECIFICATION Spec
CONSTANTS
  Main = Main
  Workers = {}
  EventThread = EventThread
  NoThread = NoThread
  NoRequest = NoRequest
  Requests = {r1, r2, r3}
  PipeCapacity = 1
  MaxShutdowns = 1
  OwnThreadCtx = TRUE
  LateAdds = FALSE
  AddMayFail = FALSE
  WriteMayFail = FALSE
  StartFailures = {}
PROPERTY AddReturns
CHECK_DEADLOCK FALSE
