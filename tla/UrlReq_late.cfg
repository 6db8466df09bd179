SPECIFICATION Spec
CONSTANTS
  Main = Main
  Workers = {w1}
  EventThread = EventThread
  NoThread = NoThread
  NoRequest = NoRequest
  Requests = {r1, r2}
  PipeCapacity = 4
  MaxShutdowns = 1
  OwnThreadCtx = TRUE
  LateAdds = TRUE
  AddMayFail = FALSE
  WriteMayFail = FALSE
  StartFailures = {}
PROPERTY EveryRequestSettles
