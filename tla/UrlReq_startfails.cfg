SPECIFICATION Spec
CONSTANTS
  Main = Main
  Workers = {}
  EventThread = EventThread
  NoThread = NoThread
  NoRequest = NoRequest
  Requests = {r1}
  PipeCapacity = 4
  MaxShutdowns = 1
  OwnThreadCtx = TRUE
  LateAdds = FALSE
  AddMayFail = FALSE
  WriteMayFail = FALSE
  StartFailures = {"start"}
INVARIANT HandHeld
