SPECIFICATION SafetySpec
CONSTANTS
  Lists = {a1, a2}
  Elements = {e1, e2, e3, e4}
  Data = {b1, b2}
  NULL = NULL
  MaxArgument = 5
  Main = Main
  Workers = {a1, a2}
  EventThread = EventThread
  NoThread = NoThread
  NoRequest = NoRequest
  Requests = {b1, b2}
  PipeCapacity = 1
  MaxShutdowns = 2
  OwnThreadCtx = FALSE
  LateAdds = TRUE
  AddMayFail = TRUE
  WriteMayFail = TRUE
  StartFailures = {"start", "enable"}
SYMMETRY Symmetry
INVARIANTS
  FifoTypeOK
  ListInv
  QueriesAgree
  TypeOK
  IInv
  NoDanglingPointer
  NoOrphanProcess
PROPERTIES
  IterComplete
  IterFresh
  CallbackOnce
CHECK_DEADLOCK FALSE
