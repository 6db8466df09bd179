SPECIFICATION LivenessSpec
CONSTANTS
  Outsiders = {c1, c2}
  Members = {t1, t2}
  NULL = NULL
  NestedCalls = FALSE
  MaxIterations = 2
  Main = Main
  Workers = {w1}
  EventThread = EventThread
  NoThread = NoThread
  NoRequest = NoRequest
  Requests = {r1, r2}
  PipeCapacity = 5
  MaxShutdowns = 2
  OwnThreadCtx = TRUE
  LateAdds = FALSE
  AddMayFail = FALSE
  WriteMayFail = FALSE
  StartFailures = {}
INVARIANTS
  SectionsExclusive
  ListExact
  JoinedOnce
  LockedWalkLive
  DestroyLeavesNothing
  NoLostWakeup
  LoopOutlivesThread
  DrainedAtExit
  DeinitLeavesNothing
  HandHeld
PROPERTIES
  CallsReturn
  ImplementsService
  EveryRequestSettles
  ShutdownEndsThread
  AddReturns
  DeinitReturns
