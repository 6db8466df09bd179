SPECIFICATION ThreadSpec
CONSTANTS
  Outsiders = {c1}
  Members = {t1, t2}
  NULL = NULL
  NestedCalls = TRUE
  MaxIterations = 1
PROPERTIES
  DestroyReturns
CHECK_DEADLOCK FALSE
