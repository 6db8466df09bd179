SPECIFICATION ExecSpec
CONSTANTS
  Capacity = 2
  Inputs = {0, 1}
  Answer = 1
INVARIANT ReturnedCloseOnExec
