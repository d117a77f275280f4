\* The assertion of force_close.
CONSTANTS
  MAX_SOCKET = 3
  MAX_EVENT = 3
  Threads = {t1}
  Net = net
  PipeCap = 2
  MaxId = 4
  EngineMayFail = FALSE
  Calls <- AllCalls
SPECIFICATION Spec
INVARIANTS
  ForceCloseNotReserved
CHECK_DEADLOCK FALSE
