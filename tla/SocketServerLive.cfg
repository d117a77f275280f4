\* One application thread that listens, starts and closes; engine_add works.
CONSTANTS
  MAX_SOCKET = 3
  MAX_EVENT = 3
  Threads = {t1}
  Net = net
  PipeCap = 2
  MaxId = 3
  EngineMayFail = FALSE
  Calls = {"listen", "start", "close"}
SPECIFICATION FairSpec
INVARIANTS
  AcceptedHasStart
PROPERTIES
  AcceptedOpens
  CloseTakesEffect
\* An assertion ends the program, and the network thread can block on its pipe.
CHECK_DEADLOCK FALSE
