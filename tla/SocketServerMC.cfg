\* The whole interface, called by one thread beside the network thread; three slots, one the pipe's.
CONSTANTS
  MAX_SOCKET = 3
  MAX_EVENT = 2
  Threads = {t1}
  Net = net
  PipeCap = 2
  MaxId = 4
  EngineMayFail = TRUE
  Calls <- AllCalls
SPECIFICATION Spec
INVARIANTS
  TypeOK
  OneHolder
  ListenReserved
  RegisteredMatchesType
  StaleEventSafe
  FdAccounting
  DataStaysWithItsSocket
PROPERTIES
  LifeCycle
  DeadIdsStayDead
\* An assertion ends the program, and the network thread can block on its pipe.
CHECK_DEADLOCK FALSE
