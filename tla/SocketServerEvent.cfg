\* The assertion of the default case of socket_server_poll.
CONSTANTS
  MAX_SOCKET = 3
  MAX_EVENT = 3
  Threads = {t1}
  Net = net
  PipeCap = 2
  MaxId = 4
  EngineMayFail = FALSE
  Calls <- AllCalls
SPECIFICATION Spec
INVARIANTS
  EventSocketConnected
CHECK_DEADLOCK FALSE
