\* The assertions of check_write_buff_list, which new_socket makes.
CONSTANTS
  MAX_SOCKET = 3
  MAX_EVENT = 3
  Threads = {t1}
  Net = net
  PipeCap = 2
  MaxId = 4
  EngineMayFail = FALSE
  Calls <- AllCalls
SPECIFICATION Spec
INVARIANTS
  AcceptListsEmpty
CHECK_DEADLOCK FALSE
