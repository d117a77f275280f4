SPECIFICATION Spec
CONSTANTS
  Names = {"bob", "eve"}
  phash2 <- MCphash2
  MaxRestarts = 1
  Budgets <- MCBudgets
INVARIANTS
  TypeOK
  CacheKnowsServers
  DatabaseGoesWithCache
  FileFollowsServer
PROPERTIES
  Recovers
  CallsEnd
CHECK_DEADLOCK FALSE
