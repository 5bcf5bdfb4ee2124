CONSTANTS
  Clients = 2
  PoolSizes <- MCPoolSizes
  FdLimit = 3
SPECIFICATION Spec
INVARIANT NoCallIntoDestroyedServer
CHECK_DEADLOCK FALSE
