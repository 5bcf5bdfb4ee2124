CONSTANTS
  Clients = 4
  PoolSizes <- MCPoolSizes
  FdLimit = 5
SPECIFICATION Spec
INVARIANT TypeOK
INVARIANT AssertsHold
PROPERTY ClosedConnDestroyed
CHECK_DEADLOCK FALSE
