\* Four peers and room for two connections next to the reserved fd: the
\* third connection to arrive while two are open meets EMFILE.
CONSTANTS
  Clients = 4
  PoolSizes <- MCPoolSizes
  FdLimit = 3
SPECIFICATION Spec
PROPERTY BacklogDrains
CHECK_DEADLOCK FALSE
