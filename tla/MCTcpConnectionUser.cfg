\* A user thread calls send, shutdown, force_close, shutdown_and_force_close_after
\* and force_close_with_delay from outside the loop.
CONSTANTS
  MaxRequests <- MCMaxRequestsUser
  FileUnits <- MCFileUnits
  MaxTrial <- MCMaxTrial
  ChunkSize <- MCChunkSize
  CopyMode = "kZeroCopy"
  UserOps <- MCCloseUserOps
  Pipelining = FALSE
SPECIFICATION Spec
PROPERTY CloseLeadsToDestroy
\* The connection is destroyed and every queue drained: the program may stop.
CHECK_DEADLOCK FALSE
