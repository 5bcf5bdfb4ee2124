\* force_close from a user thread races handle_close on the loop thread.
CONSTANTS
  MaxRequests <- MCMaxRequests
  FileUnits <- MCFileUnits
  MaxTrial <- MCMaxTrial
  ChunkSize <- MCChunkSize
  CopyMode = "kZeroCopy"
  UserOps <- MCForceCloseOp
  Pipelining = FALSE
SPECIFICATION Spec
INVARIANT CloseOnce
\* The connection is destroyed and every queue drained: the program may stop.
CHECK_DEADLOCK FALSE
