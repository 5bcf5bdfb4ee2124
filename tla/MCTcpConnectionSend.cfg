\* send from a user thread races HttpServer's shutdown on the loop thread.
CONSTANTS
  MaxRequests <- MCMaxRequests
  FileUnits <- MCFileUnits
  MaxTrial <- MCMaxTrial
  ChunkSize <- MCChunkSize
  CopyMode = "kZeroCopy"
  UserOps <- MCSendOp
  Pipelining = FALSE
SPECIFICATION Spec
INVARIANT ShutdownAfterDrain
\* The connection is destroyed and every queue drained: the program may stop.
CHECK_DEADLOCK FALSE
