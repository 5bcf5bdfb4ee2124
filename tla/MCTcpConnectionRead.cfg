\* A user thread calls stop_read and start_read while the peer closes.
CONSTANTS
  MaxRequests <- MCMaxRequests
  FileUnits <- MCFileUnits
  MaxTrial <- MCMaxTrial
  ChunkSize <- MCChunkSize
  CopyMode = "kZeroCopy"
  UserOps <- MCReadOps
  Pipelining = FALSE
SPECIFICATION Spec
INVARIANT DestroyedDisconnected
CHECK_DEADLOCK FALSE
