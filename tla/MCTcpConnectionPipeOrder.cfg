\* A client pipelines its requests; the order of the bytes on the socket.
CONSTANTS
  MaxRequests <- MCMaxRequests
  FileUnits <- MCFileUnits
  MaxTrial <- MCMaxTrial
  ChunkSize <- MCChunkSize
  CopyMode = "kZeroCopy"
  UserOps <- MCNoUserOps
  Pipelining = TRUE
SPECIFICATION Spec
INVARIANT ByteStreamOrder
\* The connection is destroyed and every queue drained: the program may stop.
CHECK_DEADLOCK FALSE
