\* A client pipelines its requests; progress of the output.
CONSTANTS
  MaxRequests <- MCMaxRequests
  FileUnits <- MCFileUnits
  MaxTrial <- MCMaxTrial
  ChunkSize <- MCChunkSize
  CopyMode = "kZeroCopy"
  UserOps <- MCNoUserOps
  Pipelining = TRUE
SPECIFICATION Spec
PROPERTY FileTransferEnds
\* The connection is destroyed and every queue drained: the program may stop.
CHECK_DEADLOCK FALSE
