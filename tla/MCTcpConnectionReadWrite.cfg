\* HttpServer sending its files in ZeroCopier's kReadWrite mode (the
\* HttpServer test selects it from the command line); the order of the
\* bytes on the socket when the socket takes part of a chunk.
CONSTANTS
  MaxRequests <- MCMaxRequests
  FileUnits <- MCFileUnits
  MaxTrial <- MCMaxTrial
  ChunkSize <- MCChunkSize
  CopyMode = "kReadWrite"
  UserOps <- MCNoUserOps
  Pipelining = FALSE
SPECIFICATION Spec
INVARIANT ByteStreamOrder
\* The connection is destroyed and every queue drained: the program may stop.
CHECK_DEADLOCK FALSE
