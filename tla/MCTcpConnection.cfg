\* HttpServer on a worker loop with a client that waits for each response;
\* a user thread calls stop_read and start_read.
CONSTANTS
  MaxRequests <- MCMaxRequests
  FileUnits <- MCFileUnits
  MaxTrial <- MCMaxTrial
  ChunkSize <- MCChunkSize
  CopyMode = "kZeroCopy"
  UserOps <- MCReadOps
  Pipelining = FALSE
SPECIFICATION Spec
INVARIANT TypeOK ByteStreamOrder ShutdownAfterDrain
PROPERTY FileTransferEnds
\* The connection is destroyed and its queues drained: the program may stop.
CHECK_DEADLOCK FALSE
