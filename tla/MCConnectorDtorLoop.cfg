\* The user posts the deletion of the TcpClient to the loop thread while
\* its first connect is in progress.
CONSTANTS
  InitDelay <- MCInitDelay
  MaxDelay <- MCMaxDelay
  MaxAttempts <- MCMaxAttempts
  EnableRetry = TRUE
  UserOps = {"destroy"}
  DtorThreads = {"loop"}
SPECIFICATION Spec
INVARIANT ConnectorDestroyedClean
CHECK_DEADLOCK FALSE
