\* The user destroys the TcpClient on its own thread while the first
\* connect is in progress.
CONSTANTS
  InitDelay <- MCInitDelay
  MaxDelay <- MCMaxDelay
  MaxAttempts <- MCMaxAttempts
  EnableRetry = TRUE
  UserOps = {"destroy"}
  DtorThreads = {"user"}
SPECIFICATION Spec
INVARIANT NoCallIntoDeadClient
CHECK_DEADLOCK FALSE
