\* The user calls stop and then connect again while the first connect's
\* tasks are still queued.
CONSTANTS
  InitDelay <- MCInitDelay
  MaxDelay <- MCMaxDelay
  MaxAttempts <- MCMaxAttempts
  EnableRetry = TRUE
  UserOps = {"stop", "connect"}
  DtorThreads = {"loop", "user"}
SPECIFICATION Spec
INVARIANT OneChannel
\* A fatal connect error abandons the client, and an established connection
\* may stay open: the loop then has nothing left to do for this client.
CHECK_DEADLOCK FALSE
