\* A client with retry enabled; the user stops it, connects again,
\* disconnects and destroys it, on the loop thread or on its own.
CONSTANTS
  InitDelay <- MCInitDelay
  MaxDelay <- MCMaxDelay
  MaxAttempts <- MCMaxAttempts
  EnableRetry = TRUE
  UserOps = {"stop", "connect", "disconnect", "destroy"}
  DtorThreads = {"loop", "user"}
SPECIFICATION Spec
INVARIANT TypeOK SocketOwned
PROPERTY ConnectAttemptEnds DestroyClosesConnection
\* A fatal connect error abandons the client, and an established connection
\* may stay open: the loop then has nothing left to do for this client.
CHECK_DEADLOCK FALSE
