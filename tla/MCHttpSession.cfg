\* A client that waits for each response, its requests split across reads
\* anywhere.
CONSTANTS
  MaxRequests <- MCMaxRequests
  Kinds <- MCKinds
  Pipelining = FALSE
SPECIFICATION Spec
INVARIANT TypeOK ResponsesFollowRequests AnsweredWhenIdle
\* The peer stops after its last request, or after the server shut down.
CHECK_DEADLOCK FALSE
