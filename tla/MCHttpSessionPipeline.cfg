\* A client that pipelines its requests, split across reads anywhere.
CONSTANTS
  MaxRequests <- MCMaxRequests
  Kinds <- MCKinds
  Pipelining = TRUE
SPECIFICATION Spec
INVARIANT AnsweredWhenIdle
\* The peer stops after its last request, or after the server shut down.
CHECK_DEADLOCK FALSE
