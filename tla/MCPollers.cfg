\* PollPoller and EPollPoller under the same Channel calls.
CONSTANTS
  c1 = c1
  c2 = c2
  c3 = c3
  NoChannel = NoChannel
  Channels <- MCChannels
  Fds <- MCFds
SPECIFICATION Spec
INVARIANT TypeOK PollIndexAgrees NoStaleEvent
PROPERTY PollImplementsPollerSpec
\* Every channel is eventually destroyed and no more can be constructed.
CHECK_DEADLOCK FALSE
