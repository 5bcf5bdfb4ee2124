\* EPollPoller against the Poller contract.
CONSTANTS
  c1 = c1
  c2 = c2
  c3 = c3
  NoChannel = NoChannel
  Channels <- MCChannels
  Fds <- MCFds
SPECIFICATION Spec
PROPERTY EPollImplementsPollerSpec
CHECK_DEADLOCK FALSE
