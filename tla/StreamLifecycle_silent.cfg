SPECIFICATION SilentPeerSpec
CONSTANTS
  NStreams = 2
  Fds <- MCFds
  ReadChunks = 2
  kMinReconnectDelay = 1
  kMaxReconnectDelay = 2
CHECK_DEADLOCK FALSE
PROPERTY ReceiveReturns
