SPECIFICATION FairSpec
CONSTANTS
  NStreams = 2
  Fds <- MCFds
  ReadChunks = 2
  kMinReconnectDelay = 1
  kMaxReconnectDelay = 2
CHECK_DEADLOCK FALSE
PROPERTIES
  ShutdownCompletes
  Reconnects
INVARIANTS
  TypeOK
  OwnSocketOnly
  NoDescriptorLeak
