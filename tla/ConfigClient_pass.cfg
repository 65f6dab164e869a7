SPECIFICATION Spec
CONSTANTS
  RequestChunks = 2
  HeaderChunks = 2
  BodySizes <- MCBodySizes
  MaxBody <- MCMaxBody
CHECK_DEADLOCK FALSE
INVARIANTS
  TypeOK
  SocketClosed
  SuccessIsApplied
  RefusalIsReal
PROPERTIES
  CallReturns
