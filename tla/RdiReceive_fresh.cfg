SPECIFICATION Spec
CONSTANTS
  Messages <- TpMessages
  NoMsg = 0
  Size <- TpSize
  Session <- TpSession
  MaxCells = 3
  Timeout = 0
  Headers <- MCHeaders
  Counter <- TpCounter
  CounterMod = 3
INVARIANT BeginsFresh
