SPECIFICATION Spec
CONSTANTS
  W = 6
  B = 3
  kReflectedPoly = 48
  Datagrams <- MCDatagrams
  DataId <- MCDataId
  MaxEntries = 1
  Throttle = 1
INVARIANTS
  TypeOK
  IntactPublished
  StrictStatusIntact
  GapsReported
