SPECIFICATION Spec
CONSTANTS
  f1 = f1
  f2 = f2
  x1 = x1
  x2 = x2
  FrameIds <- MCFrameIds
  Filters <- MCFilters
  Batches <- MCBatches
  Torn = Torn
  Keep = Keep
  PublishDetections = TRUE
  PublishTf = TRUE
SYMMETRY Symm
INVARIANTS
  TypeOK
  UpdatesTakeEffect
  OneConfigPerFrame
  LockedReadsWhole
  GateNeverTooLax
