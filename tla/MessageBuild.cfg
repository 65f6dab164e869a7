SPECIFICATION Spec
CONSTANTS
  DatagramSizes <- MCDatagramSizes
  Bytes <- MCBytes
  Words <- MCWords
  kRdiMaxDetections = 2
  MaxOperationModes = 2
  MaxInputSignals = 2
  MaxCalibrations = 2
  MaxFovSegments = 2
  MaxObjectTypes = 2
  MaxRefTargets = 2
INVARIANTS
  TypeOK
  NeverReadsPastEnd
  EntriesBacked
  AllDetectionsTaken
  FillInBounds
  SameDetections
