SPECIFICATION Spec
CONSTANTS
  H = 2
  Lengths <- MCLengths
  BufSize = 4
  MaxSends = 3
INVARIANTS
  TypeOK
  WholeFrames
  InStep
PROPERTY ImplementsChannel
