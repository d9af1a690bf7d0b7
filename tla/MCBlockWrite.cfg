CONSTANTS
  Radix = 3
  RxBaseL = 2
  RxBaseH = 3
  BufSize = 3
  FifoDepth = 2
  MaxSize = 8
SPECIFICATION FairSpec
CHECK_DEADLOCK FALSE
INVARIANTS
  TypeOK
  DataInOrder
  BufferBound
  NoOverrun
  QuietReset
  TargetFraming
  IInv
PROPERTIES
  Implements
  Completes
