CONSTANTS
  FifoDepth = 3
  FaultKinds <- Masked
  MaxFaults = 1
  Segment = 3
  PacketSize = 3
  Largest = 4
  Stray = 2
  MemoryBytes <- SomeBytes
  DataBytes <- SomeBytes
  Jobs <- OneFlashJob
  StartAttempts = 3
SPECIFICATION Spec
INVARIANTS
  SuccessIsReal
