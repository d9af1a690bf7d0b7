CONSTANTS
  FifoDepth = 3
  FaultKinds <- NoAcks
  MaxFaults = 1
  Segment = 3
  PacketSize = 3
  Largest = 4
  Stray = 2
  MemoryBytes <- SomeBytes
  DataBytes <- SomeBytes
  Jobs <- OneEepromJob
  StartAttempts = 3
SPECIFICATION Spec
INVARIANTS
  CommandsOnly
