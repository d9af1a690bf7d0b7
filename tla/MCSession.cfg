CONSTANTS
  FifoDepth = 3
  FaultKinds <- AllFaults
  MaxFaults = 3
  Segment = 3
  PacketSize = 3
  Largest = 4
  Stray = 2
  MemoryBytes <- SomeBytes
  DataBytes <- AnyBytes
  Jobs <- AllJobs
  StartAttempts = 3
SPECIFICATION FairSpec
INVARIANTS
  TypeOK
  InSync
  NoMutualWait
  NoOverrun
  OkIsOwn
  OnlySendByteStrays
  SessionInv
PROPERTIES
  CallEnds
  Recovers
