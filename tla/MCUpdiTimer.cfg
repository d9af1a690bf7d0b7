CONSTANTS
  Commands <- OnlyGetByte
  MaxRounds = 2
SPECIFICATION Spec
INVARIANTS
  TimeoutAsConfigured
