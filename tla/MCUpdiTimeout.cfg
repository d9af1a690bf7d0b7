CONSTANTS
  Commands <- AllCommands
  MaxRounds = 2
SPECIFICATION FairSpec
INVARIANTS
  TypeOK
  WaitIsTimed
  NoFalseTimeout
  SilenceNoticed
PROPERTIES
  TransfersEnd
  ProgmodeOrSilence
