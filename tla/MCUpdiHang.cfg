CONSTANTS
  Commands <- OnlyStop
  MaxRounds = 2
SPECIFICATION FairSpec
PROPERTIES
  CommandEnds
