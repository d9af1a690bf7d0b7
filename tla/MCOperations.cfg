CONSTANTS
  Ram <- RamCells
  Eeprom <- EepromCells
  Flash <- FlashCells
  PageSize = 2
  Data <- Bytes
  Jobs <- AllJobs
  Memories <- Device
  NormalBaudrate = 500000
  FlashWriteMaxBaudrate = 181000
  StraySteps <- Strays
  MaxFaults = 3
SPECIFICATION Spec
INVARIANTS
  TypeOK
  EveryPageErased
  NoDoubleSelect
  TidyBetween
  PacedWrites
PROPERTIES
  Implements
