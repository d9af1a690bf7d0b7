CONSTANTS
  Ram <- RamCells
  Eeprom <- EepromCells
  Flash <- FlashCells
  PageSize = 2
  Data <- Bytes
  Jobs <- DirectJobs
  Memories <- Device
  NormalBaudrate = 500000
  FlashWriteMaxBaudrate = 181000
  StraySteps <- Strays
  MaxFaults = 0
SPECIFICATION Spec
INVARIANTS
  SameEveryRound
