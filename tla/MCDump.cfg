CONSTANTS
  Extent = 7
  Bytes <- MCBytes
  Blank = 255
  SectionMaxSize = 3
  Requests <- MCRequests
  MaxByteCount = 2
  RecordMax = 4
  Radix = 4
  SegmentUnit = 2
  SectionSize = 3
  ForeignFiles <- MCFiles
SPECIFICATION FairSpec
INVARIANTS
  TypeOK
  ImageTrue
  StaysInRange
  ReadInv
  AsAsked
  RoundTrip
  TornIsRefused
  ReaderFaithful
  BlocksFit
PROPERTIES
  ReadEnds
CHECK_DEADLOCK FALSE
