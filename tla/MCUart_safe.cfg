CONSTANTS
  Depth = 2
  Timeout = 2
  Messages <- Calls
  MaxBytes = 4
  MaxReads = 3
  MaxPrints = 1
SPECIFICATION FairSpec
INVARIANTS
  TypeOK
  ReadsInOrder
  TimeoutIsHonest
  PrintsWhole
PROPERTIES
  CallsReturn
