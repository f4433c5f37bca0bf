CONSTANTS
  NandTimeout = 3
  OsLoadSize = 8192
  Devices <- GoodChips
  Starts = {0, 131072, 134217728}
  Headers = {0, 1, 4096, 4097}
SPECIFICATION FairSpec
INVARIANTS
  TypeOK
  PagesInOrder
  LoadIsWhole
PROPERTIES
  LoaderReturns
