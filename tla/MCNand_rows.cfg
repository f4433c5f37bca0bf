CONSTANTS
  NandTimeout = 3
  OsLoadSize = 8192
  Devices <- SmallChips
  Starts = {0, 131072, 134217728}
  Headers = {0, 4096}
SPECIFICATION Spec
INVARIANTS
  PagesInOrder
