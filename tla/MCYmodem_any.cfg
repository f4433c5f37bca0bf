CONSTANTS
  NStx = 1
  NSoh = 2
  StxSize = 2
  SohSize = 1
  NumMod = 256
  Faults = {"reply", "start", "number", "data", "gap"}
  MaxFaults = 3
SPECIFICATION Spec
INVARIANTS
  TypeOK
PROPERTIES
  AcceptedStays
