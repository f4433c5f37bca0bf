CONSTANTS
  NData = 4
  SeqMod = 5
  LineCap = 2
  MaxFaults = 3
SPECIFICATION Spec
INVARIANTS
  ImageInOrder
PROPERTIES
  AcceptedStays
CHECK_DEADLOCK FALSE
