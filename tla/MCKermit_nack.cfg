CONSTANTS
  NData = 2
  SeqMod = 5
  LineCap = 2
  MaxFaults = 1
SPECIFICATION Spec
INVARIANTS
  AnsweredIsStored
CHECK_DEADLOCK FALSE
