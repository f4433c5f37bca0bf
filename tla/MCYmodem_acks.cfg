CONSTANTS
  NStx = 2
  NSoh = 2
  StxSize = 2
  SohSize = 1
  NumMod = 3
  Faults = {"reply", "number"}
  MaxFaults = 3
SPECIFICATION FairSpec
INVARIANTS
  StepInv
  ImageIsPrefix
  LoadedIsWhole
PROPERTIES
  ImplementsSerialLoad
  LoadCompletes
