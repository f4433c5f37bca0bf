CONSTANTS
  NData = 4
  SeqMod = 3
  LineCap = 4
  MaxFaults = 0
SPECIFICATION FairLossySpec
INVARIANTS
  TypeOK
  StepInv
  ImageIsPrefix
  AnsweredIsStored
  LoadedIsWhole
PROPERTIES
  ImplementsSerialLoad
  LoadCompletes
