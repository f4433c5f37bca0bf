CONSTANTS
  FirstStage = TRUE
  ResetClocks <- SomeResetClocks
  ResetLcr = {0, 3, 191}
SPECIFICATION FairSpec
INVARIANTS
  TypeOK
  ConsoleSpeed
  AccessClocked
  SdramOrder
  GatesKept
  WatchdogStops
  PinsKept
PROPERTIES
  InitEnds
