CONSTANTS
  Boards <- BoardsAll
  NoKey = NoKey
  PollMax = 3
  FifoCap = 2
SPECIFICATION FairSpec
INVARIANTS
  TypeOK
PROPERTIES
  MenuHoldsAutoboot
  AutoBoot
  KeysDoNotStopAutoboot
