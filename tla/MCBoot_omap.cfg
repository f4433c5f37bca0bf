CONSTANTS
  Boards <- BoardsAll
  NoKey = NoKey
  PollMax = 1
  FifoCap = 1
SPECIFICATION Spec
INVARIANTS
  InitIsNotAFailure
