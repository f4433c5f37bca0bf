CONSTANTS
  Bytes = {0, 1, 13, 35, 45, 63, 77, 95, 127, 163, 223, 255}
  MaxPayload = 2
  SeqNums = {13, 63}
  Types = {68, 83}
  Noises <- SomeNoises
SPECIFICATION Spec
INVARIANTS
  FrameIsRead
  FlipIsSeen
