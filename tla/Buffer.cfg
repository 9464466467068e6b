CONSTANTS
  CheapPrepend = 1
  InitialSize = 2
  ExtraSize = 2
  Base = 4
  CR = 2
  LF = 3
  Inputs <- SomeInputs
  Ints <- SomeInts
  MaxSize = 6
SPECIFICATION Spec
INVARIANTS
  TypeOK
  SpaceFound
  ContentsKept
