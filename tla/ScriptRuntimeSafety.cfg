SPECIFICATION Spec

CONSTANTS
  a = a
  b = b
  Symbols = {a, b}
  Wide = {}
  Patterns <- MCPatterns
  Threshold = 2
  MaxChunks = 2
  MaxTicks = 1

INVARIANTS
  TypeOK
  PositionsInRange

PROPERTIES
  AbsentIsReal
  TimeoutIsPure
  FlushIsComplete
  StreamContract
