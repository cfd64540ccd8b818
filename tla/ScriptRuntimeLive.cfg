SPECIFICATION FairSpec

CONSTANTS
  a = a
  b = b
  Symbols = {a, b}
  Wide = {b}
  Patterns <- SpanPatterns
  Threshold = 2
  MaxChunks = 2
  MaxTicks = 2

PROPERTIES
  CallEnds
  WaiterWakes
