SPECIFICATION Spec

CONSTANTS
  a = a
  b = b
  Symbols = {a, b}
  Wide = {b}
  Patterns <- MCPatterns
  Threshold = 2
  MaxChunks = 3
  MaxTicks = 2

PROPERTIES
  ConsumesThroughMatchEnd
