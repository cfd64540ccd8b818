SPECIFICATION FairSpec
CONSTANTS
  Kinds = {"tui", "piped", "send", "script"}
  MaxSends = 2
CHECK_DEADLOCK FALSE
INVARIANTS
  TypeOK
  GuardCoversLink
  ExitTellsFailure
  RendererOutlivesPoll
PROPERTIES
  SessionEnds
