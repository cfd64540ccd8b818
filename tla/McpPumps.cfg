SPECIFICATION FairSpec
CONSTANTS
  MaxRequests = 3
  Channel = 1
  Drain = 3
CHECK_DEADLOCK FALSE
INVARIANTS
  TypeOK
  FinalDrainComplete
PROPERTIES
  PipeContract
  SessionEnds
  OutputLeaves
