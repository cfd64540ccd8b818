SPECIFICATION FairSpec
CONSTANTS
  MaxRequests = 2
  Channel = 1
  Drain = 3
CHECK_DEADLOCK FALSE
PROPERTIES
  ServiceEndSeen
