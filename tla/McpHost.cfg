SPECIFICATION FairSpec
CONSTANTS
  Calls = {c1, c2}
  Nobody = Nobody
  MaxConnects = 2
INVARIANTS
  TypeOK
  LockCoversLink
  OneLink
  SessionWhole
  CleanShutdown
PROPERTIES
  CallsAnswered
  ShutdownEnds
