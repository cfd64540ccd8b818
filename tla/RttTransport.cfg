SPECIFICATION FairSpec
CONSTANTS
  Workers = {w1, w2}
  Opener = Opener
  Nobody = Nobody
  MaxOpens = 2
  MaxUp = 1
  IdlePolls = 2
  WriteSize = 2
  WriteBudget = 2
CHECK_DEADLOCK FALSE
INVARIANTS
  TypeOK
  WriteKeepsLink
  OnePoller
  OneTeardown
  QuietAfterClose
  CloseReleasesCore
PROPERTIES
  NoFalseStall
  LinkContract
  CloseCompletes
  FaultsSurface
  WriteEnds
