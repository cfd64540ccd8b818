SPECIFICATION Spec
CONSTANTS
  Workers = {w1}
  Opener = Opener
  Nobody = Nobody
  MaxOpens = 1
  MaxUp = 2
  IdlePolls = 2
  WriteSize = 2
  WriteBudget = 2

CHECK_DEADLOCK FALSE
INVARIANT CoreReleasedAfterClose
