SPECIFICATION Spec
CONSTANTS
  Kinds = {"tui"}
  MaxSends = 1
CHECK_DEADLOCK FALSE
INVARIANTS
  UiTornDownLast
