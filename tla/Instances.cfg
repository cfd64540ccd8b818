SPECIFICATION Spec
CONSTANTS
  Processes = {p1, p2, p3}
  Targets = {t1, t2}
  NoPid = NoPid
  Names = {n1, n2, n3}
  NoName = NoName
  NoFile = NoFile
  Torn = Torn
CHECK_DEADLOCK FALSE
INVARIANTS
  TypeOK
  OneHolder
  HistoryWhole
PROPERTIES
  RefusalIsReal
