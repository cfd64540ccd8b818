SPECIFICATION Spec
CONSTANTS
  Calls = {c1, c2}
  Nobody = Nobody
  MaxConnects = 2
INVARIANTS
  ShutdownCloses
