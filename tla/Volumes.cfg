SPECIFICATION Spec
CONSTANTS
  Words = {"x", "part", "of", "rar", "exe"}
  Main = main
  Readers = {r1, r2}
  Archives <- MCArchives
INVARIANTS OneScheme CurrentVolume NoHandleLost
CHECK_DEADLOCK FALSE
