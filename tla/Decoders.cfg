SPECIFICATION DecodersSpec
CONSTANTS
  Solids <- AllSolid
  Plains <- AllPlain
  LowRepeats = 2
  Ahead = 2
  Room = 2
INVARIANTS WritesTheFile EndIsComplete
PROPERTY FileEnds
CHECK_DEADLOCK FALSE
