SPECIFICATION Spec
CONSTANTS
  Modes <- MCModes
  Whences = {"start", "end"}
  MaxOffset = 7
INVARIANTS DataInOrder EndIsTheEnd
CHECK_DEADLOCK FALSE
