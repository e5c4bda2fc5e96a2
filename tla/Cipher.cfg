SPECIFICATION Spec
CONSTANTS
  BlockSize = 4
  InputLens = {16, 18}
  Callers <- MCCallers
INVARIANTS OutputIsPlaintext
CHECK_DEADLOCK FALSE
