SPECIFICATION Spec
CONSTANTS
  NoTable = NoTable
  ByteBits = 3
  RawBytes = 4
  Limits <- SomeLimits
  Sizes = {1, 2, 3, 5}
  MaxUnread = 5
  MaxCodeLength = 4
  QuickBits = 2
  Symbols = 4
  SymBytes = 2
  SymLimits = {0, 5, 7}
INVARIANTS InOrder StopsAtLimit DecodesCanonical
CHECK_DEADLOCK FALSE
