SPECIFICATION MCSpec
CONSTANTS
  Steps <- SomeSteps
  unitSize = 3
  GlueEvery = 2
  MaxRun = 5
  Symbols = 3
  maxFreq = 10
  BinMax = 14
  BinLow = 4
  MaskValues = 3
  Escapes = {2, 7}
  Formats <- SomeFormats
  MaxCalls = 9
  LastError = 4
  OldMarks <- NoMarks
  Bytes = 27
  MaxStates = 8
INVARIANTS MemoryPartition SuffixClosed CountsInRange MasksFresh ReturnsDecoded
CHECK_DEADLOCK FALSE
