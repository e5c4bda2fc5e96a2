CONSTANTS
  Base = 32
  WordBytes = 2
  fileSize = 64
  AudioPeriod = 2
  Immediates = 8
  vmSize = 128
  ByteBits = 5
  vmGlobalAddr = 64
  vmGlobalSize = 40
  maxCommands = 40
  maxUniqueFilters = 2
  Scenarios <- MCScenarios
SPECIFICATION Spec
INVARIANTS FilterComputes LengthOfItsFilter LoadsProgram
PROPERTY FiltersReturn
