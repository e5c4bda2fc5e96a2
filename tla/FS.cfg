SPECIFICATION FSSpec
CONSTANTS
  Unchecked <- TreesAndMixed
  Checked <- Mixed
  Names <- AskedFor
INVARIANTS TreeExact ResolvesToLatest SoundArchiveOpens
CHECK_DEADLOCK FALSE
