CONSTANTS
  Archives <- MCArchives
  Passwords <- MCPasswords
  None = None
  CacheSize = 2
SPECIFICATION HeadersSpec
INVARIANTS SoundArchiveRead KeysRight CleanEndIsWhole
