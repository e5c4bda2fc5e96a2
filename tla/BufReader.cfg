SPECIFICATION Spec
CONSTANTS
  Files <- MCFiles
  SeekableFiles <- MCSeekableFiles
  SigPrefix <- MCSigPrefix
  BufSize = 5
  MaxSfxSize = 3
  DataWithErr = FALSE
  MaxRequest = 6
  MaxOffset = 10
INVARIANTS TypeOK Coherent
PROPERTIES IsVolumeStream FindsFirstSignature
