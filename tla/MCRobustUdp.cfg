SPECIFICATION FairSpec
CONSTANTS
  DataSize = 2
  InitSize = 2
  FileSize <- MCFileSize
  Offset <- MCOffset
  OldSize = 2
  CompSize = 3
  Chunks = 2
  Near = 1
  UINT_MAX = 63
  SizeMod = 64
INVARIANTS
  NoFalseErase
  SaveComplete
  FastAcksOnlyNearTheEnd
  FilesStored
PROPERTIES
  ImplementsTransfer
  Termination
CHECK_DEADLOCK FALSE
