SPECIFICATION Spec
CONSTANTS
  DataSize = 2
  InitSize = 2
  FileSize <- MCFileSize
  Offset <- MCOffset
  OldSize = 2
  CompSize = 5
  Chunks = 3
  Near = 1
  UINT_MAX = 63
  SizeMod = 64
CHECK_DEADLOCK FALSE
INVARIANT
  FilesStoredWhenClientExits
