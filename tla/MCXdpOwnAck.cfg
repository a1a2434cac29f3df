SPECIFICATION Spec
CONSTANTS
  DataSize = 2
  InitSize = 1
  FileSize <- MCFileSize
  Offset <- MCOffset
  OldSize = 2
  Chunks = 2
  UINT_MAX = 7
  FIN = 99
  Bits <- MCBits
  Number <- MCNumber
  Room = 2
  HearsSelf = TRUE
INVARIANT
  ServerSavesAll
CHECK_DEADLOCK FALSE
