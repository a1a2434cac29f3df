SPECIFICATION FairSpec
CONSTANTS
  Time = 5
  Scale = 4
  MaxNsec = 100
  Pause = 3
  Quick = 2
  MaxStall = 12
  MaxUnsent = 2
INVARIANTS
  NeverFarAhead
  LateOnlyByStalls
PROPERTY
  CatchesUp
CHECK_DEADLOCK FALSE
