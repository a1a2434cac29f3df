SPECIFICATION Spec
CONSTANTS
  Time = 5
  Scale = 4
  MaxNsec = 100
  Pause = 3
  Quick = 2
  MaxStall = 12
  MaxUnsent = 2
INVARIANT
  ReportedAreSent
CHECK_DEADLOCK FALSE
