SPECIFICATION NkatFairSpec
CONSTANTS
  Client = {c1, c2, c3}
  None = None
INVARIANTS
  ProgramTable
  ErrorsNotSent
PROPERTY
  EndSeen
CHECK_DEADLOCK FALSE
