SPECIFICATION FairSpec
CONSTANTS
  Control = {k1}
  Sink = {s1, s2}
  None = None
  Fds = {6, 7}
  MaxEvents = 2
  HeaderSize = 1
  Mss <- MCMss
  Command = {"/reset", "/exit"}
  MaxBytes = 2
  MaxCommands = 2
  Cuts = TRUE
INVARIANTS
  TablesInStep
  EveryByteCountedOnce
PROPERTIES
  NoDataDropped
  SinkDrained
  Answered
CHECK_DEADLOCK FALSE
