SPECIFICATION FairSpec
CONSTANTS
  Control = {k1}
  Sink = {s1}
  None = None
  Fds = {6, 7}
  MaxEvents = 2
  HeaderSize = 1
  Mss <- MCMss
  Command = {"/reset", "/clients", "/exit"}
  MaxBytes = 2
  MaxCommands = 1
  Cuts = TRUE
PROPERTY
  EveryCommandAnswered
CHECK_DEADLOCK FALSE
