SPECIFICATION Spec
CONSTANTS
  Control = {k1}
  Sink = {s1, s2}
  None = None
  Fds = {6, 7}
  MaxEvents = 2
  HeaderSize = 1
  Mss <- MCMss
  Command = {"/ping"}
  MaxBytes = 2
  MaxCommands = 1
  Cuts = FALSE
INVARIANT
  SinkAcceptsAny
CHECK_DEADLOCK FALSE
