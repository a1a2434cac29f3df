SPECIFICATION ClientSpec
CONSTANTS
  k1 = k1
  k2 = k2
  s1 = s1
  s2 = s2
  Control = {k1, k2}
  Sink = {s1, s2}
  None = None
  Fds = {6, 7, 8, 9}
  MaxEvents = 2
  HeaderSize = 1
  Mss <- MCMss
  Command = {"/reset", "/report"}
  MaxBytes = 2
  MaxCommands = 2
  Cuts = FALSE
  Runs <- MCRuns
INVARIANT
  SinksClosedBeforeReport
CHECK_DEADLOCK FALSE
