SPECIFICATION FairSpec
CONSTANTS
  a = a  b = b  c3 = c3
  Conn <- Three
  NoConn = NoConn
  Fd <- MCFd
  listenfd = 3
  Slow <- MCSlow
  Leavers <- Two
  Lines <- MCLines
  MaxLines <- MCMaxLines
INVARIANTS
  WhoFits
  EventsKnown
PROPERTIES
  ImplementsBroadcast
  Welcomed
  TextHeard
CHECK_DEADLOCK FALSE
