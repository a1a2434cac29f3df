SPECIFICATION FairSpec
CONSTANTS
  a = a  b = b  c3 = c3
  Conn <- Two
  NoConn = NoConn
  Fd <- MCFd
  listenfd = 3
  Slow = {}
  Leavers <- Two
  Lines <- ExitLines
  MaxLines <- ExitMaxLines
PROPERTY
  LeaveNoticed
CHECK_DEADLOCK FALSE
