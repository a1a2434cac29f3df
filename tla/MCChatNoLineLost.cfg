SPECIFICATION Spec
CONSTANTS
  a = a  b = b  c3 = c3
  Conn <- Two
  NoConn = NoConn
  Fd <- MCFd
  listenfd = 3
  Slow = {}
  Leavers <- Two
  Lines <- TextLines
  MaxLines <- TwoMaxLines
INVARIANT
  NoLineLost
CHECK_DEADLOCK FALSE
