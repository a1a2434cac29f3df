SPECIFICATION Spec
CONSTANTS
  c1 = c1  c2 = c2  c3 = c3
  Conn <- MCConn
  NoConn = NoConn
  Fd <- MCFd
  NoFd = NoFd
  GoodNick = {"al", "bo"}
  BadNick = {"1x"}
  NoNick = ""
  Channel = {"#c"}
  BadChannel = {"c"}
  Topic = {"t"}
  NoTopic = ""
CHECK_DEADLOCK FALSE
PROPERTY ReplyCarriesNickname
