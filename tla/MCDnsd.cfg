SPECIFICATION FairSpec
CONSTANTS
  Label <- MCLabel
  Digits3 <- MCDigits3
  Octet <- MCOctet
  Long <- MCLong
  zones <- MCZones
  rrs <- MCRrs
  Query <- MCQueries
  NoQuery = NoQuery
  MaxSend = 3
  MaxWaiting = 2
  MaxDup = 1
  Unreliable = TRUE
INVARIANTS
  ClosestZone
  RcodeAgrees
  ReplyIsOwn
PROPERTY
  EventuallyAnswered
CHECK_DEADLOCK FALSE
