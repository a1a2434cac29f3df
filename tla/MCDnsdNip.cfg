SPECIFICATION Spec
CONSTANTS
  Label <- MCLabel
  Digits3 <- MCDigits3
  Octet <- MCOctet
  Long <- MCLong
  zones <- MCZones
  rrs <- MCRrs
  Query <- NipQueries
  NoQuery = NoQuery
  MaxSend = 1
  MaxWaiting = 1
  MaxDup = 0
  Unreliable = FALSE
INVARIANT
  NipAnswered
CHECK_DEADLOCK FALSE
