SPECIFICATION Spec
CONSTANTS
  Label <- MCLabel
  Digits3 <- MCDigits3
  Octet <- MCOctet
  Long <- MCLong
  zones <- MCBareZones
  rrs <- MCRrs
  Query <- BareQueries
  NoQuery = NoQuery
  MaxSend = 1
  MaxWaiting = 1
  MaxDup = 0
  Unreliable = FALSE
INVARIANT
  CorrectAddress
CHECK_DEADLOCK FALSE
