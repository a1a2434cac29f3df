SPECIFICATION FairSpec
CONSTANTS
  Label <- MCLabel
  Digits3 <- MCDigits3
  Octet <- MCOctet
  Long <- MCLong
  zones <- MCZones
  rrs <- MCRrs
  Query <- ForeignQueries
  NoQuery = NoQuery
  MaxSend = 2
  MaxWaiting = 2
  MaxDup = 0
  Unreliable = TRUE
PROPERTY
  LocalAnswered
CHECK_DEADLOCK FALSE
