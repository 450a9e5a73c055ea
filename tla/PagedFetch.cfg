SPECIFICATION FetchSpec
CONSTANTS
  Event <- MCEvent
  At <- MCAt
  Limit = 2
  NoUntil = NoUntil
PROPERTIES
  IsOneRead
  Terminates
CHECK_DEADLOCK FALSE
