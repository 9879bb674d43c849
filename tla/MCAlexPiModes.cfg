CONSTANTS
  Chars <- AllChars
  HoldKeys <- AllKeys
  Closable = TRUE
  DEFAULT_SPEED = 5
  MAX_SPEED = 10
  DEFAULT_DELAY = 50
  MaxDelay = 50
  MaxEvents = 2
SPECIFICATION FairSpec
INVARIANTS
  TypeOK
  StopPending
PROPERTY ReleaseStops
