CONSTANTS
  Chars <- WindowChar
  HoldKeys <- DriveKeys
  Closable = FALSE
  DEFAULT_SPEED = 5
  MAX_SPEED = 10
  DEFAULT_DELAY = 50
  MaxDelay = 50
  MaxEvents = 2
SPECIFICATION Spec
INVARIANT KeyHold
