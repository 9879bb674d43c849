CONSTANTS
  Chars <- DriveChars
  HoldKeys <- DriveKeys
  Closable = TRUE
  DEFAULT_SPEED = 5
  MAX_SPEED = 5
  DEFAULT_DELAY = 50
  MaxDelay = 50
  MaxEvents = 2
  MaxLine = 2
SPECIFICATION RemoteFairSpec
INVARIANTS
  RobotFollows
  StopRefusedAtRest
  WheelsHaveKey
PROPERTIES
  ReleaseStopsRobot
  StopReachesRobot
