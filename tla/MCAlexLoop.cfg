CONSTANTS
  ByteBase <- MCByteBase
  Word <- MCWord
  Mantissa <- MCMantissa
  Overflows <- MCOverflows
  NoLimitDist <- MCNoLimitDist
  NoLimitTicks <- MCNoLimitTicks
  SonarReadings <- MCSonarReadings
  Packets <- AllPackets
  MaxPackets = 2
  MaxTicks = 4
SPECIFICATION FairSpec
INVARIANTS
  TypeOK
  QuietWhenStopped
  GuardWatchesForward
  TargetAsOrdered
  TicksLeftBounded
  OdometerAgrees
  OneAnswer
PROPERTIES
  StopsInTime
  ArmedMoveEnds
  Drives
  KeepsOrders
