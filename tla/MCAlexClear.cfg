CONSTANTS
  ByteBase <- MCByteBase
  Word <- MCWord
  Mantissa <- MCMantissa
  Overflows <- MCOverflows
  NoLimitDist <- MCNoLimitDist
  NoLimitTicks <- MCNoLimitTicks
  SonarReadings <- MCSonarReadings
  Packets <- ClearPackets
  MaxPackets = 2
  MaxTicks = 4
SPECIFICATION FairSpec
PROPERTY CoveredMoveEnds
