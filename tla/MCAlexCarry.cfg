CONSTANTS
  ByteBase <- MCByteBase
  Word <- MCWord
  Mantissa <- MCMantissa
  Overflows <- MCOverflows
  NoLimitDist <- MCNoLimitDist
  NoLimitTicks <- MCNoLimitTicks
  SonarReadings <- MCSonarReadings
  Packets <- CarryPackets
  MaxPackets = 1
  MaxTicks = 3
SPECIFICATION Spec
PROPERTY NeverCutShort
