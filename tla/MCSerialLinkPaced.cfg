CONSTANTS
  PacketSize = 20
  MagicSize = 1
  HeaderSize = 2
  RingSize = 9
  TxSize = 9
  Gap = 137
  Second = 137
  LongSum = 7
  Jobs <- PacedJobs
  MaxSent = 3
SPECIFICATION FairSpec
INVARIANTS
  NothingLost
  EachInTurn
PROPERTY EveryPacketHandled
