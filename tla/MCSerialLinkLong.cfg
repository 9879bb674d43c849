CONSTANTS
  PacketSize = 20
  MagicSize = 1
  HeaderSize = 2
  RingSize = 9
  TxSize = 9
  Gap = 137
  Second = 137
  LongSum = 7
  Jobs <- LongJobs
  MaxSent = 2
SPECIFICATION Spec
INVARIANT NothingLost
