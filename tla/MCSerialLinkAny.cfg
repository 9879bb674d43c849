CONSTANTS
  PacketSize = 7
  MagicSize = 2
  HeaderSize = 3
  RingSize = 3
  TxSize = 3
  Gap = 0
  Second = 15
  LongSum = 3
  Jobs <- AnyJobs
  MaxSent = 5
SPECIFICATION Spec
INVARIANT TypeOK
PROPERTIES
  StaysOutOfStep
  Refines
