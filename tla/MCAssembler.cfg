\* The stream ends at MaxBytes, which is where the model stops.
CONSTANTS
  PacketSize <- MCPacketSize
  MaxChunk <- MCMaxChunk
  MaxBytes <- MCMaxBytes
SPECIFICATION Spec
INVARIANTS
  TypeOK
  Conservation
  InOrder
PROPERTY Refines
CHECK_DEADLOCK FALSE
