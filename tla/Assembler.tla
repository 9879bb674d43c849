------------------------------ MODULE Assembler ------------------------------
(***************************************************************************)
(* The stream reassembler of serialize.cpp: assemble() and the part of     *)
(* deserialize() that calls it.  The same file serves the RPi client, the  *)
(* TLS server and, as the Arduino library <serialize.h>, the firmware.     *)
(*                                                                         *)
(* assemble() keeps its state in function-local statics and is only ever   *)
(* called from one thread of a program, so a call is one step.  A byte is  *)
(* represented by its position in the received stream; 0 is the initial    *)
(* content of a static buffer.                                             *)
(***************************************************************************)
EXTENDS Integers

CONSTANTS
  PacketSize,  \* PACKET_SIZE
  MaxChunk,    \* longest chunk one call of deserialize() is given
  MaxBytes     \* bound of the model: length of the stream

(***************************************************************************)
(* Every caller declares its chunk as "char buffer[PACKET_SIZE]", so a     *)
(* chunk that fits its buffer has at most PacketSize bytes.  This is an    *)
(* assumption: serialRead() (serial.cpp:125) asks read() for up to 1024    *)
(* bytes, and gets more than a packet if more are waiting.                 *)
(***************************************************************************)
ASSUME SizesAssumption ==
  /\ PacketSize \in Nat \ {0}
  /\ MaxChunk \in 1 .. PacketSize
  /\ MaxBytes \in Nat

VARIABLES
  counter,         \* bytes already copied to the output buffer
  leftoverFlag,    \* there are leftovers to copy first on the next call
  leftoverCount,   \* how many bytes of leftoverBuffer are in use
  leftoverBuffer,  \* bytes received beyond the end of the last frame
  outputBuffer,    \* _privateBuffer, the frame being built
  result,          \* what the last call of assemble() returned
  received,        \* history: bytes passed to assemble() so far
  delivered        \* history: calls that returned PACKET_COMPLETE

vars == <<counter, leftoverFlag, leftoverCount, leftoverBuffer, outputBuffer,
          result, received, delivered>>

Slots == 0 .. PacketSize - 1

PACKET_INCOMPLETE == "PACKET_INCOMPLETE"
PACKET_COMPLETE == "PACKET_COMPLETE"

Init ==
  /\ counter = 0
  /\ leftoverFlag = FALSE
  /\ leftoverCount = 0
  /\ leftoverBuffer = [i \in Slots |-> 0]
  /\ outputBuffer = [i \in Slots |-> 0]
  /\ result = PACKET_INCOMPLETE
  /\ received = 0
  /\ delivered = 0

------------------------------------------------------------------------------
(***************************************************************************)
(* The local quantities of one call, in the order assemble() computes them.*)
(***************************************************************************)

\* Mutant: a frame's leftovers are forgotten when their flag is tested.
CopyCountForgets == 0

\* copyCount: the leftovers that start this call's frame.
CopyCount ==
  IF ~leftoverFlag THEN 0
  ELSE IF leftoverCount <= PacketSize THEN leftoverCount ELSE PacketSize

\* counter, once the leftovers are in the output buffer.
Filled == counter + CopyCount

\* The chunk reaches the end of the frame.
Closes(len) == Filled + len >= PacketSize

\* Mutant: room for this frame computed before the leftovers went in.
BytesLeftStale(len) == IF Closes(len) THEN PacketSize - counter ELSE len

\* bytesLeft: the bytes of the chunk that belong to this frame.
BytesLeft(len) == IF Closes(len) THEN PacketSize - Filled ELSE len

\* Mutant: the last byte beyond the frame is dropped.
BytesToCopyShort(len) ==
  IF Closes(len) /\ len > BytesLeft(len) THEN len - BytesLeft(len) - 1
  ELSE len - BytesLeft(len)

\* bytesToCopy: the bytes of the chunk that belong to the next frame.
BytesToCopy(len) == len - BytesLeft(len)

\* Mutant: the chunk is copied from its second byte.
ChunkByteSkips(j) == received + 2 + j

\* The stream positions of a chunk's bytes: its j-th byte, from 0.
ChunkByte(j) == received + 1 + j

(***************************************************************************)
(* One call of assemble() with a chunk of len bytes.  The two copy loops   *)
(* into the output buffer fill counter .. Filled - 1 from the leftovers    *)
(* and the slots after it from the chunk.                                  *)
(***************************************************************************)
Assemble(len) ==
  LET kept == leftoverCount - CopyCount
      end  == Filled + BytesLeft(len)
  IN /\ received + len <= MaxBytes
     /\ received' = received + len
     /\ outputBuffer' =
          [i \in Slots |->
             IF i >= counter /\ i < Filled THEN leftoverBuffer[i - counter]
             ELSE IF i >= Filled /\ i < end THEN ChunkByte(i - Filled)
             ELSE outputBuffer[i]]
     /\ leftoverBuffer' =
          [i \in Slots |->
             IF i >= kept /\ i < kept + BytesToCopy(len)
             THEN ChunkByte(BytesLeft(len) + i - kept)
             ELSE leftoverBuffer[i]]
     /\ leftoverCount' = kept + BytesToCopy(len)
     /\ leftoverFlag' = (Closes(len) \/ (leftoverFlag /\ leftoverCount > PacketSize))
     /\ \/ /\ end = PacketSize
           /\ counter' = 0
           /\ result' = PACKET_COMPLETE
           /\ delivered' = delivered + 1
        \/ /\ end # PacketSize
           /\ counter' = end
           /\ result' = PACKET_INCOMPLETE
           /\ delivered' = delivered

\* The callers skip the call when nothing was read.
Next == \E len \in 1 .. MaxChunk : Assemble(len)

Spec == Init /\ [][Next]_vars
------------------------------------------------------------------------------
(***************************************************************************)
(* Properties.                                                             *)
(***************************************************************************)

\* The statics keep their types: in particular no call leaves a full output
\* buffer or a leftover buffer with no room behind.
TypeOK ==
  /\ counter \in Slots
  /\ leftoverFlag \in BOOLEAN
  /\ leftoverCount \in Slots
  /\ leftoverBuffer \in [Slots -> Nat]
  /\ outputBuffer \in [Slots -> Nat]
  /\ result \in {PACKET_INCOMPLETE, PACKET_COMPLETE}
  /\ received \in Nat
  /\ delivered \in Nat

\* Every byte given to assemble() is in a delivered frame, in the output
\* buffer or in the leftover buffer, whatever the chunk boundaries were; and
\* leftovers that the flag does not announce would be forgotten, so there are
\* none.
Conservation ==
  /\ received = PacketSize * delivered + counter + leftoverCount
  /\ ~leftoverFlag => leftoverCount = 0

\* Both buffers hold consecutive bytes of the stream, the leftovers right
\* after the output buffer: no chunk boundary reorders or repeats a byte.
InOrder ==
  LET next == PacketSize * delivered + 1
  IN /\ \A i \in Slots : i < counter => outputBuffer[i] = next + i
     /\ \A i \in Slots :
          i < leftoverCount => leftoverBuffer[i] = next + counter + i

(***************************************************************************)
(* The abstract framing layer, its frame read off the output buffer of a   *)
(* call that returned PACKET_COMPLETE (deserialize() looks at it then).    *)
(***************************************************************************)
NoBytes == [i \in Slots |-> 0]

FS == INSTANCE FrameStream
        WITH frame <- IF result = PACKET_COMPLETE THEN outputBuffer ELSE NoBytes

\* deserialize() hands over exactly the consecutive frames of the stream, each
\* in the call that brings its last byte and none twice, for every way the
\* serial port cuts the stream into chunks.
Refines == FS!Spec
==============================================================================
