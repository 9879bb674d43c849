----------------------------- MODULE FrameStream -----------------------------
(***************************************************************************)
(* What the framing layer of serialize.cpp promises to its callers, with   *)
(* nothing said of how: a byte stream that arrives in chunks of any length *)
(* is cut into consecutive frames of PacketSize bytes, and a frame is      *)
(* handed over in the very call that brings its last byte.                 *)
(*                                                                         *)
(* A byte is identified by its position in the stream (1 is the first      *)
(* byte ever received), so that "the right bytes in the right order" can   *)
(* be said for every content of the stream at once.                        *)
(***************************************************************************)
EXTENDS Naturals

CONSTANTS
  PacketSize,  \* bytes in a frame, PACKET_SIZE
  MaxChunk,    \* longest chunk a caller passes in one call
  MaxBytes     \* bound of the model: bytes the stream may carry

VARIABLES
  received,    \* bytes passed in so far
  delivered,   \* frames handed over so far
  frame        \* what the last call handed over, NoFrame if nothing

streamVars == <<received, delivered, frame>>

Slots == 0 .. PacketSize - 1

\* The k-th frame of the stream, counting from 0.
Frame(k) == [i \in Slots |-> PacketSize * k + i + 1]

\* No stream byte has position 0.
NoFrame == [i \in Slots |-> 0]

Init ==
  /\ received = 0
  /\ delivered = 0
  /\ frame = NoFrame

Feed(len) ==
  /\ received + len <= MaxBytes
  /\ received' = received + len
  /\ \/ /\ received' >= PacketSize * (delivered + 1)
        /\ delivered' = delivered + 1
        /\ frame' = Frame(delivered)
     \/ /\ received' < PacketSize * (delivered + 1)
        /\ delivered' = delivered
        /\ frame' = NoFrame

Next == \E len \in 1 .. MaxChunk : Feed(len)

Spec == Init /\ [][Next]_streamVars
==============================================================================
