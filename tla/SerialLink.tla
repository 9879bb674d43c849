----------------------------- MODULE SerialLink -----------------------------
(***************************************************************************)
(* The serial line from the Pi to the firmware: sendPacket(), the receive  *)
(* ring of the Arduino's UART, readPacket() and deserialize() in loop(),   *)
(* and the times at which the firmware stays away from the port.           *)
(*                                                                         *)
(* Time is counted in slots; in one slot the line carries one byte each    *)
(* way.  A byte that finds the ring full is lost: there is no flow         *)
(* control (CRTSCTS and IXON are off, and clear_to_send_command is always  *)
(* TRUE).  The firmware stays away while Serial.write() waits for room in  *)
(* its transmit ring and during every delay(); otherwise a turn of loop()  *)
(* takes less than a slot: instances let a slot stand for several bytes.   *)
(*                                                                         *)
(* A byte is represented by its position in what the Pi sent.  Framing is  *)
(* the one of FrameStream, which Assembler implements: consecutive frames  *)
(* of PacketSize bytes, cut by count.                                      *)
(***************************************************************************)
EXTENDS Integers, Sequences

CONSTANTS
  PacketSize,  \* bytes of a packet
  MagicSize,   \* bytes of its magic number
  HeaderSize,  \* and of its dataSize, which follows
  RingSize,    \* bytes the receive ring holds
  TxSize,      \* bytes the transmit ring holds
  Gap,         \* slots the Pi lets pass after a packet, sleep(1) in mode 4
  Second,      \* slots of the delay(1000) after a move of limited distance
  LongSum,     \* slots of the longest checksum over too many bytes that ends
  Jobs,        \* what handling a packet may take
  MaxSent      \* bound of the model: packets sent

(***************************************************************************)
(* A job sends some replies and works for some slots; the move it starts   *)
(* may later pause the loop once (PAUSE) or make it send a message         *)
(* (MESSAGE).  The work follows the replies; a colour reading does most of *)
(* it before them and is away as long.                                     *)
(***************************************************************************)
ASSUME LinkAssumption ==
  /\ PacketSize \in Nat \ {0}
  /\ MagicSize \in 1 .. PacketSize
  /\ HeaderSize \in MagicSize .. PacketSize
  /\ RingSize \in 1 .. PacketSize
  /\ {TxSize, Gap, Second, LongSum, MaxSent} \subseteq Nat
  /\ Jobs \subseteq [replies : Nat, work : Nat, later : SUBSET {"PAUSE", "MESSAGE"}]
  /\ Jobs # {}

VARIABLES
  sent,      \* packets the Pi has written
  gap,       \* slots until it writes again
  arrived,   \* bytes that have come through the line
  kept,      \* those in the firmware and in no frame yet, oldest first
  assembled, \* how many of kept readSerial() has taken from the ring
  unsent,    \* bytes of replies not on the line yet
  away,      \* slots of delay() to come
  later,     \* what the current move may still do to the loop
  polled,    \* the loop has read the port in this slot
  stuck,     \* the firmware is in a checksum that does not end
  lost,      \* history: bytes dropped
  frames,    \* history: frames cut
  handed, handlings  \* history: number of the last packet handled, and how many

pi == <<sent, gap>>
line == <<arrived, lost>>
vars == <<pi, line, kept, assembled, unsent, away, later, polled, stuck, frames,
          handed, handlings>>

Init ==
  /\ sent = 0 /\ gap = 0
  /\ arrived = 0 /\ lost = 0
  /\ kept = <<>> /\ assembled = 0
  /\ unsent = 0 /\ away = 0
  /\ later = {}
  /\ polled = FALSE /\ stuck = FALSE
  /\ frames = 0
  /\ handed = 0 /\ handlings = 0

\* The packet a byte belongs to, and its place in it from 0.
Packet(b) == (b - 1) \div PacketSize + 1
Place(b) == (b - 1) % PacketSize

\* Nothing keeps the loop from its next turn.
Idle == unsent <= TxSize /\ away = 0 /\ ~stuck

------------------------------------------------------------------------------
\* Mutant: the Pi does not wait.
SendUnpaced ==
  /\ sent < MaxSent
  /\ sent' = sent + 1
  /\ gap' = Gap
  /\ UNCHANGED <<line, kept, assembled, unsent, away, later, polled, frames,
                 handed, handlings, stuck>>

\* sendPacket(): serialize() and a write() that the kernel buffers.
Send ==
  /\ gap = 0
  /\ sent < MaxSent
  /\ sent' = sent + 1
  /\ gap' = Gap
  /\ UNCHANGED <<line, kept, assembled, unsent, away, later, polled, frames,
                 handed, handlings, stuck>>

------------------------------------------------------------------------------
\* Mutant: the ring takes one byte too many.
HasRoomForOneMore == Len(kept) - assembled <= RingSize

HasRoom == Len(kept) - assembled < RingSize

\* The receive interrupt: the byte goes to the ring, or nowhere.
Arrive ==
  \/ /\ arrived = PacketSize * sent
     /\ UNCHANGED <<line, kept>>
  \/ /\ arrived < PacketSize * sent
     /\ arrived' = arrived + 1
     /\ \/ /\ HasRoom
           /\ kept' = Append(kept, arrived + 1)
           /\ UNCHANGED lost
        \/ /\ ~HasRoom
           /\ lost' = lost + 1
           /\ UNCHANGED kept

Less(n) == IF n > 0 THEN n - 1 ELSE 0

\* A slot passes.  A delay() begins when the replies before it are queued.
Slot ==
  /\ polled \/ ~Idle
  /\ polled' = FALSE
  /\ Arrive
  /\ gap' = Less(gap)
  /\ unsent' = Less(unsent)
  /\ away' = IF unsent > TxSize THEN away ELSE Less(away)
  /\ UNCHANGED <<sent, assembled, later, frames, handed, handlings, stuck>>

------------------------------------------------------------------------------
(***************************************************************************)
(* deserialize().                                                          *)
(***************************************************************************)
Frame == SubSeq(kept, 1, PacketSize)

\* Mutant: the frame stays in the buffer.
RestKept == kept

Rest == SubSeq(kept, PacketSize + 1, Len(kept))

\* Mutant: the magic number is looked for one byte too late.
MagicLate(f) == \A i \in 1 .. MagicSize : Place(f[i]) = i

\* Mutant: the magic number is not tested.
MagicAlways(f) == TRUE

Magic(f) == \A i \in 1 .. MagicSize : Place(f[i]) = i - 1

Whole(f) == \A i \in 1 .. PacketSize : f[i] = f[1] + i - 1

\* dataSize is the one every packet has.
Sized(f) == \A i \in MagicSize + 1 .. HeaderSize : Place(f[i]) = i - 1

\* The checksum is eight bits of exclusive or: it is right for a whole packet
\* and may be right, by accident, for a frame that misses bytes.  It is taken
\* over dataSize bytes, whatever that says (serialize.cpp:106): from 2^16 on the
\* firmware's unsigned int never gets there ("NONE").  "NONE" also stands for
\* what follows if a sum over too many bytes is right, as line 113 then copies
\* as many over the packet and what lies behind it.
Outcomes(f) ==
  IF ~Magic(f) THEN {"PACKET_BAD"}
  ELSE IF Whole(f) THEN {"PACKET_OK"}
  ELSE IF Sized(f) THEN {"PACKET_OK", "PACKET_CHECKSUM_BAD"}
  ELSE {"PACKET_OK", "PACKET_CHECKSUM_BAD", "NONE"}

\* A turn of loop() in which no frame ends.
Read ==
  /\ Idle
  /\ ~polled
  /\ Len(kept) < PacketSize
  /\ polled' = TRUE
  /\ assembled' = Len(kept)
  /\ UNCHANGED <<pi, line, kept, unsent, away, later, frames, handed, handlings,
                 stuck>>

Cut ==
  /\ Idle
  /\ ~polled
  /\ Len(kept) >= PacketSize
  /\ polled' = TRUE
  /\ kept' = Rest
  /\ assembled' = Len(kept) - PacketSize
  /\ frames' = frames + 1

\* handlePacket() does any of its jobs.
Handle ==
  /\ Cut
  /\ "PACKET_OK" \in Outcomes(Frame)
  /\ handed' = Packet(Frame[1])
  /\ handlings' = handlings + 1
  /\ \E job \in Jobs :
       /\ unsent' = unsent + PacketSize * job.replies
       /\ away' = job.work
       /\ later' = job.later
  /\ UNCHANGED <<pi, line, stuck>>

\* sendBadPacket() and sendBadChecksum(), the latter perhaps after a long sum.
Refuse ==
  /\ Cut
  /\ Outcomes(Frame) \cap {"PACKET_BAD", "PACKET_CHECKSUM_BAD"} # {}
  /\ unsent' = unsent + PacketSize
  /\ away' \in IF "NONE" \in Outcomes(Frame) THEN 0 .. LongSum ELSE {0}
  /\ UNCHANGED <<pi, line, later, handed, handlings, stuck>>

\* deserialize() does not return.
Hang ==
  /\ Cut
  /\ "NONE" \in Outcomes(Frame)
  /\ stuck' = TRUE
  /\ UNCHANGED <<pi, line, unsent, away, later, handed, handlings>>

\* loop() ends the current move: with its delay(1000) at the target, or with
\* the message of the collision guard.
AutoStop ==
  /\ Idle
  /\ "MESSAGE" \in later
  /\ later' = {}
  /\ unsent' = unsent + PacketSize
  /\ UNCHANGED <<pi, line, kept, assembled, away, polled, frames, handed,
                 handlings, stuck>>

Pause ==
  /\ Idle
  /\ "PAUSE" \in later
  /\ later' = {}
  /\ away' = Second
  /\ UNCHANGED <<pi, line, kept, assembled, unsent, polled, frames, handed,
                 handlings, stuck>>

Firmware == Read \/ Handle \/ Refuse \/ Hang \/ AutoStop \/ Pause

Next == Send \/ Slot \/ Firmware

Spec == Init /\ [][Next]_vars

\* Time passes, and the loop takes its turns.
FairSpec == Spec /\ WF_vars(Slot) /\ WF_vars(Read \/ Handle \/ Refuse \/ Hang)

------------------------------------------------------------------------------
(***************************************************************************)
(* Properties.                                                             *)
(***************************************************************************)

\* Every byte that came through is in a frame, in the firmware or lost, and
\* the bytes of the firmware are in the order sent; the ring never holds more
\* than its size, and never as much as a second frame.
TypeOK ==
  /\ sent \in 0 .. MaxSent /\ gap \in 0 .. Gap
  /\ arrived \in 0 .. PacketSize * sent
  /\ arrived = PacketSize * frames + Len(kept) + lost
  /\ \A i \in 1 .. Len(kept) :
       kept[i] \in 1 .. arrived /\ (i > 1 => kept[i - 1] < kept[i])
  /\ assembled \in 0 .. PacketSize - 1
  /\ Len(kept) - assembled \in 0 .. RingSize
  /\ {unsent, away, lost, frames, handlings} \subseteq Nat
  /\ later \subseteq {"PAUSE", "MESSAGE"}
  /\ polled \in BOOLEAN /\ stuck \in BOOLEAN
  /\ handed \in 0 .. sent

\* The frame being filled does not start where a packet starts, and no byte is
\* missing after it.
OutOfStep ==
  /\ lost % PacketSize # 0
  /\ \A i \in 1 .. Len(kept) : kept[i] = arrived - Len(kept) + i

\* Framing by count never recovers: once out of step, no packet is handled
\* until more bytes are lost.
StaysOutOfStep ==
  [][(OutOfStep /\ lost' = lost) => (OutOfStep' /\ handlings' = handlings)]_vars

\* Whatever is lost, a packet is handled at most once and in the order sent:
\* the line implements the lossy channel.
Channel == INSTANCE LossyChannel
Refines == Channel!Spec

\* "BAD MAGIC NUMBER HANDLING ... Mode 4 : Commands every 1 second"
\* (alex-pi.cpp:42-46): at that pace no byte finds the ring full.  True of jobs that
\* are Paced, which leaves out moves of more than 840 ms and, of the colour readings
\* (COLOR, 'v' in usart.cpp:299), which are sent at the same pace, all for which the
\* arm leaves its place: these lose bytes.
NothingLost == lost = 0

\* Then, for the same jobs, every packet is handled ...
EveryPacketHandled == \A n \in 1 .. MaxSent : sent = n ~> handed >= n

\* ... once, and before the next one is sent: the last at most is to come.  Again
\* for jobs that are Paced.
EachInTurn ==
  /\ handlings = handed
  /\ sent - handed \in {0, 1}

\* What of n bytes of replies Serial.write() has to wait for.
Excess(n) == IF n > TxSize THEN n - TxSize ELSE 0

\* A pace and jobs for which the last three hold.  The two rings hold no more
\* than a packet, the Pi waits for longer than a packet takes, no job has a
\* sequel, and none keeps the loop away for longer than the line is then silent
\* and the receive ring takes to fill.
Paced ==
  /\ Gap > PacketSize
  /\ TxSize + RingSize <= PacketSize
  /\ \A job \in Jobs :
       /\ job.later = {}
       /\ Excess(PacketSize * job.replies) + job.work <= Gap - PacketSize + RingSize
=============================================================================
