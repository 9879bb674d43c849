-------------------------- MODULE SerialLinkProofs --------------------------
(***************************************************************************)
(* Theorems about SerialLink, for every size of packets and rings, every   *)
(* pace of the Pi and whatever a handler takes: what is lost never brings  *)
(* a packet twice or out of order, and framing by count never recovers by  *)
(* itself.                                                                 *)
(***************************************************************************)
EXTENDS SerialLink, TLAPS

\* The first byte of a packet.
Start(n) == PacketSize * (n - 1) + 1

Ordered ==
  \A i, j \in 1 .. Len(kept) : i < j => kept[i] < kept[j]

\* What is still to be framed lies behind the start of the last packet handled.
Behind ==
  handed > 0 =>
    /\ Start(handed) <= arrived
    /\ \A i \in 1 .. Len(kept) : kept[i] > Start(handed)

LinkInv ==
  /\ TypeOK
  /\ kept \in Seq(Nat)
  /\ Ordered
  /\ Behind

------------------------------------------------------------------------------
(***************************************************************************)
(* Numbers.                                                                *)
(***************************************************************************)
LEMMA Sizes ==
  /\ PacketSize \in Nat \ {0} /\ MagicSize \in 1 .. PacketSize
  /\ HeaderSize \in MagicSize .. PacketSize /\ LongSum \in Nat
  /\ RingSize \in 1 .. PacketSize
  /\ TxSize \in Nat /\ Gap \in Nat /\ Second \in Nat /\ MaxSent \in Nat
BY LinkAssumption

LEMMA Division ==
  ASSUME NEW P \in Nat \ {0}, NEW n \in Nat
  PROVE  /\ n \div P \in Nat /\ n % P \in 0 .. P - 1
         /\ n = P * (n \div P) + (n % P)
OBVIOUS

LEMMA SameRemainder ==
  ASSUME NEW P \in Nat \ {0}, NEW q \in Int, NEW r \in 0 .. P - 1
  PROVE  (P * q + r) % P = r
BY SMT

LEMMA Larger ==
  ASSUME NEW P \in Nat \ {0}, NEW a \in Int, NEW b \in Int, P * a < P * b
  PROVE  a < b
BY SMT

LEMMA FitsIn ==
  ASSUME NEW P \in Nat \ {0}, NEW n \in Nat \ {0}, NEW s \in Nat,
         P * (n - 1) + 1 <= P * s
  PROVE  n <= s
<1>1. P * (n - 1) \in Int /\ P * s \in Int
  OBVIOUS
<1>2. P * (n - 1) < P * s
  BY <1>1
<1>3. n - 1 < s
  BY <1>2, Larger
<1> QED BY <1>3

LEMMA StartsLater ==
  ASSUME NEW P \in Nat \ {0}, NEW m \in Nat \ {0}, NEW n \in Nat \ {0},
         P * (m - 1) + 1 < P * (n - 1) + 1
  PROVE  m < n
<1>1. P * (m - 1) \in Int /\ P * (n - 1) \in Int
  OBVIOUS
<1>2. P * (m - 1) < P * (n - 1)
  BY <1>1
<1>3. m - 1 < n - 1
  BY <1>2, Larger
<1> QED BY <1>3

LEMMA OneFrameOff ==
  ASSUME NEW P \in Nat, NEW f \in Nat, NEW l \in Nat, NEW d \in Nat
  PROVE  P * (f + 1) + (l - P) + d = P * f + l + d
<1>1. P * (f + 1) = P * f + P /\ P * f \in Nat
  OBVIOUS
<1> QED BY <1>1

LEMMA WholePackets ==
  ASSUME NEW P \in Nat \ {0}, NEW f \in Nat, NEW l \in Nat
  PROVE  (P * f + l) % P = l % P
<1> DEFINE q == l \div P
           r == l % P
<1>1. q \in Nat /\ r \in 0 .. P - 1 /\ l = P * q + r
  BY Division
<1> HIDE DEF q, r
<1>2. P * f + l = P * (f + q) + r
  BY <1>1
<1>3. (P * (f + q) + r) % P = r
  BY <1>1, SameRemainder
<1> QED BY <1>2, <1>3 DEF r

\* A byte in the first place of its packet is the packet's start.
LEMMA StartOf ==
  ASSUME NEW b \in Nat \ {0}, Place(b) = 0
  PROVE  Packet(b) \in Nat \ {0} /\ b = Start(Packet(b))
<1> DEFINE n == b - 1
<1>1. n \in Nat
  OBVIOUS
<1>2. n \div PacketSize \in Nat /\ n = PacketSize * (n \div PacketSize) + (n % PacketSize)
  BY <1>1, Division, Sizes
<1>3. n % PacketSize = 0
  BY DEF Place
<1>4. Packet(b) = (n \div PacketSize) + 1
  BY DEF Packet
<1> HIDE DEF n
<1>5. Packet(b) \in Nat \ {0} /\ Packet(b) - 1 = n \div PacketSize
  BY <1>2, <1>4
<1>6. n = PacketSize * (Packet(b) - 1)
  BY <1>2, <1>3, <1>5, Sizes
<1> QED BY <1>5, <1>6 DEF Start, n

------------------------------------------------------------------------------
(***************************************************************************)
(* Sequences.                                                              *)
(***************************************************************************)
LEMMA FrameAndRest ==
  ASSUME kept \in Seq(Nat), Len(kept) >= PacketSize
  PROVE  /\ \A i \in 1 .. PacketSize : Frame[i] = kept[i]
         /\ Rest \in Seq(Nat)
         /\ Len(kept) \in Nat
         /\ Len(Rest) = Len(kept) - PacketSize
         /\ \A i \in 1 .. Len(Rest) : Rest[i] = kept[i + PacketSize]
<1> DEFINE n == Len(kept)
<1>1. n \in Nat /\ PacketSize \in Nat \ {0} /\ n >= PacketSize
  BY Sizes
<1>2. \A i \in 1 .. n : kept[i] \in Nat
  OBVIOUS
<1>3. \A i \in 1 .. PacketSize : Frame[i] = kept[i]
  BY <1>1 DEF Frame
<1>4. /\ Len(Rest) = n - PacketSize
      /\ \A i \in 1 .. Len(Rest) : Rest[i] = kept[i + PacketSize]
  BY <1>1 DEF Rest
<1>5. Rest \in Seq(Nat)
  BY <1>1, <1>2 DEF Rest
<1> QED BY <1>1, <1>3, <1>4, <1>5

LEMMA Kept ==
  ASSUME kept \in Seq(Nat), NEW b \in Nat
  PROVE  /\ Append(kept, b) \in Seq(Nat)
         /\ Len(kept) \in Nat /\ Len(Append(kept, b)) = Len(kept) + 1
         /\ \A i \in 1 .. Len(kept) : Append(kept, b)[i] = kept[i]
         /\ Append(kept, b)[Len(kept) + 1] = b
OBVIOUS

\* What TypeOK says of numbers alone.
LEMMA Counts ==
  ASSUME LinkInv
  PROVE  /\ Len(kept) \in Nat /\ arrived \in Nat /\ lost \in Nat
         /\ frames \in Nat /\ sent \in Nat /\ handed \in 0 .. sent
         /\ PacketSize * sent \in Nat /\ arrived <= PacketSize * sent
         /\ PacketSize * frames \in Nat
         /\ arrived = PacketSize * frames + Len(kept) + lost
         /\ assembled \in 0 .. PacketSize - 1
         /\ Len(kept) - assembled \in 0 .. RingSize
<1>1. /\ kept \in Seq(Nat) /\ sent \in Nat /\ frames \in Nat
      /\ arrived \in 0 .. PacketSize * sent
      /\ PacketSize * sent \in Nat /\ PacketSize * frames \in Nat
  <2>1. /\ kept \in Seq(Nat) /\ sent \in 0 .. MaxSent
        /\ arrived \in 0 .. PacketSize * sent
        /\ {unsent, away, lost, frames, handlings} \subseteq Nat
    BY Zenon DEF LinkInv, TypeOK
  <2>2. sent \in Nat /\ frames \in Nat
    BY <2>1, Sizes
  <2>3. \A P, n \in Nat : P * n \in Nat
    OBVIOUS
  <2> QED BY <2>1, <2>2, <2>3, Sizes
<1>2. Len(kept) \in Nat /\ arrived \in Nat /\ arrived <= PacketSize * sent
  BY <1>1
<1>3. /\ {unsent, away, lost, frames, handlings} \subseteq Nat
      /\ handed \in 0 .. sent
      /\ arrived = PacketSize * frames + Len(kept) + lost
      /\ assembled \in 0 .. PacketSize - 1
      /\ Len(kept) - assembled \in 0 .. RingSize
  BY Zenon DEF LinkInv, TypeOK
<1>4. lost \in Nat
  BY <1>3
<1> QED BY <1>1, <1>2, <1>3, <1>4, Zenon

LEMMA Ranges ==
  ASSUME LinkInv
  PROVE  /\ sent \in 0 .. MaxSent /\ gap \in 0 .. Gap
         /\ unsent \in Nat /\ away \in Nat /\ frames \in Nat /\ handlings \in Nat
         /\ lost \in Nat
         /\ later \subseteq {"PAUSE", "MESSAGE"}
         /\ polled \in BOOLEAN /\ stuck \in BOOLEAN
<1>1. /\ sent \in 0 .. MaxSent /\ gap \in 0 .. Gap
      /\ {unsent, away, lost, frames, handlings} \subseteq Nat
      /\ later \subseteq {"PAUSE", "MESSAGE"}
      /\ polled \in BOOLEAN /\ stuck \in BOOLEAN
  BY Zenon DEF LinkInv, TypeOK
<1>2. /\ unsent \in Nat /\ away \in Nat /\ frames \in Nat
      /\ handlings \in Nat /\ lost \in Nat
  BY <1>1
<1> QED BY <1>1, <1>2, Zenon

\* Steps at which no byte comes and none is framed.
LEMMA NothingComes ==
  ASSUME LinkInv, UNCHANGED <<sent, line, kept, frames, handed, handlings>>,
         stuck' \in BOOLEAN, gap' \in 0 .. Gap, unsent' \in Nat, away' \in Nat,
         later' \subseteq {"PAUSE", "MESSAGE"}, polled' \in BOOLEAN,
         assembled' \in 0 .. PacketSize - 1,
         Len(kept) - assembled' \in 0 .. RingSize
  PROVE  LinkInv'
<1>1. /\ sent' = sent /\ arrived' = arrived /\ lost' = lost /\ kept' = kept
      /\ frames' = frames /\ handed' = handed /\ handlings' = handlings
  BY Zenon DEF line
<1>2. /\ sent' \in 0 .. MaxSent
      /\ arrived' \in 0 .. PacketSize * sent'
      /\ arrived' = PacketSize * frames' + Len(kept') + lost'
      /\ handed' \in 0 .. sent'
  BY <1>1, Zenon DEF LinkInv, TypeOK
<1>3. \A i \in 1 .. Len(kept') :
        kept'[i] \in 1 .. arrived' /\ (i > 1 => kept'[i - 1] < kept'[i])
  BY <1>1, Zenon DEF LinkInv, TypeOK
<1>4. {unsent', away', lost', frames', handlings'} \subseteq Nat
  <2>1. {unsent, away, lost, frames, handlings} \subseteq Nat
    BY Zenon DEF LinkInv, TypeOK
  <2> QED BY <1>1, <2>1
<1>5. TypeOK'
  BY <1>1, <1>2, <1>3, <1>4, Zenon DEF TypeOK
<1>6. kept' \in Seq(Nat) /\ Ordered' /\ Behind'
  BY <1>1, Zenon DEF LinkInv, Ordered, Behind, Start
<1> QED BY <1>5, <1>6, Zenon DEF LinkInv

------------------------------------------------------------------------------
(***************************************************************************)
(* The steps.                                                              *)
(***************************************************************************)
LEMMA LinkInit == Init => LinkInv
<1> SUFFICES ASSUME Init PROVE LinkInv
  OBVIOUS
<1>1. kept \in Seq(Nat) /\ Len(kept) = 0
  BY DEF Init
<1>2. PacketSize * 0 = 0
  BY Sizes
<1>3. TypeOK
  <2>1. /\ sent = 0 /\ gap = 0 /\ arrived = 0 /\ lost = 0 /\ assembled = 0
        /\ unsent = 0 /\ away = 0 /\ frames = 0 /\ handed = 0 /\ handlings = 0
        /\ later = {}
    BY DEF Init
  <2>2. polled \in BOOLEAN /\ stuck \in BOOLEAN
    BY Zenon DEF Init
  <2>3. /\ 0 \in 0 .. MaxSent /\ 0 \in 0 .. Gap /\ 0 \in 0 .. PacketSize - 1
        /\ 0 - 0 \in 0 .. RingSize
    BY Sizes
  <2>4. 0 \in 0 .. PacketSize * 0 /\ 0 = PacketSize * 0 + 0 + 0 /\ 0 \in 0 .. 0
    BY <1>2
  <2>5. \A i \in 1 .. Len(kept) : FALSE
    BY <1>1
  <2> QED BY <1>1, <2>1, <2>2, <2>3, <2>4, <2>5 DEF TypeOK
<1> QED BY <1>1, <1>3 DEF Init, LinkInv, Ordered, Behind

LEMMA SendStep == LinkInv /\ Send => LinkInv'
<1> SUFFICES ASSUME LinkInv, Send PROVE LinkInv'
  OBVIOUS
<1>1. sent \in Nat /\ arrived \in Nat /\ arrived <= PacketSize * sent
  BY Sizes DEF LinkInv, TypeOK
<1>2. PacketSize * (sent + 1) = PacketSize * sent + PacketSize
  BY <1>1, Sizes
<1>3. arrived \in 0 .. PacketSize * (sent + 1)
  BY <1>1, <1>2, Sizes
<1>4. TypeOK'
  BY <1>1, <1>3, Sizes DEF LinkInv, TypeOK, Send, line
<1> QED BY <1>4 DEF LinkInv, Ordered, Behind, Send, line

\* A byte that comes is the newest.
LEMMA SlotStep == LinkInv /\ Slot => LinkInv'
<1> SUFFICES ASSUME LinkInv, Slot PROVE LinkInv'
  OBVIOUS
<1>1. /\ polled' = FALSE
      /\ gap' = Less(gap) /\ unsent' = Less(unsent)
      /\ away' \in {away, Less(away)}
      /\ UNCHANGED <<sent, assembled, later, frames, handed, handlings, stuck>>
  BY DEF Slot
<1>2. gap' \in 0 .. Gap /\ unsent' \in Nat /\ away' \in Nat
  BY <1>1, Ranges, Sizes DEF Less
<1>3. CASE UNCHANGED <<line, kept>>
  <2>1. later' \subseteq {"PAUSE", "MESSAGE"} /\ stuck' \in BOOLEAN
    BY <1>1, Zenon DEF LinkInv, TypeOK
  <2> QED BY <1>1, <1>2, <1>3, <2>1, Counts, NothingComes DEF line
<1>4. CASE /\ arrived < PacketSize * sent /\ arrived' = arrived + 1
           /\ ~HasRoom /\ lost' = lost + 1 /\ UNCHANGED kept
  <2> DEFINE ps == PacketSize * sent
             pf == PacketSize * frames
  <2>0. /\ Len(kept) \in Nat /\ arrived \in Nat /\ lost \in Nat /\ handed \in Nat
        /\ ps \in Nat /\ pf \in Nat /\ arrived = pf + Len(kept) + lost
        /\ assembled \in Nat /\ Len(kept) - assembled \in 0 .. RingSize
        /\ PacketSize * sent' = ps /\ PacketSize * frames' = pf
    BY <1>1, Counts, Sizes
  <2>a. arrived < ps
    BY <1>4
  <2> HIDE DEF ps, pf
  <2>1. TypeOK'
    <3>1. arrived' \in 0 .. PacketSize * sent' /\ lost' \in Nat
      BY <1>4, <2>0, <2>a
    <3>2. arrived' = PacketSize * frames' + Len(kept') + lost'
      BY <1>4, <2>0
    <3>3. ASSUME NEW i \in 1 .. Len(kept')
          PROVE  kept'[i] \in 1 .. arrived' /\ (i > 1 => kept'[i - 1] < kept'[i])
      <4>1. kept[i] \in 1 .. arrived /\ (i > 1 => kept[i - 1] < kept[i])
        BY <1>4 DEF LinkInv, TypeOK
      <4>2. kept[i] \in 1 .. arrived + 1
        BY <2>0, <4>1
      <4> QED BY <1>4, <4>1, <4>2
    <3> QED BY <1>1, <1>2, <1>4, <3>1, <3>2, <3>3 DEF LinkInv, TypeOK
  <2>2. Behind'
    BY <1>1, <1>4, <2>0, Sizes DEF LinkInv, Behind, Start
  <2> QED BY <1>4, <2>1, <2>2 DEF LinkInv, Ordered
<1>5. CASE /\ arrived < PacketSize * sent /\ arrived' = arrived + 1
           /\ HasRoom /\ kept' = Append(kept, arrived + 1) /\ UNCHANGED lost
  <2> DEFINE ps == PacketSize * sent
             pf == PacketSize * frames
  <2>0. /\ Len(kept) \in Nat /\ arrived \in Nat /\ lost \in Nat /\ handed \in Nat
        /\ ps \in Nat /\ pf \in Nat /\ arrived = pf + Len(kept) + lost
        /\ assembled \in Nat /\ Len(kept) - assembled \in 0 .. RingSize
        /\ PacketSize * sent' = ps /\ PacketSize * frames' = pf
    BY <1>1, Counts, Sizes
  <2>a. arrived < ps
    BY <1>5
  <2> HIDE DEF ps, pf
  <2>1. /\ kept' \in Seq(Nat) /\ Len(kept') = Len(kept) + 1
        /\ \A i \in 1 .. Len(kept) : kept'[i] = kept[i]
        /\ kept'[Len(kept) + 1] = arrived + 1
    BY <1>5, <2>0, Kept DEF LinkInv
  <2>2. \A i \in 1 .. Len(kept) : kept[i] \in 1 .. arrived
    BY DEF LinkInv, TypeOK
  <2>3. \A i \in 1 .. Len(kept') : i \in 1 .. Len(kept) \/ i = Len(kept) + 1
    BY <2>0, <2>1
  <2>4. Ordered'
    <3> SUFFICES ASSUME NEW i \in 1 .. Len(kept'), NEW j \in 1 .. Len(kept'), i < j
                 PROVE  kept'[i] < kept'[j]
      BY DEF Ordered
    <3>1. i \in 1 .. Len(kept)
      BY <2>0, <2>1
    <3>2. CASE j \in 1 .. Len(kept)
      BY <2>1, <3>1, <3>2 DEF LinkInv, Ordered
    <3>3. CASE j = Len(kept) + 1
      BY <2>0, <2>1, <2>2, <3>1, <3>3
    <3> QED BY <2>3, <3>2, <3>3
  <2>5. TypeOK'
    <3>1. arrived' \in 0 .. PacketSize * sent'
      BY <1>5, <2>0, <2>a
    <3>2. arrived' = PacketSize * frames' + Len(kept') + lost'
      BY <1>5, <2>0, <2>1
    <3>3. ASSUME NEW i \in 1 .. Len(kept')
          PROVE  kept'[i] \in 1 .. arrived' /\ (i > 1 => kept'[i - 1] < kept'[i])
      <4>1. kept'[i] \in 1 .. arrived'
        BY <1>5, <2>0, <2>1, <2>2, <2>3
      <4>2. i > 1 => i - 1 \in 1 .. Len(kept') /\ i - 1 < i
        BY <2>0, <2>1
      <4> QED BY <2>4, <4>1, <4>2 DEF Ordered
    <3>4. Len(kept') - assembled' \in 0 .. RingSize
      BY <1>1, <1>5, <2>0, <2>1, Sizes DEF HasRoom
    <3> QED BY <1>1, <1>2, <1>5, <3>1, <3>2, <3>3, <3>4 DEF LinkInv, TypeOK
  <2>6. Behind'
    <3> SUFFICES ASSUME handed > 0
                 PROVE  /\ Start(handed) <= arrived'
                        /\ \A i \in 1 .. Len(kept') : kept'[i] > Start(handed)
      BY <1>1 DEF Behind, Start
    <3>1. Start(handed) \in Int /\ Start(handed) <= arrived
      BY <2>0, Sizes DEF LinkInv, Behind, Start
    <3> QED BY <1>5, <2>0, <2>1, <2>3, <3>1 DEF LinkInv, Behind
  <2> QED BY <2>1, <2>4, <2>5, <2>6 DEF LinkInv
<1> QED BY <1>3, <1>4, <1>5 DEF Slot, Arrive

LEMMA ReadStep == LinkInv /\ Read => LinkInv'
<1> SUFFICES ASSUME LinkInv, Read PROVE LinkInv'
  OBVIOUS
<1>1. /\ Len(kept) < PacketSize /\ polled' = TRUE /\ assembled' = Len(kept)
      /\ UNCHANGED <<pi, line, kept, unsent, away, later, frames, handed, handlings, stuck>>
  BY DEF Read
<1>2. assembled' \in 0 .. PacketSize - 1 /\ Len(kept) - assembled' \in 0 .. RingSize
  BY <1>1, Counts, Sizes
<1>3. /\ unsent \in Nat /\ away \in Nat /\ gap \in 0 .. Gap
      /\ later \subseteq {"PAUSE", "MESSAGE"} /\ stuck \in BOOLEAN
  BY Ranges
<1> QED BY <1>1, <1>2, <1>3, NothingComes DEF pi, line

LEMMA StopSteps == LinkInv /\ (AutoStop \/ Pause) => LinkInv'
<1> SUFFICES ASSUME LinkInv, AutoStop \/ Pause PROVE LinkInv'
  OBVIOUS
<1>1. /\ later' = {}
      /\ UNCHANGED <<pi, line, kept, assembled, polled, frames, handed, handlings, stuck>>
  BY DEF AutoStop, Pause
<1>2. unsent' \in Nat /\ away' \in Nat
  BY Ranges, Sizes DEF AutoStop, Pause
<1>3. /\ gap \in 0 .. Gap /\ polled \in BOOLEAN /\ stuck \in BOOLEAN
      /\ assembled \in 0 .. PacketSize - 1
      /\ Len(kept) - assembled \in 0 .. RingSize
  BY Ranges, Counts
<1> QED BY <1>1, <1>2, <1>3, NothingComes DEF pi, line

\* A frame is cut: the rest keeps its order, and lies behind the frame.
LEMMA CutStep ==
  ASSUME LinkInv, Cut, UNCHANGED <<pi, line>>
  PROVE  /\ kept' \in Seq(Nat) /\ Ordered'
         /\ frames' \in Nat
         /\ arrived' = PacketSize * frames' + Len(kept') + lost'
         /\ \A i \in 1 .. Len(kept') : kept'[i] \in 1 .. arrived'
              /\ (i > 1 => kept'[i - 1] < kept'[i])
         /\ assembled' \in 0 .. PacketSize - 1
         /\ Len(kept') - assembled' \in 0 .. RingSize
         /\ polled' = TRUE
         /\ kept[1] \in 1 .. arrived /\ Frame[1] = kept[1]
         /\ \A i \in 1 .. Len(kept') :
              kept'[i] > kept[1] /\ i + PacketSize \in 1 .. Len(kept)
              /\ kept'[i] = kept[i + PacketSize]
<1>1. /\ Len(kept) >= PacketSize /\ polled' = TRUE /\ kept' = Rest
      /\ assembled' = Len(kept) - PacketSize /\ frames' = frames + 1
      /\ arrived' = arrived /\ lost' = lost
  BY DEF Cut, pi, line
<1>2. /\ \A i \in 1 .. PacketSize : Frame[i] = kept[i]
      /\ kept' \in Seq(Nat) /\ Len(kept) \in Nat
      /\ Len(kept') = Len(kept) - PacketSize /\ Len(kept') \in Nat
      /\ \A i \in 1 .. Len(kept') : kept'[i] = kept[i + PacketSize]
  BY <1>1, FrameAndRest DEF LinkInv
<1>3. \A i \in 1 .. Len(kept) : kept[i] \in 1 .. arrived
  BY DEF LinkInv, TypeOK
<1>4. 1 \in 1 .. PacketSize /\ 1 \in 1 .. Len(kept)
  BY <1>1, <1>2, Sizes
<1>5. \A i \in 1 .. Len(kept') :
        i + PacketSize \in 1 .. Len(kept) /\ 1 < i + PacketSize
  BY <1>2, Sizes
<1>6. \A i \in 1 .. Len(kept') : kept'[i] > kept[1]
  <2> SUFFICES ASSUME NEW i \in 1 .. Len(kept') PROVE kept'[i] > kept[1]
    OBVIOUS
  <2>1. kept[1] < kept[i + PacketSize]
    BY <1>4, <1>5 DEF LinkInv, Ordered
  <2>2. \A j \in 1 .. Len(kept) : kept[j] \in Nat
    BY DEF LinkInv
  <2>3. kept[1] \in Nat /\ kept[i + PacketSize] \in Nat
    BY <1>4, <1>5, <2>2
  <2> QED BY <1>2, <2>1, <2>3
<1>7. Ordered'
  <2> SUFFICES ASSUME NEW i \in 1 .. Len(kept'), NEW j \in 1 .. Len(kept'), i < j
               PROVE  kept'[i] < kept'[j]
    BY DEF Ordered
  <2>1. i + PacketSize < j + PacketSize
    BY Sizes
  <2> QED BY <1>2, <1>5, <2>1 DEF LinkInv, Ordered
<1>8. ASSUME NEW i \in 1 .. Len(kept')
      PROVE  kept'[i] \in 1 .. arrived' /\ (i > 1 => kept'[i - 1] < kept'[i])
  <2>1. i > 1 => i - 1 \in 1 .. Len(kept') /\ i - 1 < i
    BY <1>2
  <2> QED BY <1>1, <1>2, <1>3, <1>5, <1>7, <2>1 DEF Ordered
<1>9. /\ frames' \in Nat
      /\ arrived' = PacketSize * frames' + Len(kept') + lost'
  <2>1. /\ frames \in Nat /\ lost \in Nat /\ PacketSize \in Nat
        /\ arrived = PacketSize * frames + Len(kept) + lost
    BY Counts, Sizes
  <2>2. PacketSize * (frames + 1) + (Len(kept) - PacketSize) + lost
          = PacketSize * frames + Len(kept) + lost
    BY <1>2, <2>1, OneFrameOff
  <2>3. frames + 1 \in Nat
    BY <2>1
  <2>4. arrived' = PacketSize * (frames + 1) + (Len(kept) - PacketSize) + lost
    BY <1>1, <2>1, <2>2, Zenon
  <2> QED BY <1>1, <1>2, <2>3, <2>4, Zenon
<1>10. /\ assembled' \in 0 .. PacketSize - 1
       /\ Len(kept') - assembled' \in 0 .. RingSize
  <2>1. /\ assembled \in 0 .. PacketSize - 1
        /\ Len(kept) - assembled \in 0 .. RingSize
    BY Counts
  <2>2. PacketSize \in Nat \ {0} /\ RingSize \in 1 .. PacketSize
    BY Sizes
  <2>3. Len(kept) <= PacketSize - 1 + PacketSize
    BY <1>2, <2>1, <2>2
  <2> QED BY <1>1, <1>2, <2>2, <2>3
<1> QED BY <1>1, <1>2, <1>3, <1>4, <1>5, <1>6, <1>7, <1>8, <1>9, <1>10

\* What is cut is not handled.
LEMMA RefuseStep == LinkInv /\ (Refuse \/ Hang) => LinkInv'
<1> SUFFICES ASSUME LinkInv, Refuse \/ Hang PROVE LinkInv'
  OBVIOUS
<1>1. Cut /\ UNCHANGED <<pi, line, later, handed, handlings>>
  BY DEF Refuse, Hang
<1>2. unsent' \in Nat /\ away' \in Nat /\ stuck' \in BOOLEAN
  <2>1. unsent' \in {unsent, unsent + PacketSize}
    BY DEF Refuse, Hang
  <2>2. away' \in {away, 0} \cup 0 .. LongSum
    BY DEF Refuse, Hang
  <2>3. stuck' \in BOOLEAN
    <3>1. CASE stuck' = stuck
      BY <3>1, Ranges, Zenon
    <3>2. CASE stuck' = TRUE
      BY <3>2, Zenon
    <3> QED BY <3>1, <3>2 DEF Refuse, Hang
  <2> QED BY <2>1, <2>2, <2>3, Ranges, Sizes
<1>3. UNCHANGED <<pi, line>>
  BY <1>1
<1>4. TypeOK'
  <2>1. /\ sent' = sent /\ gap' = gap /\ arrived' = arrived /\ lost' = lost
        /\ later' = later /\ handed' = handed
        /\ handlings' = handlings
    BY <1>1, Zenon DEF pi, line
  <2>2. arrived \in 0 .. PacketSize * sent /\ handed \in 0 .. sent
    BY Zenon DEF LinkInv, TypeOK
  <2>3. /\ arrived' = PacketSize * frames' + Len(kept') + lost'
        /\ \A i \in 1 .. Len(kept') : kept'[i] \in 1 .. arrived'
             /\ (i > 1 => kept'[i - 1] < kept'[i])
        /\ assembled' \in 0 .. PacketSize - 1
        /\ Len(kept') - assembled' \in 0 .. RingSize
        /\ frames' \in Nat
    BY <1>1, CutStep, Zenon
  <2>4. polled' \in BOOLEAN
    BY <1>1, CutStep
  <2>5. {unsent', away', lost', frames', handlings'} \subseteq Nat
    BY <1>2, <2>1, <2>3, Ranges
  <2> QED BY <1>2, <2>1, <2>2, <2>3, <2>4, <2>5, Ranges, Zenon DEF TypeOK
<1>5. Behind'
  <2> SUFFICES ASSUME handed > 0
               PROVE  /\ Start(handed) <= arrived
                      /\ \A i \in 1 .. Len(kept') : kept'[i] > Start(handed)
    BY <1>1 DEF Behind, Start, line
  <2>1. /\ Start(handed) <= arrived
        /\ \A i \in 1 .. Len(kept) : kept[i] > Start(handed)
    BY DEF LinkInv, Behind
  <2> QED BY <1>1, <1>3, <2>1, CutStep
<1> QED BY <1>1, <1>3, <1>4, <1>5, CutStep DEF LinkInv

\* The packet handled is a later one than the last, and one that was sent.
LEMMA HandNext ==
  ASSUME LinkInv, Handle
  PROVE  /\ handed' \in handed + 1 .. sent
         /\ kept[1] = Start(handed')
<1> DEFINE first == Frame[1]
<1>1. /\ Cut /\ UNCHANGED <<pi, line>> /\ "PACKET_OK" \in Outcomes(Frame)
      /\ handed' = Packet(first)
  BY DEF Handle
<1>2. first \in 1 .. arrived /\ first = kept[1]
  BY <1>1, CutStep
<1>3. Place(first) = 0
  <2>1. Magic(Frame)
    BY <1>1 DEF Outcomes
  <2>2. 1 \in 1 .. MagicSize
    BY Sizes
  <2>3. Place(first) = 1 - 1
    BY <2>1, <2>2 DEF Magic
  <2> QED BY <2>3
<1>4. first \in Nat \ {0} /\ first <= PacketSize * sent /\ sent \in Nat /\ handed \in Nat
  BY <1>2, Counts
<1> HIDE DEF first
<1>5. handed' \in Nat \ {0} /\ first = PacketSize * (handed' - 1) + 1
  BY <1>1, <1>3, <1>4, StartOf DEF Start
<1>6. handed' <= sent
  <2>1. PacketSize * (handed' - 1) + 1 <= PacketSize * sent
    BY <1>4, <1>5
  <2> QED BY <1>4, <1>5, <2>1, FitsIn, Sizes
<1>7. handed < handed'
  <2>1. CASE handed = 0
    BY <1>5, <2>1
  <2>2. CASE handed > 0
    <3>1. 1 \in 1 .. Len(kept)
      BY <1>1, Counts, Sizes DEF Cut
    <3>2. kept[1] > Start(handed)
      BY <2>2, <3>1 DEF LinkInv, Behind
    <3>3. PacketSize * (handed - 1) + 1 < PacketSize * (handed' - 1) + 1
      <4>1. first > PacketSize * (handed - 1) + 1
        BY <1>2, <3>2 DEF Start
      <4>2. PacketSize * (handed - 1) + 1 \in Int
        BY <1>4, Sizes
      <4> QED BY <1>4, <1>5, <4>1, <4>2
    <3>4. PacketSize \in Nat \ {0} /\ handed \in Nat \ {0} /\ handed' \in Nat \ {0}
      BY <1>4, <1>5, <2>2, Sizes
    <3>5. \A P, a, b \in Nat \ {0} :
            P * (a - 1) + 1 < P * (b - 1) + 1 => a < b
      BY StartsLater
    <3> QED BY <3>3, <3>4, <3>5, Zenon
  <2> QED BY <1>4, <2>1, <2>2
<1> QED BY <1>2, <1>4, <1>5, <1>6, <1>7 DEF Start

LEMMA HandleStep == LinkInv /\ Handle => LinkInv'
<1> SUFFICES ASSUME LinkInv, Handle PROVE LinkInv'
  OBVIOUS
<1>1. Cut /\ UNCHANGED <<pi, line>> /\ handlings' = handlings + 1
  BY DEF Handle
<1>2. unsent' \in Nat /\ away' \in Nat /\ later' \subseteq {"PAUSE", "MESSAGE"}
  <2>1. PICK job \in Jobs :
          /\ unsent' = unsent + PacketSize * job.replies
          /\ away' = job.work /\ later' = job.later
    BY DEF Handle
  <2>2. /\ job.replies \in Nat /\ job.work \in Nat
        /\ job.later \subseteq {"PAUSE", "MESSAGE"}
    BY LinkAssumption
  <2>3. unsent \in Nat
    BY DEF LinkInv, TypeOK
  <2> QED BY <2>1, <2>2, <2>3, Sizes
<1>3. handed' \in 0 .. sent /\ kept[1] = Start(handed')
  BY HandNext, Counts
<1>4. TypeOK'
  <2>1. /\ sent' \in 0 .. MaxSent /\ gap' \in 0 .. Gap
        /\ arrived' \in 0 .. PacketSize * sent' /\ handed' \in 0 .. sent'
        /\ lost' \in Nat /\ handlings' \in Nat
    <3>1. /\ sent' = sent /\ gap' = gap /\ arrived' = arrived /\ lost' = lost
      BY <1>1, Zenon DEF pi, line
    <3>2. arrived \in 0 .. PacketSize * sent
      BY Zenon DEF LinkInv, TypeOK
    <3>3. handlings' \in Nat
      BY <1>1, Ranges
    <3> QED BY <1>3, <3>1, <3>2, <3>3, Ranges, Zenon
  <2>2. {unsent', away', lost', frames', handlings'} \subseteq Nat
    BY <1>2, <2>1, CutStep, <1>1
  <2>3. polled' \in BOOLEAN /\ stuck' \in BOOLEAN
    <3>1. stuck' = stuck
      BY DEF Handle
    <3> QED BY <1>1, <3>1, CutStep, Ranges
  <2>4. /\ arrived' = PacketSize * frames' + Len(kept') + lost'
        /\ \A i \in 1 .. Len(kept') : kept'[i] \in 1 .. arrived'
             /\ (i > 1 => kept'[i - 1] < kept'[i])
        /\ assembled' \in 0 .. PacketSize - 1
        /\ Len(kept') - assembled' \in 0 .. RingSize
    BY <1>1, CutStep, Zenon
  <2> QED BY <1>2, <2>1, <2>2, <2>3, <2>4, Zenon DEF TypeOK
<1>5. Behind'
  <2>1. Start(handed') <= arrived
    BY <1>1, <1>3, CutStep, Counts
  <2> QED BY <1>1, <1>3, <2>1, CutStep DEF Behind, Start, line
<1> QED BY <1>1, <1>4, <1>5, CutStep DEF LinkInv

LEMMA LinkStep == LinkInv /\ [Next]_vars => LinkInv'
<1> SUFFICES ASSUME LinkInv, [Next]_vars PROVE LinkInv'
  OBVIOUS
<1>1. CASE UNCHANGED vars
  BY <1>1 DEF vars, pi, line, LinkInv, TypeOK, Ordered, Behind, Start
<1> QED BY <1>1, SendStep, SlotStep, ReadStep, StopSteps, RefuseStep, HandleStep
        DEF Next, Firmware

\* Every byte that came through is in a frame, in the firmware or lost, and the
\* ring keeps to its size.
THEOREM Accounted == Spec => []TypeOK
<1>1. LinkInv => TypeOK
  BY DEF LinkInv
<1> QED BY <1>1, LinkInit, LinkStep, PTL DEF Spec

------------------------------------------------------------------------------
(***************************************************************************)
(* The lossy channel.                                                      *)
(***************************************************************************)
LEMMA ChannelStep ==
  ASSUME LinkInv, [Next]_vars
  PROVE  [Channel!Next]_(Channel!channelVars)
<1>1. CASE Send
  BY <1>1 DEF Send, Channel!Next, Channel!Send
<1>2. CASE Handle
  <2>1. /\ handed' \in handed + 1 .. sent
        /\ handlings' = handlings + 1 /\ sent' = sent
    BY <1>2, HandNext DEF Handle, pi
  <2>2. Channel!Hand(handed')
    BY <2>1 DEF Channel!Hand
  <2> QED BY <2>1, <2>2 DEF Channel!Next
<1>3. CASE Slot \/ Read \/ Refuse \/ Hang \/ AutoStop \/ Pause \/ UNCHANGED vars
  BY <1>3 DEF Slot, Read, Refuse, Hang, AutoStop, Pause, vars, pi, Channel!channelVars
<1> QED BY <1>1, <1>2, <1>3 DEF Next, Firmware

\* Whatever the line loses and the firmware accepts by accident, a packet is
\* handled at most once and in the order sent.
THEOREM ChannelRefinement == Spec => Refines
<1>1. Init => Channel!Init
  BY DEF Init, Channel!Init
<1>2. LinkInv /\ [Next]_vars => [Channel!Next]_(Channel!channelVars)
  BY ChannelStep
<1> QED BY <1>1, <1>2, LinkInit, LinkStep, PTL DEF Spec, Refines, Channel!Spec

------------------------------------------------------------------------------
(***************************************************************************)
(* Out of step.                                                            *)
(***************************************************************************)
LEMMA NoMagic ==
  ASSUME LinkInv, OutOfStep, Cut
  PROVE  ~Magic(Frame)
<1>1. Len(kept) >= PacketSize /\ Len(kept) \in Nat /\ 1 \in 1 .. Len(kept)
  BY Counts, Sizes DEF Cut
<1>2. kept[1] = arrived - Len(kept) + 1
  BY <1>1 DEF OutOfStep
<1>3. kept[1] - 1 = PacketSize * frames + lost
  BY <1>1, <1>2, Counts
<1>4. (kept[1] - 1) % PacketSize = lost % PacketSize
  <2>1. frames \in Nat /\ lost \in Nat /\ PacketSize \in Nat \ {0}
    BY Counts, Sizes
  <2>2. (PacketSize * frames + lost) % PacketSize = lost % PacketSize
    BY <2>1, WholePackets
  <2> QED BY <1>3, <2>2
<1>5. Place(kept[1]) # 0
  BY <1>4 DEF Place, OutOfStep
<1>6. Frame[1] = kept[1] /\ 1 \in 1 .. MagicSize
  BY <1>1, FrameAndRest, Sizes DEF LinkInv
<1>7. SUFFICES ASSUME Magic(Frame) PROVE FALSE
  OBVIOUS
<1>8. Place(Frame[1]) = 1 - 1
  BY <1>6, <1>7 DEF Magic
<1> QED BY <1>5, <1>6, <1>8

LEMMA NeverBack ==
  ASSUME LinkInv, [Next]_vars, OutOfStep, lost' = lost
  PROVE  OutOfStep' /\ handlings' = handlings
<1>1. CASE Send
  BY <1>1 DEF Send, OutOfStep, line
<1>2. CASE Slot
  <2>1. handlings' = handlings
    BY <1>2 DEF Slot
  <2>2. CASE UNCHANGED <<line, kept>>
    BY <2>1, <2>2 DEF OutOfStep, line
  <2>3. CASE arrived' = arrived + 1 /\ kept' = Append(kept, arrived + 1)
    <3>1. /\ Len(kept) \in Nat /\ arrived \in Nat
          /\ Len(kept') = Len(kept) + 1
          /\ \A i \in 1 .. Len(kept) : kept'[i] = kept[i]
          /\ kept'[Len(kept) + 1] = arrived + 1
      BY <2>3, Counts, Kept DEF LinkInv
    <3>2. ASSUME NEW i \in 1 .. Len(kept')
          PROVE  kept'[i] = arrived' - Len(kept') + i
      <4>1. CASE i \in 1 .. Len(kept)
        BY <2>3, <3>1, <4>1 DEF OutOfStep
      <4>2. CASE i = Len(kept) + 1
        BY <2>3, <3>1, <4>2
      <4> QED BY <3>1, <4>1, <4>2
    <3> QED BY <2>1, <3>2 DEF OutOfStep
  <2>4. CASE lost' = lost + 1
    BY <2>4, Counts
  <2> QED BY <1>2, <2>2, <2>3, <2>4 DEF Slot, Arrive
<1>3. CASE Read \/ AutoStop \/ Pause \/ UNCHANGED vars
  BY <1>3 DEF Read, AutoStop, Pause, vars, line, OutOfStep
<1>4. CASE Handle
  <2>1. Cut /\ "PACKET_OK" \in Outcomes(Frame)
    BY <1>4 DEF Handle
  <2>2. Magic(Frame)
    BY <2>1 DEF Outcomes
  <2> QED BY <2>1, <2>2, NoMagic
<1>5. CASE Refuse \/ Hang
  <2>1. Cut /\ UNCHANGED <<pi, line>> /\ arrived' = arrived /\ handlings' = handlings
    BY <1>5 DEF Refuse, Hang, line
  <2>2. Len(kept') = Len(kept) - PacketSize /\ Len(kept) \in Nat
    BY <2>1, FrameAndRest DEF Cut, LinkInv
  <2>3. ASSUME NEW i \in 1 .. Len(kept')
        PROVE  kept'[i] = arrived' - Len(kept') + i
    <3>1. i + PacketSize \in 1 .. Len(kept) /\ kept'[i] = kept[i + PacketSize]
      BY <2>1, CutStep
    <3>2. kept[i + PacketSize] = arrived - Len(kept) + (i + PacketSize)
      BY <3>1 DEF OutOfStep
    <3>3. arrived \in Nat /\ PacketSize \in Nat
      BY Counts, Sizes
    <3> QED BY <2>1, <2>2, <3>1, <3>2, <3>3
  <2> QED BY <2>1, <2>3 DEF OutOfStep
<1> QED BY <1>1, <1>2, <1>3, <1>4, <1>5 DEF Next, Firmware

\* Framing by count never finds its way back: out of step, nothing is handled
\* until more bytes are lost.
THEOREM OutOfStepForGood == Spec => StaysOutOfStep
<1>1. LinkInv /\ [Next]_vars
        => ((OutOfStep /\ lost' = lost) => (OutOfStep' /\ handlings' = handlings))
  BY NeverBack
<1> QED BY <1>1, LinkInit, LinkStep, PTL DEF Spec, StaysOutOfStep
------------------------------------------------------------------------------
(***************************************************************************)
(* A pace at which nothing is lost.                                        *)
(***************************************************************************)

\* Slots until the loop takes its next turn.
Busy == Excess(unsent) + away

\* Every packet sent is framed, and the loop is back by the time the next one
\* fills the ring.
Quiet ==
  /\ sent = frames
  /\ Len(kept) = 0
  /\ Busy <= gap + RingSize

\* Bytes of the packet under way that have not come yet.
ToCome == PacketSize - Len(kept)

\* One packet is on the line, and the loop is back before the ring is full.
UnderWay ==
  /\ sent = frames + 1
  /\ ToCome >= 0
  /\ gap = Gap - PacketSize + ToCome
  /\ Busy <= ToCome
  /\ unsent <= ToCome
  /\ Len(kept) - assembled + Busy <= RingSize
  /\ ToCome = 0 => ~polled

\* The bytes of the firmware are the last that came.
Consecutive == \A i \in 1 .. Len(kept) : kept[i] = arrived - Len(kept) + i

PaceInv ==
  /\ LinkInv
  /\ lost = 0
  /\ ~stuck
  /\ later = {}
  /\ handed = frames
  /\ handlings = frames
  /\ Consecutive
  /\ polled => assembled = Len(kept)
  /\ Quiet \/ UnderWay

LEMMA WholeQuotient ==
  ASSUME NEW P \in Nat \ {0}, NEW q \in Nat
  PROVE  (P * q) \div P = q
BY SMT

\* The numbers of a state, without their products.
Numbers ==
  /\ PacketSize \in Nat \ {0} /\ RingSize \in 1 .. PacketSize
  /\ TxSize \in Nat /\ Gap \in Nat
  /\ sent \in Nat /\ frames \in Nat /\ gap \in Nat
  /\ unsent \in Nat /\ away \in Nat /\ Busy \in Nat
  /\ Len(kept) \in Nat /\ assembled \in Nat /\ ToCome \in Int

LEMMA PaceNumbers ==
  ASSUME PaceInv
  PROVE  Numbers
<1>1. LinkInv
  BY Zenon DEF PaceInv
<1>2. /\ PacketSize \in Nat \ {0} /\ RingSize \in 1 .. PacketSize
      /\ TxSize \in Nat /\ Gap \in Nat
      /\ sent \in Nat /\ frames \in Nat /\ gap \in 0 .. Gap
      /\ unsent \in Nat /\ away \in Nat
      /\ Len(kept) \in Nat /\ assembled \in 0 .. PacketSize - 1
  BY <1>1, Sizes, Counts, Ranges, Zenon
<1> QED BY <1>2 DEF Numbers, Busy, Excess, ToCome

\* The loop takes its turn when nothing is to come before it.
LEMMA IdleIsNotBusy ==
  ASSUME Numbers, ~stuck
  PROVE  /\ Idle <=> Busy = 0
         /\ unsent <= TxSize + Busy
BY DEF Numbers, Busy, Excess, Idle

LEMMA PaceInit == Init => PaceInv
<1> SUFFICES ASSUME Init PROVE PaceInv
  OBVIOUS
<1>1. LinkInv
  BY LinkInit
<1>2. Len(kept) = 0 /\ unsent = 0 /\ away = 0 /\ gap = 0 /\ polled = FALSE
  BY DEF Init
<1>3. Quiet
  BY <1>2, Sizes DEF Init, Quiet, Busy, Excess
<1> QED BY <1>1, <1>2, <1>3 DEF Init, PaceInv, Consecutive

\* The Pi sends when the last packet is framed.
LEMMA PaceSend ==
  ASSUME Paced, PaceInv, Send
  PROVE  PaceInv'
<1>0. Numbers
  BY PaceNumbers
<1>1. /\ gap = 0 /\ sent' = sent + 1 /\ gap' = Gap
      /\ arrived' = arrived /\ lost' = lost /\ kept' = kept
      /\ assembled' = assembled /\ unsent' = unsent /\ away' = away
      /\ later' = later /\ polled' = polled /\ frames' = frames
      /\ handed' = handed /\ handlings' = handlings /\ stuck' = stuck
  BY DEF Send, line
<1>2. Quiet
  BY <1>0, <1>1 DEF Numbers, PaceInv, UnderWay, Paced
<1>3. UnderWay'
  <2>1. /\ ToCome' = PacketSize - Len(kept) /\ Busy' = Busy
    BY <1>1 DEF ToCome, Busy, Excess
  <2>2. sent = frames /\ Len(kept) = 0 /\ Busy <= RingSize
    BY <1>0, <1>1, <1>2 DEF Numbers, Quiet
  <2>3. unsent <= PacketSize
    BY <1>0, <2>2, IdleIsNotBusy DEF Numbers, Paced, PaceInv
  <2> QED BY <1>0, <1>1, <2>1, <2>2, <2>3 DEF Numbers, UnderWay
<1>4. LinkInv'
  BY SendStep DEF PaceInv
<1> QED BY <1>1, <1>3, <1>4 DEF PaceInv, Consecutive

\* A slot brings the loop nearer to its next turn.
LEMMA SlotNumbers ==
  ASSUME PaceInv, Slot
  PROVE  /\ sent' = sent /\ frames' = frames /\ assembled' = assembled
         /\ handed' = handed /\ handlings' = handlings /\ later' = later
         /\ polled' = FALSE /\ stuck' = stuck
         /\ gap' = Less(gap) /\ unsent' = Less(unsent) /\ Busy' = Less(Busy)
<1>0. Numbers
  BY PaceNumbers
<1>1. /\ sent' = sent /\ frames' = frames /\ assembled' = assembled
      /\ handed' = handed /\ handlings' = handlings /\ later' = later
      /\ polled' = FALSE /\ stuck' = stuck
      /\ gap' = Less(gap) /\ unsent' = Less(unsent)
      /\ away' = IF unsent > TxSize THEN away ELSE Less(away)
  BY DEF Slot
<1>2. unsent \in Nat /\ away \in Nat /\ TxSize \in Nat
  BY <1>0 DEF Numbers
<1>3. Busy' = Less(Busy)
  BY <1>1, <1>2 DEF Busy, Excess, Less
<1> QED BY <1>1, <1>3

LEMMA PaceSlot ==
  ASSUME Paced, PaceInv, Slot
  PROVE  PaceInv'
<1>0. Numbers
  BY PaceNumbers
<1>1. LinkInv /\ LinkInv'
  BY SlotStep DEF PaceInv
<1>a. ~stuck'
  <2>1. stuck' = stuck
    BY SlotNumbers
  <2>2. ~stuck
    BY DEF PaceInv
  <2> QED BY <2>1, <2>2, Zenon
<1>2. CASE Quiet
  <2>1. UNCHANGED <<line, kept>>
    <3>1. arrived = PacketSize * frames + Len(kept) + lost
      BY <1>1, Counts
    <3>2. PacketSize * frames \in Nat
      BY <1>1, Counts
    <3>3. sent = frames /\ Len(kept) = 0 /\ lost = 0
      BY <1>2 DEF Quiet, PaceInv
    <3>4. arrived = PacketSize * frames
      BY <3>1, <3>2, <3>3
    <3>5. arrived = PacketSize * sent
      BY <3>3, <3>4, Zenon
    <3>6. ~(arrived < PacketSize * sent)
      BY <3>2, <3>4, <3>5
    <3> QED BY <3>6, Zenon DEF Slot, Arrive
  <2>2. Quiet'
    BY <1>2, <2>1, SlotNumbers, <1>0 DEF Numbers, Quiet, Less
  <2> QED BY <1>1, <1>a, <2>1, <2>2, SlotNumbers DEF PaceInv, Consecutive, line
<1>3. CASE UnderWay
  <2>1. polled => assembled = Len(kept)
    BY DEF PaceInv
  <2>2. polled \/ Busy >= 1
    BY <1>0, IdleIsNotBusy DEF Numbers, Slot, PaceInv
  <2>3. ToCome >= 1
    BY <1>0, <1>3, <2>2 DEF Numbers, UnderWay
  <2>4. arrived < PacketSize * sent
    <3>1. arrived = PacketSize * frames + Len(kept) + lost /\ lost = 0
      BY <1>1, Counts DEF PaceInv
    <3>2. PacketSize * frames \in Nat
      BY <1>1, Counts
    <3>3. PacketSize * (frames + 1) = PacketSize * frames + PacketSize
      BY <1>0 DEF Numbers
    <3>4. sent = frames + 1
      BY <1>3 DEF UnderWay
    <3>5. PacketSize * sent = PacketSize * frames + PacketSize
      BY <3>3, <3>4, Zenon
    <3>6. Len(kept) < PacketSize
      BY <1>0, <2>3 DEF Numbers, ToCome
    <3> DEFINE begun == PacketSize * frames
               due == PacketSize * sent
    <3>7. /\ begun \in Nat /\ arrived = begun + Len(kept) + 0
          /\ due = begun + PacketSize
      BY <3>1, <3>2, <3>5, Zenon
    <3>8. Len(kept) \in Nat /\ PacketSize \in Nat
      BY <1>0 DEF Numbers
    <3> HIDE DEF begun, due
    <3>9. arrived < due
      BY <3>6, <3>7, <3>8
    <3> QED BY <3>9 DEF due
  <2>5. HasRoom
    BY <1>0, <1>3, <2>1, <2>2 DEF Numbers, HasRoom, UnderWay
  <2>6. arrived' = arrived + 1 /\ kept' = Append(kept, arrived + 1) /\ lost' = lost
    <3>1. ~(arrived = PacketSize * sent)
      BY <2>4, <1>1, Counts
    <3> QED BY <3>1, <2>5 DEF Slot, Arrive
  <2>7. /\ Len(kept) \in Nat /\ arrived \in Nat
        /\ Len(kept') = Len(kept) + 1
        /\ \A i \in 1 .. Len(kept) : kept'[i] = kept[i]
        /\ kept'[Len(kept) + 1] = arrived + 1
    BY <1>1, <2>6, Counts, Kept DEF LinkInv
  <2>8. Consecutive'
    <3> SUFFICES ASSUME NEW i \in 1 .. Len(kept')
                 PROVE  kept'[i] = arrived' - Len(kept') + i
      BY DEF Consecutive
    <3>1. CASE i \in 1 .. Len(kept)
      BY <2>6, <2>7, <3>1 DEF PaceInv, Consecutive
    <3>2. CASE i = Len(kept) + 1
      BY <2>6, <2>7, <3>2
    <3> QED BY <2>7, <3>1, <3>2
  <2>9. UnderWay'
    <3>1. ToCome' = ToCome - 1
      BY <1>0, <2>7 DEF Numbers, ToCome
    <3>2. gap >= 1
      BY <1>0, <1>3, <2>3 DEF Numbers, UnderWay, Paced
    <3>3. Len(kept') - assembled' + Busy' <= RingSize
      <4>1. /\ Len(kept') = Len(kept) + 1 /\ assembled' = assembled
            /\ Busy' = IF Busy > 0 THEN Busy - 1 ELSE 0
        BY <2>7, SlotNumbers DEF Less
      <4>2. /\ Len(kept) \in Nat /\ assembled \in Nat /\ Busy \in Nat
            /\ RingSize \in Nat \ {0}
        BY <1>0 DEF Numbers
      <4>3. Len(kept) - assembled + Busy <= RingSize
        BY <1>3 DEF UnderWay
      <4>4. CASE Busy >= 1
        BY <4>1, <4>2, <4>3, <4>4
      <4>5. CASE Busy = 0
        BY <2>1, <2>2, <4>1, <4>2, <4>5
      <4> QED BY <4>2, <4>4, <4>5
    <3>4. /\ sent = frames + 1 /\ gap = Gap - PacketSize + ToCome
          /\ Busy <= ToCome /\ unsent <= ToCome
      BY <1>3 DEF UnderWay
    <3>5. /\ sent' = frames' + 1 /\ gap' = gap - 1
          /\ Busy' <= ToCome - 1 /\ unsent' <= ToCome - 1
      <4>1. /\ sent' = sent /\ frames' = frames
            /\ gap' = IF gap > 0 THEN gap - 1 ELSE 0
            /\ unsent' = IF unsent > 0 THEN unsent - 1 ELSE 0
            /\ Busy' = IF Busy > 0 THEN Busy - 1 ELSE 0
        BY SlotNumbers DEF Less
      <4>2. gap \in Nat /\ unsent \in Nat /\ Busy \in Nat /\ ToCome \in Int
        BY <1>0 DEF Numbers
      <4> QED BY <2>3, <3>2, <3>4, <4>1, <4>2
    <3>6. ToCome' >= 0 /\ gap' = Gap - PacketSize + ToCome'
      BY <1>0, <2>3, <3>1, <3>4, <3>5 DEF Numbers
    <3>7. ~polled'
      BY SlotNumbers
    <3> QED BY <3>1, <3>3, <3>5, <3>6, <3>7 DEF UnderWay
  <2> QED BY <1>1, <1>a, <2>6, <2>8, <2>9, SlotNumbers DEF PaceInv
<1> QED BY <1>2, <1>3 DEF PaceInv

LEMMA PaceRead ==
  ASSUME PaceInv, Read
  PROVE  PaceInv'
<1>0. Numbers
  BY PaceNumbers
<1>1. /\ Idle /\ Len(kept) < PacketSize
      /\ polled' = TRUE /\ assembled' = Len(kept)
      /\ sent' = sent /\ gap' = gap /\ arrived' = arrived /\ lost' = lost
      /\ kept' = kept /\ unsent' = unsent /\ away' = away /\ later' = later
      /\ frames' = frames /\ handed' = handed /\ handlings' = handlings
      /\ stuck' = stuck
  BY DEF Read, pi, line
<1>2. LinkInv'
  BY ReadStep DEF PaceInv
<1>3. Busy' = Busy /\ ToCome' = ToCome /\ Busy = 0
  BY <1>0, <1>1, IdleIsNotBusy DEF Busy, Excess, ToCome, PaceInv
<1>4. Quiet => Quiet'
  BY <1>1, <1>3 DEF Quiet
<1>5. UnderWay => UnderWay'
  <2>1. ToCome > 0
    BY <1>0, <1>1 DEF Numbers, ToCome
  <2> QED BY <1>0, <1>1, <1>3, <2>1 DEF Numbers, UnderWay
<1> QED BY <1>1, <1>2, <1>4, <1>5 DEF PaceInv, Consecutive

\* What is cut is the packet under way, whole.
LEMMA CutWhole ==
  ASSUME PaceInv, Cut
  PROVE  /\ UnderWay /\ Len(kept) = PacketSize /\ unsent = 0
         /\ gap = Gap - PacketSize
         /\ Outcomes(Frame) = {"PACKET_OK"}
         /\ Packet(Frame[1]) = frames + 1
<1>0. Numbers
  BY PaceNumbers
<1>1. Idle /\ Len(kept) >= PacketSize
  BY DEF Cut
<1>2. UnderWay
  BY <1>0, <1>1 DEF Numbers, PaceInv, Quiet
<1>3. /\ Len(kept) = PacketSize /\ unsent = 0 /\ gap = Gap - PacketSize
  BY <1>0, <1>1, <1>2 DEF Numbers, UnderWay, ToCome
<1>4. arrived = PacketSize * frames + PacketSize /\ PacketSize * frames \in Nat
  <2>1. /\ arrived = PacketSize * frames + Len(kept) + lost
        /\ PacketSize * frames \in Nat
    BY Counts DEF PaceInv
  <2>2. lost = 0
    BY DEF PaceInv
  <2> QED BY <1>0, <1>3, <2>1, <2>2 DEF Numbers
<1>5. \A i \in 1 .. PacketSize : Frame[i] = PacketSize * frames + i
  <2> SUFFICES ASSUME NEW i \in 1 .. PacketSize
               PROVE  Frame[i] = PacketSize * frames + i
    OBVIOUS
  <2>1. Frame[i] = kept[i]
    BY <1>1, FrameAndRest DEF PaceInv, LinkInv
  <2>2. kept[i] = arrived - PacketSize + i
    BY <1>3 DEF PaceInv, Consecutive
  <2> QED BY <1>0, <1>4, <2>1, <2>2 DEF Numbers
<1>6. 1 \in 1 .. PacketSize /\ Frame[1] = PacketSize * frames + 1
  BY <1>0, <1>5 DEF Numbers
<1>7. Magic(Frame)
  <2> SUFFICES ASSUME NEW i \in 1 .. MagicSize
               PROVE  Place(Frame[i]) = i - 1
    BY DEF Magic
  <2>1. i \in 1 .. PacketSize /\ i - 1 \in 0 .. PacketSize - 1
    BY Sizes
  <2>2. Frame[i] - 1 = PacketSize * frames + (i - 1)
    BY <1>4, <1>5, <2>1
  <2>3. (PacketSize * frames + (i - 1)) % PacketSize = i - 1
    <3>1. PacketSize \in Nat \ {0} /\ frames \in Int
      BY <1>0 DEF Numbers
    <3> QED BY <2>1, <3>1, SameRemainder
  <2> QED BY <2>2, <2>3 DEF Place
<1>8. Whole(Frame)
  <2> DEFINE start == PacketSize * frames
  <2>1. start \in Nat /\ Frame[1] = start + 1
        /\ \A i \in 1 .. PacketSize : Frame[i] = start + i
    BY <1>4, <1>5, <1>6
  <2> HIDE DEF start
  <2> QED BY <1>0, <2>1 DEF Numbers, Whole
<1>9. Packet(Frame[1]) = frames + 1
  <2>1. Frame[1] - 1 = PacketSize * frames
    BY <1>4, <1>6
  <2>2. (PacketSize * frames) \div PacketSize = frames
    BY <1>0, WholeQuotient DEF Numbers
  <2> QED BY <2>1, <2>2 DEF Packet
<1> QED BY <1>2, <1>3, <1>7, <1>8, <1>9 DEF Outcomes

LEMMA PaceHandle ==
  ASSUME Paced, PaceInv, Handle
  PROVE  PaceInv'
<1>0. Numbers
  BY PaceNumbers
<1>1. /\ Cut /\ polled' = TRUE /\ kept' = Rest
      /\ assembled' = Len(kept) - PacketSize /\ frames' = frames + 1
      /\ handed' = Packet(Frame[1]) /\ handlings' = handlings + 1
      /\ sent' = sent /\ gap' = gap /\ arrived' = arrived /\ lost' = lost
      /\ stuck' = stuck
  BY DEF Handle, Cut, pi, line
<1>2. PICK job \in Jobs :
        /\ unsent' = unsent + PacketSize * job.replies
        /\ away' = job.work
        /\ later' = job.later
  BY DEF Handle
<1>3. LinkInv /\ LinkInv'
  BY HandleStep DEF PaceInv
<1>4. /\ UnderWay /\ Len(kept) = PacketSize /\ unsent = 0
      /\ gap = Gap - PacketSize /\ Packet(Frame[1]) = frames + 1
  BY <1>1, CutWhole
<1>5. Len(kept') = 0
  BY <1>1, <1>3, <1>4, FrameAndRest, <1>0 DEF Numbers, LinkInv
<1>6. /\ later' = {}
      /\ Busy' <= Gap - PacketSize + RingSize
  <2>1. /\ job.later = {}
        /\ Excess(PacketSize * job.replies) + job.work <= Gap - PacketSize + RingSize
    BY DEF Paced
  <2>2. PacketSize * job.replies \in Nat
    <3>1. job.replies \in Nat /\ PacketSize \in Nat
      BY LinkAssumption
    <3> QED BY <3>1
  <2>3. unsent' = PacketSize * job.replies
    BY <1>2, <1>4, <2>2
  <2>4. Busy' = Excess(PacketSize * job.replies) + job.work
    BY <1>2, <2>3, Zenon DEF Busy, Excess
  <2> QED BY <1>2, <2>1, <2>4
<1>7. Quiet'
  BY <1>0, <1>1, <1>4, <1>5, <1>6 DEF Numbers, Quiet, UnderWay
<1>8. Consecutive'
  BY <1>5 DEF Consecutive
<1>9. polled' => assembled' = Len(kept')
  BY <1>0, <1>1, <1>4, <1>5 DEF Numbers
<1> QED BY <1>1, <1>3, <1>4, <1>6, <1>7, <1>8, <1>9 DEF PaceInv

LEMMA PaceStep ==
  ASSUME Paced, PaceInv, [Next]_vars
  PROVE  PaceInv'
<1>1. CASE Refuse \/ Hang
  <2>1. Cut /\ Outcomes(Frame) \cap {"PACKET_BAD", "PACKET_CHECKSUM_BAD", "NONE"} # {}
    BY <1>1 DEF Refuse, Hang
  <2> QED BY <2>1, CutWhole
<1>2. CASE AutoStop \/ Pause
  BY <1>2 DEF AutoStop, Pause, PaceInv
<1>3. CASE UNCHANGED vars
  <2>1. LinkInv'
    BY <1>3, LinkStep DEF PaceInv
  <2> QED BY <1>3, <2>1 DEF vars, pi, line, PaceInv, Consecutive, Quiet, UnderWay,
               Busy, Excess, ToCome
<1> QED BY <1>1, <1>2, <1>3, PaceSend, PaceSlot, PaceRead, PaceHandle
        DEF Next, Firmware

LEMMA PaceInvariant ==
  ASSUME Paced
  PROVE  Spec => []PaceInv
<1>1. PaceInv /\ [Next]_vars => PaceInv'
  BY PaceStep
<1> QED BY <1>1, PaceInit, PTL DEF Spec

\* At a pace the jobs leave time for, no byte finds the ring full: "Commands
\* every 1 second" (alex-pi.cpp:42-46) for every size of packets and rings.  The
\* pace of mode 4 leaves none for a colour reading that moves the arm.
THEOREM PacedNothingLost ==
  ASSUME Paced
  PROVE  Spec => []NothingLost
<1>1. PaceInv => NothingLost
  BY DEF PaceInv, NothingLost
<1> QED BY <1>1, PaceInvariant, PTL

\* At such a pace the firmware handles every packet, once, before the Pi sends
\* the next.
THEOREM PacedInTurn ==
  ASSUME Paced
  PROVE  Spec => []EachInTurn
<1>1. PaceInv => EachInTurn
  <2> SUFFICES ASSUME PaceInv PROVE EachInTurn
    OBVIOUS
  <2>1. handed = frames /\ handlings = frames
    BY DEF PaceInv
  <2>2. sent = frames \/ sent = frames + 1
    BY DEF PaceInv, Quiet, UnderWay
  <2>3. frames \in Nat
    BY PaceNumbers DEF Numbers
  <2> QED BY <2>1, <2>2, <2>3 DEF EachInTurn
<1> QED BY <1>1, PaceInvariant, PTL
=============================================================================
