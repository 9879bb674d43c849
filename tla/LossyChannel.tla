---------------------------- MODULE LossyChannel ----------------------------
(***************************************************************************)
(* What the operator may count on between sendPacket() on the Pi and       *)
(* handlePacket() in the firmware: a packet is handled at most once and    *)
(* in the order sent, and any packet may be lost.                          *)
(***************************************************************************)
EXTENDS Naturals

CONSTANT MaxSent  \* bound of the model: packets sent

VARIABLES
  sent,     \* packets sent; they are numbered from 1
  handed,   \* number of the last packet handled, 0 before the first
  handlings \* how many were handled

channelVars == <<sent, handed, handlings>>

Init ==
  /\ sent = 0
  /\ handed = 0
  /\ handlings = 0

Send ==
  /\ sent < MaxSent
  /\ sent' = sent + 1
  /\ UNCHANGED <<handed, handlings>>

\* The packets between the last one handled and this one are lost.
Hand(n) ==
  /\ handed' = n
  /\ handlings' = handlings + 1
  /\ UNCHANGED sent

Next == Send \/ \E n \in handed + 1 .. sent : Hand(n)

Spec == Init /\ [][Next]_channelVars
=============================================================================
