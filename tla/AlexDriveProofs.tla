-------------------------- MODULE AlexDriveProofs --------------------------
(***************************************************************************)
(* Alex implements Drive, for every value of the constants.  What has to   *)
(* be shown is that only a move with a limit, or one the guard watches,    *)
(* ever ends by itself: the target of every other move is so far away that *)
(* no counter reaches it, not even one that is read torn.                  *)
(***************************************************************************)
EXTENDS AlexProofs

\* The target of a move without a limit is out of reach.
OutOfReach ==
  (pc # "arm" /\ limit = 0) =>
    /\ (dir \in Straight /\ deltaDist > 0) => newDist >= NoLimitDist
    /\ (dir \in Turns /\ deltaTicks > 0) => targetTicks >= NoLimitTicks

DriveInv == IInv /\ OutOfReach

------------------------------------------------------------------------------
(***************************************************************************)
(* The steps by what they do to a target.                                  *)
(***************************************************************************)
LEMMA StepKinds ==
  ASSUME [Next]_vars
  PROVE  \/ /\ pc # "arm" /\ pc' # "arm"
            /\ UNCHANGED <<dir, limit, targets>>
         \/ pc = "arm" /\ pc' = "arm" /\ UNCHANGED <<dir, limit, targets, cmd>>
         \/ pc' # "arm" /\ dir' = STOP
         \/ pc' # "arm" /\ deltaDist' = 0 /\ deltaTicks' = 0
         \/ \E p \in Packets : HandleMove(p)
         \/ Arm
<1>1. CASE UNCHANGED vars
  BY <1>1 DEF vars, motion, targets, history
<1>2. CASE leftISR \/ rightISR
  BY <1>2 DEF leftISR, rightISR, motion
<1>3. CASE Sonar
  BY <1>3 DEF Sonar, AutoStop, PathClear, stop, motion, history
<1>4. CASE DistLow \/ DistHigh \/ DistPause
  BY <1>4 DEF DistLow, DistHigh, DistPause, stop, motion, history
<1>5. CASE TicksLow \/ TicksHigh \/ TicksPause
  BY <1>5 DEF TicksLow, TicksHigh, TicksPause, stop, motion, history
<1>6. CASE NothingRead \/ BadRead
  BY <1>6 DEF NothingRead, BadRead, motion, history
<1>7. ASSUME NEW p \in Packets,
             IgnorePacket(p) \/ HandleBadCommand(p) \/ HandleReport(p)
      PROVE  pc # "arm" /\ pc' # "arm" /\ UNCHANGED <<dir, limit, targets>>
  BY <1>7 DEF IgnorePacket, HandleBadCommand, HandleReport, Receive, motion,
              history
<1>8. ASSUME NEW p \in Packets, HandleStop(p)
      PROVE  pc' # "arm" /\ dir' = STOP
  BY <1>8 DEF HandleStop, stop
<1>9. ASSUME NEW p \in Packets, HandleClear(p)
      PROVE  pc # "arm" /\ pc' # "arm" /\ UNCHANGED <<dir, limit, targets>>
  BY <1>9 DEF HandleClear, Receive, motion, history
<1>10. CASE ClearTargets
  BY <1>10 DEF ClearTargets
<1>11. CASE TimeUp
  BY <1>11 DEF TimeUp, stop
<1> QED
  BY <1>1, <1>2, <1>3, <1>4, <1>5, <1>6, <1>7, <1>8, <1>9, <1>10, <1>11
  DEF Next, Loop, INT2_vect, INT3_vect, Handle

LEMMA InitDriveInv == Init => DriveInv
BY InitIInv DEF Init, DriveInv, OutOfReach, STOP, Straight, Turns,
   FORWARD, BACKWARD, LEFT, RIGHT

LEMMA TickRange ==
  ASSUME IInv, NEW d \in Turns
  PROVE  TurnCounter(d) \in Nat /\ TurnCounter(d) <= MaxTicks
BY Constants DEF IInv, TypeOK, TurnCounter, Turns, Moves

\* A movement command without a limit.
LEMMA NoLimit ==
  ASSUME NEW p \in Packets, p.type \in CommandTypes, Limit(p) = 0
  PROVE  /\ p.op \in Straight => Distances(p) = {NoLimitDist}
         /\ p.op \in Turns => Ticks(p) = NoLimitTicks
<1>1. p.params[1] \in Nat
  BY PacketsAssumption, Constants
<1>2. Ticks(p) \in Nat \ {0}
  BY PacketNumbers
<1>3. p.type = "PARAM" /\ p.op \in Straight => p.params[1] = 0
  BY DEF Limit
<1>4. p.type = "PARAM" => p.op \in Straight
  BY <1>2 DEF Limit
<1> QED BY <1>1, <1>3, <1>4, Disjoint DEF Distances, Ticks

LEMMA StepDriveInv == DriveInv /\ [Next]_vars => DriveInv'
<1> SUFFICES ASSUME DriveInv, [Next]_vars PROVE OutOfReach'
  BY StepIInv DEF DriveInv
<1>1. CASE pc # "arm" /\ pc' # "arm" /\ UNCHANGED <<dir, limit, targets>>
  BY <1>1 DEF DriveInv, OutOfReach, targets
<1>2. CASE pc = "arm" /\ pc' = "arm" /\ UNCHANGED <<dir, limit, targets, cmd>>
  BY <1>2 DEF DriveInv, OutOfReach, targets
<1>3. CASE pc' # "arm" /\ dir' = STOP
  BY <1>3, Disjoint DEF OutOfReach
<1>4. CASE pc' # "arm" /\ deltaDist' = 0 /\ deltaTicks' = 0
  BY <1>4 DEF OutOfReach
<1>5. ASSUME NEW p \in Packets, HandleMove(p) PROVE OutOfReach'
  BY <1>5 DEF HandleMove, OutOfReach
<1>6. CASE Arm
  <2>1. /\ pc = "arm" /\ cmd \in Packets /\ cmd.type \in CommandTypes
        /\ cmd.op \in Straight => low <= dist[cmd.op]
        /\ cmd.op \in Turns => low <= TurnCounter(cmd.op)
        /\ low \in Nat
    BY <1>6 DEF Arm, DriveInv, IInv, ReadInProgress, TypeOK
  <2>2. pc' # "arm" /\ dir' = cmd.op /\ limit' = Limit(cmd)
        /\ deltaDist' = deltaDist /\ deltaTicks' = deltaTicks
    BY <1>6 DEF Arm
  <2>3. ASSUME Limit(cmd) = 0, cmd.op \in Straight
        PROVE  newDist' >= NoLimitDist
    <3> DEFINE t == Torn(low, dist[cmd.op])
    <3>1. newDist' = (t + NoLimitDist) % Word
      BY <1>6, <2>1, <2>3, NoLimit, Disjoint DEF Arm, DriveInv, IInv, ReadInProgress
    <3>2. t \in Nat /\ t < DistOf(MaxTicks) + ByteBase
      <4>1. dist[cmd.op] \in Nat /\ dist[cmd.op] <= DistOf(MaxTicks)
        BY <2>1, <2>3, OdometerRange DEF DriveInv
      <4> QED BY <2>1, <2>3, <4>1, TornBounds, Constants DEF DistOf
    <3> HIDE DEF t
    <3>3. t + NoLimitDist < Word
      BY <3>2, RangeAssumption, Constants DEF DistOf
    <3>4. (t + NoLimitDist) % Word = t + NoLimitDist
      BY <3>2, <3>3, Constants
    <3> QED BY <3>1, <3>2, <3>4, Constants
  <2>4. ASSUME Limit(cmd) = 0, cmd.op \in Turns
        PROVE  targetTicks' >= NoLimitTicks
    <3> DEFINE t == Torn(low, TurnCounter(cmd.op))
    <3>1. targetTicks' = (t + NoLimitTicks) % Word
      BY <1>6, <2>1, <2>4, NoLimit, Disjoint DEF Arm, DriveInv, IInv, ReadInProgress
    <3>2. t \in Nat /\ t < MaxTicks + ByteBase
      <4>1. TurnCounter(cmd.op) \in Nat /\ TurnCounter(cmd.op) <= MaxTicks
        BY <2>4, TickRange DEF DriveInv
      <4> QED BY <2>1, <2>4, <4>1, TornBounds, Constants
    <3> HIDE DEF t
    <3>3. t + NoLimitTicks < Word
      BY <3>2, RangeAssumption, Constants
    <3>4. (t + NoLimitTicks) % Word = t + NoLimitTicks
      BY <3>2, <3>3, Constants
    <3> QED BY <3>1, <3>2, <3>4, Constants
  <2> QED BY <2>2, <2>3, <2>4 DEF OutOfReach
<1> QED BY <1>1, <1>2, <1>3, <1>4, <1>5, <1>6, StepKinds

------------------------------------------------------------------------------
(***************************************************************************)
(* The step simulation.                                                    *)
(***************************************************************************)
LEMMA InitDrives == Init => D!Init
BY DEF Init, D!Init

\* A step that leaves the motion alone and neither takes, begins nor ends an
\* order is none of Drive.
Quiet == pc \notin {"arm", "timed"} /\ pc' \notin {"arm", "timed"}

LEMMA Stutter ==
  ASSUME Quiet, UNCHANGED <<motion, limit, handled>>
  PROVE  UNCHANGED D!driveVars
BY DEF Quiet, motion, D!driveVars

LEMMA ClockDrives ==
  ASSUME leftISR \/ rightISR
  PROVE  UNCHANGED D!driveVars
BY DEF leftISR, rightISR, motion, D!driveVars, MoveOrder

\* A reached target belongs to a move with a limit.
LEMMA ReachedIsLimited ==
  ASSUME DriveInv
  PROVE  /\ pc = "distHigh" /\ DistReached => limit > 0
         /\ pc = "ticksHigh" /\ TicksReached => limit > 0
<1>1. limit \in Nat /\ low \in Nat /\ newDist \in Nat /\ targetTicks \in Nat
  BY DEF DriveInv, IInv, TypeOK
<1>2. ASSUME pc = "distHigh", limit = 0 PROVE ~DistReached
  <2>1. dir \in Straight /\ deltaDist > 0 /\ low <= dist[dir]
    BY <1>2 DEF DriveInv, IInv, ReadInProgress
  <2>2. newDist >= NoLimitDist
    BY <1>2, <2>1 DEF DriveInv, OutOfReach
  <2>3. dist[dir] \in Nat /\ dist[dir] <= DistOf(MaxTicks)
    BY <1>2, <2>1, OdometerRange DEF DriveInv
  <2>4. /\ Torn(low, dist[dir]) \in Nat
        /\ Torn(low, dist[dir]) < dist[dir] + ByteBase
    BY <1>1, <2>1, <2>3, TornBounds
  <2>5. DistOf(MaxTicks) \in Nat
    BY Constants, DistGrows
  <2> QED BY <1>1, <2>2, <2>3, <2>4, <2>5, RangeAssumption, Constants
          DEF DistReached
<1>3. ASSUME pc = "ticksHigh", limit = 0 PROVE ~TicksReached
  <2>1. dir \in Turns /\ deltaTicks > 0 /\ low <= TurnCounter(dir)
    BY <1>3 DEF DriveInv, IInv, ReadInProgress
  <2>2. targetTicks >= NoLimitTicks
    BY <1>3, <2>1 DEF DriveInv, OutOfReach
  <2>3. TurnCounter(dir) \in Nat /\ TurnCounter(dir) <= MaxTicks
    BY <2>1, TickRange DEF DriveInv
  <2>4. /\ Torn(low, TurnCounter(dir)) \in Nat
        /\ Torn(low, TurnCounter(dir)) < TurnCounter(dir) + ByteBase
    BY <1>1, <2>1, <2>3, TornBounds
  <2> QED BY <1>1, <2>2, <2>3, <2>4, RangeAssumption, Constants
          DEF TicksReached
<1> QED BY <1>1, <1>2, <1>3

LEMMA StopIsStand == ASSUME stop PROVE D!Stand
BY DEF stop, D!Stand

\* The guard and the limits.
LEMMA SelfStopDrives ==
  ASSUME Quiet, stop, preventCollision \/ limit > 0, handled' = handled
  PROVE  D!StopsItself
BY StopIsStand DEF Quiet, D!StopsItself

LEMMA LoopDrives ==
  ASSUME DriveInv, Sonar \/ DistHigh \/ TicksHigh
  PROVE  D!StopsItself \/ UNCHANGED D!driveVars
<1>1. Quiet /\ handled' = handled
  BY DEF Sonar, DistHigh, TicksHigh, Quiet
<1>2. CASE Sonar
  <2>1. CASE AutoStop
    BY <1>1, <2>1, SelfStopDrives DEF AutoStop
  <2>2. CASE PathClear
    BY <1>1, <2>2, Stutter DEF PathClear, history
  <2> QED BY <1>2, <2>1, <2>2 DEF Sonar
<1>3. CASE DistHigh
  <2>1. CASE DistReached
    <3>1. limit > 0 /\ stop
      BY <1>3, <2>1, ReachedIsLimited DEF DistHigh
    <3> QED BY <1>1, <3>1, SelfStopDrives
  <2>2. CASE ~DistReached
    BY <1>1, <1>3, <2>2, Stutter DEF DistHigh, history
  <2> QED BY <2>1, <2>2
<1>4. CASE TicksHigh
  <2>1. CASE TicksReached
    <3>1. limit > 0 /\ stop
      BY <1>4, <2>1, ReachedIsLimited DEF TicksHigh
    <3> QED BY <1>1, <3>1, SelfStopDrives
  <2>2. CASE ~TicksReached
    BY <1>1, <1>4, <2>2, Stutter DEF TicksHigh, history
  <2> QED BY <2>1, <2>2
<1> QED BY <1>2, <1>3, <1>4

LEMMA PassDrives ==
  ASSUME DistLow \/ DistPause \/ TicksLow \/ TicksPause \/ NothingRead
           \/ ClearTargets
  PROVE  UNCHANGED D!driveVars
BY Stutter DEF Quiet, DistLow, DistPause, TicksLow, TicksPause, NothingRead,
               ClearTargets, history

\* The bit of Drive is the parity of the packets handled.
LEMMA Parity ==
  ASSUME NEW n \in Nat
  PROVE  (n + 1) % 2 = 1 - (n % 2)
OBVIOUS

LEMMA PacketHeard ==
  ASSUME DriveInv, pc \notin {"arm", "timed"}, handled' = handled + 1
  PROVE  D!Hear
<1>1. handled \in Nat
  BY Constants DEF DriveInv, IInv, TypeOK
<1>2. handled' % 2 = 1 - (handled % 2)
  BY <1>1, Parity
<1> QED BY <1>1, <1>2 DEF D!Hear

\* A packet that moves nothing.
LEMMA IgnoreDrives ==
  ASSUME DriveInv, Quiet, UNCHANGED <<motion, limit>>, handled' = handled + 1
  PROVE  D!Ignore
BY PacketHeard DEF Quiet, motion, D!Ignore

LEMMA BadReadDrives == ASSUME DriveInv, BadRead PROVE D!Ignore
BY IgnoreDrives DEF Quiet, BadRead, history

LEMMA OtherPacketDrives ==
  ASSUME DriveInv, NEW p \in Packets,
         IgnorePacket(p) \/ HandleBadCommand(p) \/ HandleReport(p)
           \/ HandleClear(p)
  PROVE  D!Ignore
BY IgnoreDrives
DEF Quiet, IgnorePacket, HandleBadCommand, HandleReport, HandleClear,
    Receive, history

LEMMA StopCommandDrives ==
  ASSUME DriveInv, NEW p \in Packets, HandleStop(p)
  PROVE  D!Stop
<1>1. Quiet /\ stop /\ handled' = handled + 1
  BY DEF HandleStop, Receive, Quiet
<1> QED BY <1>1, StopIsStand, PacketHeard DEF Quiet, D!Stop

LEMMA MoveCommandDrives ==
  ASSUME DriveInv, NEW p \in Packets, HandleMove(p)
  PROVE  \E o \in D!Orders : D!Take(o)
<1> DEFINE o == [to |-> p.op, timed |-> p.type = "TIME",
                 limited |-> Limit(p) > 0]
<1>1. /\ pc = "serial" /\ pc' = "arm" /\ cmd' = p /\ p.op \in Moves
      /\ handled' = handled + 1
      /\ UNCHANGED <<motion, limit>>
  BY DEF HandleMove, Receive, history
<1>2. MoveOrder' = o
  BY <1>1 DEF MoveOrder, Limit, Ticks
<1>3. o \in D!Orders
  BY <1>1 DEF D!Orders
<1>4. D!Take(o)
  BY <1>1, <1>2, PacketHeard DEF D!Take, motion
<1> QED BY <1>3, <1>4

LEMMA ArmDrives ==
  ASSUME DriveInv, Arm
  PROVE  D!Begin
<1>1. /\ pc = "arm" /\ cmd' = cmd /\ dir' = cmd.op /\ handled' = handled
      /\ limit' = Limit(cmd)
      /\ pc' = IF cmd.type = "TIME" THEN "timed" ELSE "sonar"
  BY DEF Arm
<1>2. preventCollision' <=> (cmd.op = FORWARD \/ preventCollision)
  BY Zenon DEF Arm
<1>3. cmd.op \in Moves
  BY <1>1 DEF DriveInv, IInv, ReadInProgress
<1>4. MoveOrder # NoMove
  BY <1>3, Disjoint DEF MoveOrder, NoMove
<1>5. MoveOrder' = MoveOrder
  BY <1>1 DEF MoveOrder, Limit, Ticks
<1> QED BY <1>1, <1>2, <1>4, <1>5 DEF D!Begin, MoveOrder

LEMMA TimeUpDrives == ASSUME TimeUp PROVE D!TimeUp
BY StopIsStand DEF TimeUp, D!TimeUp

LEMMA StepDrives ==
  DriveInv /\ [Next]_vars => [D!Next]_(D!driveVars)
<1> SUFFICES ASSUME DriveInv, [Next]_vars
             PROVE  D!Next \/ UNCHANGED D!driveVars
  OBVIOUS
<1>1. CASE UNCHANGED vars
  BY <1>1 DEF vars, motion, history, D!driveVars, MoveOrder
<1>2. CASE leftISR \/ rightISR
  BY <1>2, ClockDrives
<1>3. CASE Sonar \/ DistHigh \/ TicksHigh
  BY <1>3, LoopDrives DEF D!Next
<1>4. CASE DistLow \/ DistPause \/ TicksLow \/ TicksPause \/ NothingRead
             \/ ClearTargets
  BY <1>4, PassDrives
<1>5. CASE BadRead
  BY <1>5, BadReadDrives DEF D!Next
<1>6. ASSUME NEW p \in Packets, Handle(p) PROVE D!Next
  BY <1>6, OtherPacketDrives, StopCommandDrives, MoveCommandDrives
  DEF Handle, D!Next
<1>7. CASE Arm \/ TimeUp
  BY <1>7, ArmDrives, TimeUpDrives DEF D!Next
<1> QED BY <1>1, <1>2, <1>3, <1>4, <1>5, <1>6, <1>7
        DEF Next, Loop, INT2_vect, INT3_vect

\* The firmware keeps the promises of Drive: it sets off only as ordered,
\* carries a timed order through, and stops by itself only a move that has a
\* limit or that the guard watches.
THEOREM DriveRefinement == Spec => Drives
<1>1. DriveInv /\ DriveInv' /\ [Next]_vars => [D!Next]_(D!driveVars)
  BY StepDrives
<1> QED
  BY <1>1, InitDriveInv, StepDriveInv, InitDrives, PTL
  DEF Spec, Drives, D!Spec
==============================================================================
