---------------------------- MODULE RemoteProofs ----------------------------
(***************************************************************************)
(* Theorems about Remote, for every set of keys and characters and every   *)
(* length of the line.                                                     *)
(***************************************************************************)
EXTENDS Remote, AlexPiProofs

Op == order.op
TimedOrder == order.type = "TIME"
Ops == DOMAIN CourseOf

\* The newest packet on the line is the operator's last order.
LineEnds ==
  /\ line \in Seq([type : {"PARAM", "KEYBOARD", "TIME"}, op : Ops, bit : {0, 1}])
  /\ line # <<>> => line[Len(line)] = order
  /\ lost => line = <<>>

\* With nothing on the line and nothing lost, what the robot has taken is that
\* order, and if it has taken nothing it carries out that order, or has
\* carried it out: only an order with parameters has a limit to end it.
EndedAsOrdered ==
  \/ ended = "time" /\ TimedOrder
  \/ ended = "limit" /\ order.type = "PARAM"
  \/ ended = "guard"

Obeys ==
  (line = <<>> /\ ~lost) =>
    \/ /\ task # NoTask
       /\ task.to = CourseOf[Op]
       /\ task.timed = TimedOrder
       /\ task.limited => order.type = "PARAM"
    \/ /\ task = NoTask
       /\ course = CourseOf[Op]
       /\ TimedOrder => Op = "STOP"
       /\ limited => order.type = "PARAM"
    \/ /\ task = NoTask
       /\ course = Rest /\ EndedAsOrdered
       /\ ~limited /\ ~watched

\* Key press mode remembers a stop only as long as it is the last order.
Remembered ==
  previous_command = "o" =>
    keyboardMode = 3 /\ pc # "hold" /\ Op = "STOP"

RemoteInv ==
  /\ order \in [type : {"PARAM", "KEYBOARD", "TIME"}, op : Ops, bit : {0, 1}]
  /\ keyboardMode \in Modes
  /\ LineEnds
  /\ Obeys
  /\ Remembered
  /\ begun => task # NoTask /\ task.timed

------------------------------------------------------------------------------
(***************************************************************************)
(* The operator's side.                                                    *)
(***************************************************************************)
OrderOK == order \in [type : {"PARAM", "KEYBOARD", "TIME"}, op : Ops, bit : {0, 1}]

LEMMA MotionOps == \A c \in DOMAIN Motions : Motions[c] \in Ops
BY DEF Motions, Ops, CourseOf

LEMMA SendKeepsTypes ==
  ASSUME NEW c, sendCommand(c), OrderOK, keyboardMode \in Modes
  PROVE  OrderOK' /\ keyboardMode' \in Modes
<1>1. keyboardMode' \in Modes
  BY DEF sendCommand, ModeOf, Modes
<1>2. PacketType \in {"PARAM", "KEYBOARD", "TIME"}
  BY DEF PacketType, Modes
<1>3. CASE c \in DOMAIN Motions
  <2>1. order' = [type |-> PacketType, op |-> Motions[c], bit |-> 1 - order.bit]
    BY <1>3 DEF sendCommand
  <2>2. 1 - order.bit \in {0, 1}
    BY DEF OrderOK
  <2> QED BY <1>1, <1>2, <1>3, <2>1, <2>2, MotionOps DEF OrderOK
<1>4. CASE c \notin DOMAIN Motions
  BY <1>1, <1>4 DEF sendCommand, OrderOK
<1> QED BY <1>3, <1>4

LEMMA SendStop ==
  ASSUME NEW c, sendCommand(c), c = "o"
  PROVE  order'.op = "STOP" /\ keyboardMode' = keyboardMode
BY DEF sendCommand, Motions, ModeOf

\* previous_command changes in key press mode only, and what leaves that mode
\* is not a stop.
LEMMA ClientKeepsMemory ==
  ASSUME Next, OrderOK, keyboardMode \in Modes, Remembered
  PROVE  OrderOK' /\ keyboardMode' \in Modes /\ Remembered'
<1> USE DEF Remembered, Op, InMode
<1>1. CASE Exit \/ User \/ Done
  BY <1>1 DEF Exit, User, Press, Repeat, Release, Raise, CloseButton, Done,
              settings, vars, OrderOK
<1>2. CASE OpenWindow \/ CloseWindow \/ PollQuit
  BY <1>2 DEF OpenWindow, CloseWindow, PollQuit, Poll, settings, OrderOK
<1>3. CASE PollKeyUp
  <2>1. previous_command' = previous_command /\ previous_command # "o"
    BY <1>3 DEF PollKeyUp, Poll
  <2>2. sendCommand("o") \/ UNCHANGED <<keyboardMode, order>>
    BY <1>3 DEF PollKeyUp
  <2> QED BY <2>1, <2>2, SendKeepsTypes DEF OrderOK
<1>4. CASE PollKeyDown
  <2>1. previous_command' = previous_command /\ previous_command # "o"
    BY <1>4 DEF PollKeyDown, Poll
  <2>2. \/ \E c : sendCommand(c)
        \/ UNCHANGED <<keyboardMode, order>>
        \/ keyboardMode' = 1 /\ UNCHANGED order
    BY <1>4 DEF PollKeyDown
  <2> QED BY <2>1, <2>2, SendKeepsTypes DEF OrderOK, Modes
<1>5. CASE paramsControl
  <2>1. previous_command' = previous_command /\ previous_command # "o"
    BY <1>5 DEF paramsControl
  <2>2. \E c : sendCommand(c)
    BY <1>5 DEF paramsControl
  <2> QED BY <2>1, <2>2, SendKeepsTypes
<1>6. CASE TimedMovement
  <2>1. keyboardMode = 4 /\ previous_command' = previous_command
    BY <1>6, Zenon DEF TimedMovement
  <2>2. (\E c : sendCommand(c)) \/ UNCHANGED <<keyboardMode, order>>
    BY <1>6, Zenon DEF TimedMovement
  <2> QED BY <2>1, <2>2, SendKeepsTypes DEF OrderOK
<1>7. CASE PressAndPress
  <2>1. pc = "main" /\ pc' = pc /\ keyboardMode = 3
    BY <1>7 DEF PressAndPress
  <2>2. PICK c \in Chars :
          \/ UNCHANGED <<keyboardMode, previous_command, order>>
          \/ sendCommand(c) /\ previous_command' = c
    BY <1>7, Zenon DEF PressAndPress, Remember
  <2>3. CASE UNCHANGED <<keyboardMode, previous_command, order>>
    BY <2>1, <2>3 DEF OrderOK
  <2>4. CASE sendCommand(c) /\ previous_command' = c
    BY <2>1, <2>4, SendKeepsTypes, SendStop
  <2> QED BY <2>2, <2>3, <2>4
<1> QED
  BY <1>1, <1>2, <1>3, <1>4, <1>5, <1>6, <1>7
  DEF Next, Program, Unattended

------------------------------------------------------------------------------
(***************************************************************************)
(* The line and the robot.                                                 *)
(***************************************************************************)
Packets == [type : {"PARAM", "KEYBOARD", "TIME"}, op : Ops, bit : {0, 1}]

LEMMA AppendLast ==
  ASSUME NEW s \in Seq(Packets), NEW e \in Packets
  PROVE  /\ Append(s, e) \in Seq(Packets)
         /\ Append(s, e) # <<>>
         /\ Append(s, e)[Len(Append(s, e))] = e
OBVIOUS

LEMMA TailLast ==
  ASSUME NEW s \in Seq(Packets), s # <<>>
  PROVE  /\ Head(s) \in Packets
         /\ Tail(s) \in Seq(Packets)
         /\ Len(s) # 1 => Tail(s) # <<>> /\ Tail(s)[Len(Tail(s))] = s[Len(s)]
         /\ Len(s) = 1 => Tail(s) = <<>> /\ Head(s) = s[Len(s)]
         /\ Tail(s) = <<>> => Len(s) = 1
<1>1. Len(s) \in Nat /\ Len(s) >= 1
  OBVIOUS
<1>2. Head(s) \in Packets /\ Tail(s) \in Seq(Packets) /\ Len(Tail(s)) = Len(s) - 1
  BY <1>1
<1>3. ASSUME Len(s) # 1
      PROVE  Tail(s) # <<>> /\ Tail(s)[Len(Tail(s))] = s[Len(s)]
  BY <1>1, <1>2, <1>3
<1>4. ASSUME Len(s) = 1 PROVE Tail(s) = <<>> /\ Head(s) = s[Len(s)]
  <2>1. Head(s) = s[Len(s)]
    BY <1>1, <1>4
  <2>2. Len(Tail(s)) = 0 /\ Tail(s) \in Seq(Packets)
    BY <1>1, <1>2, <1>4
  <2>3. Tail(s) = <<>>
    BY <2>2, EmptySeq
  <2> QED BY <2>1, <2>3
<1> QED BY <1>1, <1>2, <1>3, <1>4

LEMMA CourseOfOps ==
  /\ CourseOf["STOP"] = Rest
  /\ \A op \in Ops : CourseOf[op] = Rest => op = "STOP"
  /\ \A op \in Ops : op # "STOP" => CourseOf[op] # Rest
BY DEF CourseOf, Rest, Ops

LEMMA InitRemote == RemoteInit => RemoteInv
<1> SUFFICES ASSUME RemoteInit PROVE RemoteInv
  OBVIOUS
<1>1. order = [type |-> "PARAM", op |-> "STOP", bit |-> 0] /\ keyboardMode = 1
      /\ previous_command = "0"
  BY DEF RemoteInit, Init
<1>2. /\ line = <<>> /\ lost = FALSE /\ task = NoTask /\ course = Rest
      /\ begun = FALSE /\ limited = FALSE
  BY DEF RemoteInit, Robot!Init
<1>3. LineEnds /\ Obeys
  BY <1>1, <1>2, CourseOfOps DEF LineEnds, Obeys, Op, TimedOrder
<1> QED BY <1>1, <1>2, <1>3 DEF RemoteInv, Remembered, Modes, Ops, CourseOf

LEMMA ClientStep ==
  ASSUME RemoteInv, Client
  PROVE  RemoteInv'
<1>1. OrderOK' /\ keyboardMode' \in Modes /\ Remembered'
  BY ClientKeepsMemory DEF RemoteInv, OrderOK, Client
<1>2. UNCHANGED <<course, watched, limited, task, begun, ended>>
  BY DEF Client, robot
<1>3. CASE order' # order
  <2>1. line' = Append(line, order') /\ lost' = FALSE
    BY <1>3 DEF Client
  <2>2. line \in Seq(Packets) /\ order' \in Packets
    BY <1>1 DEF RemoteInv, LineEnds, Packets, OrderOK
  <2>3. LineEnds' /\ line' # <<>>
    BY <2>1, <2>2, AppendLast DEF LineEnds, Packets
  <2> QED BY <1>1, <1>2, <2>3 DEF RemoteInv, Obeys, OrderOK
<1>4. CASE order' = order
  <2>1. UNCHANGED <<line, lost>>
    BY <1>4 DEF Client
  <2> QED BY <1>1, <1>2, <1>4, <2>1
          DEF RemoteInv, LineEnds, Obeys, EndedAsOrdered, OrderOK, Op, TimedOrder
<1> QED BY <1>3, <1>4

LEMMA LoseStep ==
  ASSUME RemoteInv, Lose
  PROVE  RemoteInv'
<1>1. line # <<>> /\ line' = Tail(line) /\ lost' = (Len(line) = 1)
      /\ UNCHANGED <<order, keyboardMode, previous_command, pc, course, task, begun>>
  BY DEF Lose, vars, settings, robot
<1>2. line \in Seq(Packets)
  BY DEF RemoteInv, LineEnds, Packets
<1>3. LineEnds'
  BY <1>1, <1>2, TailLast DEF RemoteInv, LineEnds, Packets
<1>4. Obeys'
  BY <1>1, <1>2, TailLast DEF Obeys
<1> QED BY <1>1, <1>3, <1>4 DEF RemoteInv, Remembered, Op

\* What arrives last is the last order.
LEMMA ArrivalStep ==
  ASSUME RemoteInv, NEW ops, Arrives(ops)
  PROVE  /\ LineEnds' /\ Remembered'
         /\ order' = order /\ keyboardMode' = keyboardMode
         /\ Head(line) \in Packets /\ Head(line).op \in ops
         /\ line' = <<>> => Head(line) = order
<1>1. line # <<>> /\ line' = Tail(line) /\ Head(line).op \in ops
      /\ UNCHANGED <<order, keyboardMode, previous_command, pc, lost>>
  BY DEF Arrives, vars, settings
<1>2. line \in Seq(Packets) /\ line[Len(line)] = order /\ ~lost
  BY <1>1 DEF RemoteInv, LineEnds, Packets
<1>3. LineEnds'
  BY <1>1, <1>2, TailLast DEF LineEnds, Packets
<1> QED BY <1>1, <1>2, <1>3, TailLast DEF RemoteInv, Remembered, Op

LEMMA TaskOfPacket ==
  ASSUME NEW packet \in Packets, packet.op # "STOP", NEW t \in TasksOf(packet)
  PROVE  /\ t # NoTask
         /\ t.to = CourseOf[packet.op]
         /\ t.timed = (packet.type = "TIME")
         /\ t.limited => packet.type = "PARAM"
<1>1. PICK l \in BOOLEAN :
        /\ t = [to |-> CourseOf[packet.op], timed |-> packet.type = "TIME",
                limited |-> l]
        /\ l => packet.type = "PARAM"
  BY Zenon DEF TasksOf
<1>2. CourseOf[packet.op] # Rest
  BY CourseOfOps DEF Packets
<1> QED BY <1>1, <1>2 DEF NoTask

LEMMA ArriveStep ==
  ASSUME RemoteInv, ArriveMove \/ ArriveStop
  PROVE  RemoteInv'
<1>1. CASE ArriveMove
  <2>1. Arrives(Ops \ {"STOP"})
    BY <1>1 DEF ArriveMove, Ops
  <2>2. PICK t \in TasksOf(Head(line)) : Robot!Take(t)
    BY <1>1 DEF ArriveMove
  <2>3. task = NoTask /\ task' = t /\ begun' = begun
    BY <2>2 DEF Robot!Take, Robot!Hear
  <2>4. /\ t # NoTask /\ t.to = CourseOf[Head(line).op]
        /\ t.timed = (Head(line).type = "TIME")
        /\ t.limited => Head(line).type = "PARAM"
    BY <2>1, ArrivalStep, TaskOfPacket
  <2>5. Obeys'
    BY <2>1, <2>3, <2>4, ArrivalStep DEF Obeys, Op, TimedOrder
  <2> QED BY <2>1, <2>3, <2>5, ArrivalStep DEF RemoteInv
<1>2. CASE ArriveStop
  <2>1. Arrives({"STOP"})
    BY <1>2 DEF ArriveStop
  <2>2. task = NoTask /\ task' = task /\ begun' = begun /\ course' = Rest
        /\ limited' = FALSE
    BY <1>2 DEF ArriveStop, Robot!Stop, Robot!Hear, Robot!Stand
  <2>3. line' = <<>> => Op' = "STOP"
    BY <2>1, ArrivalStep DEF Op
  <2>4. Obeys'
    BY <2>2, <2>3, CourseOfOps DEF Obeys
  <2> QED BY <2>1, <2>2, <2>4, ArrivalStep DEF RemoteInv
<1> QED BY <1>1, <1>2

LEMMA CarryStep ==
  ASSUME RemoteInv, Carry
  PROVE  RemoteInv'
<1>1. UNCHANGED <<order, keyboardMode, previous_command, pc, line, lost>>
  BY DEF Carry, vars, settings
<1>2. LineEnds' /\ Remembered'
  BY <1>1 DEF RemoteInv, LineEnds, Remembered, Op
<1>3. (begun' => task' # NoTask /\ task'.timed) /\ Obeys'
  <2>1. CASE Robot!Begin
    <3>1. CASE task.timed
      <4>1. task' = task /\ begun' = task.timed /\ task # NoTask
        BY <2>1, <3>1 DEF Robot!Begin
      <4> QED BY <1>1, <3>1, <4>1, Zenon DEF RemoteInv, Obeys, Op, TimedOrder
    <3>2. CASE ~task.timed
      <4>1. /\ task' = NoTask /\ begun' = task.timed /\ task # NoTask
            /\ course' = task.to /\ limited' = task.limited
        BY <2>1, <3>2 DEF Robot!Begin
      <4>2. ~begun
        BY <2>1 DEF Robot!Begin
      <4> QED BY <1>1, <3>2, <4>1 DEF RemoteInv, Obeys, Op, TimedOrder
    <3> QED BY <3>1, <3>2
  <2>2. CASE Robot!TimeUp /\ ended' = "time"
    <3>1. /\ begun /\ task' = NoTask /\ ~begun' /\ course' = Rest
          /\ ~limited' /\ ~watched'
      BY <2>2 DEF Robot!TimeUp, Robot!Stand
    <3>2. (line = <<>> /\ ~lost) => TimedOrder
      BY <3>1 DEF RemoteInv, Obeys
    <3> QED
      BY <1>1, <2>2, <3>1, <3>2 DEF Obeys, EndedAsOrdered, TimedOrder
  <2>3. CASE /\ Robot!StopsItself
             /\ \/ limited /\ ended' = "limit"
                \/ watched /\ ended' = "guard"
    <3>1. /\ task = NoTask /\ task' = task /\ begun' = begun /\ course' = Rest
          /\ ~limited' /\ ~watched'
      BY <2>3 DEF Robot!StopsItself, Robot!Stand
    <3>2. (line = <<>> /\ ~lost) => (limited => order.type = "PARAM")
      BY <3>1 DEF RemoteInv, Obeys
    <3> QED
      BY <1>1, <2>3, <3>1, <3>2 DEF RemoteInv, Obeys, EndedAsOrdered
  <2> QED BY <2>1, <2>2, <2>3, Zenon DEF Carry
<1> QED BY <1>1, <1>2, <1>3 DEF RemoteInv

LEMMA StepRemote == RemoteInv /\ [RemoteNext]_remoteVars => RemoteInv'
<1> SUFFICES ASSUME RemoteInv, [RemoteNext]_remoteVars PROVE RemoteInv'
  OBVIOUS
<1>1. CASE UNCHANGED remoteVars
  BY <1>1 DEF remoteVars, vars, settings, robot, RemoteInv, LineEnds, Obeys,
              EndedAsOrdered, Remembered, Op, TimedOrder
<1> QED BY <1>1, ClientStep, LoseStep, ArriveStep, CarryStep DEF RemoteNext

\* The operator's record of the robot is right whenever nothing is under way
\* and the last packet was not lost: the robot does what was ordered last, or
\* it stands because that order was timed and its time is over, had a limit
\* that ended it, or was ended by the guard.
THEOREM Following == RemoteSpec => []RobotFollows
<1>1. RemoteInv => RobotFollows
  BY DEF RemoteInv, Obeys, EndedAsOrdered, RobotFollows, Op, TimedOrder
<1> QED BY <1>1, InitRemote, StepRemote, PTL DEF RemoteSpec

\* In key press mode a stop is refused as a repetition only when the robot
\* stands or the first stop was lost.
THEOREM Refusal == RemoteSpec => []StopRefusedAtRest
<1>1. RemoteInv => StopRefusedAtRest
  BY CourseOfOps
  DEF RemoteInv, Obeys, Remembered, StopRefusedAtRest, InMode, Accepts, Op, NoTask
<1> QED BY <1>1, InitRemote, StepRemote, PTL DEF RemoteSpec
------------------------------------------------------------------------------
(***************************************************************************)
(* The parts of the composition.                                           *)
(***************************************************************************)
LEMMA ClientAlone == [RemoteNext]_remoteVars => [Next]_vars
BY DEF RemoteNext, Client, Lose, ArriveMove, ArriveStop, Arrives, Carry,
       remoteVars

\* The line and the robot hinder the operator's program in nothing: nobody
\* reads a reply.
THEOREM ProgramKept == RemoteSpec => Spec
<1>1. RemoteInit => Init
  BY DEF RemoteInit
<1> QED BY <1>1, ClientAlone, PTL DEF RemoteSpec, Spec

\* A movement that a packet asks for is one the robot knows.
LEMMA TaskIsOrder ==
  ASSUME NEW packet \in Packets, packet.op # "STOP", NEW t \in TasksOf(packet)
  PROVE  t \in Robot!Orders
<1>1. PICK l \in BOOLEAN :
        t = [to |-> CourseOf[packet.op], timed |-> packet.type = "TIME",
             limited |-> l]
  BY Zenon DEF TasksOf
<1>2. CourseOf[packet.op] \in {"FORWARD", "BACKWARD", "LEFT", "RIGHT"}
  BY DEF Packets, Ops, CourseOf
<1>3. (packet.type = "TIME") \in BOOLEAN
  OBVIOUS
<1> QED BY <1>1, <1>2, <1>3, Zenon DEF Robot!Orders

LEMMA RobotAlone ==
  ASSUME RemoteInv, [RemoteNext]_remoteVars
  PROVE  [Robot!Next]_(Robot!driveVars)
<1>1. CASE Client \/ Lose \/ UNCHANGED remoteVars
  BY <1>1 DEF Client, Lose, remoteVars, robot, Robot!driveVars
<1>2. CASE ArriveMove
  <2>1. Arrives(Ops \ {"STOP"})
    BY <1>2 DEF ArriveMove, Ops
  <2>2. PICK t \in TasksOf(Head(line)) : Robot!Take(t)
    BY <1>2 DEF ArriveMove
  <2>3. Head(line) \in Packets /\ Head(line).op # "STOP"
    BY <2>1, ArrivalStep
  <2>4. t \in Robot!Orders
    BY <2>3, TaskIsOrder
  <2> QED BY <2>2, <2>4 DEF Robot!Next
<1>3. CASE ArriveStop
  BY <1>3 DEF ArriveStop, Robot!Next
<1>4. CASE Carry
  BY <1>4 DEF Carry, Robot!Next
<1> QED BY <1>1, <1>2, <1>3, <1>4 DEF RemoteNext

\* The robot of the composition keeps the promise of Drive, which the firmware
\* implements: whatever the operator types, no packet asks for a movement the
\* robot does not know.
THEOREM RobotKept == RemoteSpec => Robot!Spec
<1>1. RemoteInit => Robot!Init
  BY DEF RemoteInit
<1> QED BY <1>1, InitRemote, StepRemote, RobotAlone, PTL DEF RemoteSpec, Robot!Spec

\* From the key to the wheels: in key hold mode the robot itself moves only
\* while a key is down or its release waits to be handled, unless packets are
\* on their way or lost.
THEOREM KeyBehindWheels == RemoteSpec => []WheelsHaveKey
<1>1. RemoteInv /\ StopPending => WheelsHaveKey
  <2> SUFFICES ASSUME RemoteInv, StopPending, pc = "hold", ~runaway,
                      line = <<>>, ~lost, task = NoTask, course # Rest
               PROVE  keyAlreadyPressed /\ (held # {} \/ UpPending)
    BY DEF WheelsHaveKey
  <2>1. course = CourseOf[Op] /\ ~TimedOrder
    <3>1. course = CourseOf[Op] /\ (TimedOrder => Op = "STOP")
      BY DEF RemoteInv, Obeys
    <3> QED BY <3>1, CourseOfOps
  <2>2. Op # "STOP"
    BY <2>1, CourseOfOps
  <2>3. Moving
    BY <2>1, <2>2 DEF Moving, Op, TimedOrder
  <2> QED BY <2>3 DEF StopPending
<1>2. Spec => []StopPending
  BY Engaged, PTL
<1> QED BY <1>1, <1>2, ProgramKept, InitRemote, StepRemote, PTL DEF RemoteSpec
==============================================================================
