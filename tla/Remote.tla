------------------------------- MODULE Remote -------------------------------
(***************************************************************************)
(* The operator's program and the robot, and the line between them: AlexPi *)
(* puts motion packets on the line, the line loses any of them but neither *)
(* reorders nor repeats one (what SerialLink implements, LossyChannel),    *)
(* and the robot does what Drive promises (what Alex implements).  Packets *)
(* that ask for no movement are left out.                                  *)
(***************************************************************************)
EXTENDS AlexPi

CONSTANT MaxLine  \* bound of the model: motion packets on the line

VARIABLES
  line,   \* packets sent and neither handled nor lost yet
  lost,   \* history: the last packet sent was lost
  course, watched, limited, task, begun, heard, \* Drive; task is its order
  ended   \* history: what ended the last course, if not a packet

robot == <<course, watched, limited, task, begun, heard, ended>>
remoteVars == <<vars, line, lost, robot>>

\* Where the command codes send the robot: usart.ino.
CourseOf == [FORWARD |-> "FORWARD", REVERSE |-> "BACKWARD",
             TURN_LEFT |-> "LEFT", TURN_RIGHT |-> "RIGHT", STOP |-> "STOP"]
Rest == "STOP"
NoTask == [to |-> Rest, timed |-> FALSE, limited |-> FALSE]

Robot == INSTANCE Drive WITH
  Courses <- {"FORWARD", "BACKWARD", "LEFT", "RIGHT"}, Watching <- "FORWARD",
  NoOrder <- NoTask, order <- task

\* The movements a packet may ask for: a distance of 0 is no limit.
TasksOf(packet) ==
  {[to |-> CourseOf[packet.op], timed |-> packet.type = "TIME", limited |-> l] :
     l \in {b \in BOOLEAN :
              /\ b => packet.type = "PARAM"
              /\ (packet.type = "PARAM" /\ packet.op \in {"TURN_LEFT", "TURN_RIGHT"})
                   => b}}

RemoteInit ==
  /\ Init
  /\ line = <<>>
  /\ lost = FALSE
  /\ Robot!Init
  /\ ended = "nothing"

------------------------------------------------------------------------------
\* A step of the program or of the user; sendPacket() appends to the line.
Client ==
  /\ Next
  /\ \/ /\ order' # order
        /\ Len(line) < MaxLine
        /\ line' = Append(line, order')
        /\ lost' = FALSE
     \/ /\ order' = order
        /\ UNCHANGED <<line, lost>>
  /\ UNCHANGED robot

\* The packet that arrives is lost.  Whether a packet gets lost is settled
\* before the robot sees a later one, so the oldest stands for any; and as a
\* loss and the beginning of a motion commute, the motion goes first.
Lose ==
  /\ line # <<>>
  /\ task = NoTask \/ begun
  /\ line' = Tail(line)
  /\ lost' = (Len(line) = 1)
  /\ UNCHANGED <<vars, robot>>

Arrives(ops) ==
  /\ line # <<>>
  /\ Head(line).op \in ops
  /\ line' = Tail(line)
  /\ UNCHANGED <<vars, lost>>

ArriveMove ==
  /\ Arrives(DOMAIN CourseOf \ {"STOP"})
  /\ \E t \in TasksOf(Head(line)) : Robot!Take(t)
  /\ ended' = "nothing"

ArriveStop ==
  /\ Arrives({"STOP"})
  /\ Robot!Stop
  /\ ended' = "nothing"

\* What the robot does on its own.
Carry ==
  /\ \/ Robot!Begin /\ ended' = "nothing"
     \/ Robot!TimeUp /\ ended' = "time"
     \/ Robot!StopsItself /\ limited /\ ended' = "limit"
     \/ Robot!StopsItself /\ watched /\ ended' = "guard"
  /\ UNCHANGED <<vars, line, lost>>

RemoteNext == Client \/ Lose \/ ArriveMove \/ ArriveStop \/ Carry

RemoteSpec == RemoteInit /\ [][RemoteNext]_remoteVars

(***************************************************************************)
(* The program's loops go on, what is on the line arrives or is lost, and  *)
(* the robot carries out what it took.  Nothing is assumed of what gets    *)
(* through: a link out of step loses every packet (SerialLink).            *)
(***************************************************************************)
RemoteFairSpec ==
  /\ RemoteSpec
  /\ WF_remoteVars(Client /\ Unattended)
  /\ WF_remoteVars(Lose \/ ArriveMove \/ ArriveStop)
  /\ Robot!Live
------------------------------------------------------------------------------
(***************************************************************************)
(* Properties.                                                             *)
(***************************************************************************)

\* The program has no reply to go by, yet what it last ordered tells what the
\* robot does: with nothing under way and nothing lost, the robot follows the
\* last order, or stands because that order was timed and its time is over, or
\* had a distance or an angle that ended it, or the guard ended it.
RobotFollows ==
  (line = <<>> /\ ~lost /\ task = NoTask) =>
    \/ course = CourseOf[order.op] /\ (order.type = "TIME" => order.op = "STOP")
    \/ course = Rest /\ \/ ended = "time" /\ order.type = "TIME"
                        \/ ended = "limit" /\ order.type = "PARAM"
                        \/ ended = "guard"

\* Key press mode refuses the key it saw last.  A stop is refused only when
\* the robot stands or its stop was lost, whatever was ordered in the other
\* modes since.
StopRefusedAtRest ==
  (InMode(3) /\ ~Accepts("o") /\ line = <<>> /\ ~lost /\ task = NoTask)
    => course = Rest

\* In key hold mode the wheels themselves have a key behind them: with nothing
\* under way and nothing lost, the robot moves only while a key is down or its
\* release waits in the window, and the program will answer that release.
WheelsHaveKey ==
  (/\ pc = "hold" /\ ~runaway
   /\ line = <<>> /\ ~lost /\ task = NoTask
   /\ course # Rest) =>
    keyAlreadyPressed /\ (held # {} \/ UpPending)

\* Releasing the key stops the robot, from the window to the wheels, unless
\* the packet is lost or the operator presses a key again.
ReleaseStopsRobot ==
  (pc = "hold" /\ Moving /\ ~runaway /\ held = {})
    ~> (course = Rest \/ lost \/ runaway \/ held # {} \/ pc # "hold")

\* A stop ends whatever the robot is doing, in every mode, behind whatever is
\* on the line before it and also when a timed move is deaf to it until its
\* time is over: unless that stop is lost or another order is sent behind it.
\* (Stops sent again and again may be lost one behind the other.)
StopReachesRobot ==
  \A b \in {0, 1} :
    (order.op = "STOP" /\ order.bit = b)
      ~> (course = Rest \/ lost \/ order.op # "STOP" \/ order.bit # b)
=============================================================================
