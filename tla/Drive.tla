------------------------------- MODULE Drive -------------------------------
(***************************************************************************)
(* What the firmware promises the operator.  The robot sets off only when  *)
(* it was ordered to and only in the direction ordered; an order it took   *)
(* it begins, and a timed one it carries through to the stop that ends it, *)
(* deaf to any other packet.  By itself it stops only a move that has a    *)
(* limit or that the ultrasonic guard watches.                             *)
(***************************************************************************)
EXTENDS Naturals

CONSTANTS
  Courses,  \* the directions of travel
  Watching, \* the direction that turns the guard on
  Rest,     \* the course of a robot that stands still
  NoOrder   \* what the robot carries out when it carries out nothing

VARIABLES
  course,   \* the direction of travel or Rest
  watched,  \* the guard is on
  limited,  \* the course has a distance or an angle to end it
  order,    \* the movement order taken: where to, timed or not, limited or not
  begun,    \* the time of a timed order is running
  heard     \* a bit that flips with every packet heard

driveVars == <<course, watched, limited, order, begun, heard>>

Orders == [to : Courses, timed : BOOLEAN, limited : BOOLEAN]

Init ==
  /\ course = Rest
  /\ watched = FALSE /\ limited = FALSE
  /\ order = NoOrder
  /\ begun = FALSE
  /\ heard = 0

Stand ==
  /\ course' = Rest
  /\ watched' = FALSE /\ limited' = FALSE

Hear ==
  /\ order = NoOrder
  /\ heard' = 1 - heard

Take(o) ==
  /\ Hear
  /\ order' = o
  /\ UNCHANGED <<course, watched, limited, begun>>

\* Mutant: a move that will end by itself is not interrupted.
StopUnlimited ==
  /\ Hear
  /\ IF limited THEN UNCHANGED <<course, watched, limited>> ELSE Stand
  /\ UNCHANGED <<order, begun>>

\* The operator's stop.
Stop ==
  /\ Hear
  /\ Stand
  /\ UNCHANGED <<order, begun>>

\* A packet that asks for no movement, or is none at all.
Ignore ==
  /\ Hear
  /\ UNCHANGED <<course, watched, limited, order, begun>>

\* Mutant: the time of a timed order is not awaited.
BeginUntimed ==
  /\ order # NoOrder
  /\ ~begun
  /\ course' = order.to
  /\ watched' = (order.to = Watching \/ watched)
  /\ limited' = order.limited
  /\ order' = NoOrder
  /\ UNCHANGED <<begun, heard>>

Begin ==
  /\ order # NoOrder
  /\ ~begun
  /\ course' = order.to
  /\ watched' = (order.to = Watching \/ watched)
  /\ limited' = order.limited
  /\ begun' = order.timed
  /\ order' = IF order.timed THEN order ELSE NoOrder
  /\ UNCHANGED heard

TimeUp ==
  /\ begun
  /\ Stand
  /\ order' = NoOrder
  /\ begun' = FALSE
  /\ UNCHANGED heard

\* The guard, or the limit.
StopsItself ==
  /\ order = NoOrder
  /\ watched \/ limited
  /\ Stand
  /\ UNCHANGED <<order, begun, heard>>

Next ==
  \/ Stop \/ Ignore \/ \E o \in Orders : Take(o)
  \/ Begin \/ TimeUp \/ StopsItself

Spec == Init /\ [][Next]_driveVars

\* An order that was taken is carried out.
Live == WF_driveVars(Begin) /\ WF_driveVars(TimeUp)

FairSpec == Spec /\ Live
=============================================================================
