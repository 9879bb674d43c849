-------------------------------- MODULE Alex --------------------------------
(***************************************************************************)
(* The firmware of the robot (alex/*.ino): the main loop, the handlers of  *)
(* the packets it reads and the two wheel-encoder interrupts, which run    *)
(* between any two instructions of the loop.                               *)
(*                                                                         *)
(* A turn of loop() visits, in order, the program points                   *)
(*   sonar   if (preventCollision) ...           alex.ino:218              *)
(*   dist    if (deltaDist > 0) ...              alex.ino:227              *)
(*   ticks   if (deltaTicks > 0) ...             alex.ino:250              *)
(*   serial  readPacket() and handlePacket()     alex.ino:281              *)
(* distPause and ticksPause are the delay(1000) after a stop, timed the    *)
(* delay() of a timed move, clear the middle of clearCounters().  On the   *)
(* 8-bit ATmega a four-byte counter is loaded low byte first and nothing   *)
(* masks the interrupts, so a read of a counter the interrupts write takes *)
(* two steps: distHigh, ticksHigh and arm are the points between them.     *)
(* Elsewhere moving an interrupt before or after the instructions of one   *)
(* step leads to the same state.                                           *)
(***************************************************************************)
EXTENDS Integers, Sequences

CONSTANTS
  ByteBase,       \* values of the byte a load reads first: 256
  Word,           \* values of an unsigned long: 2^32
  Mantissa,       \* values of the mantissa of a float: 2^24
  Overflows,      \* what converting too large a float to an unsigned long,
                  \* undefined in the language, may give
  NoLimitDist,    \* deltaDist of a move without a distance: 9999999
  NoLimitTicks,   \* deltaTicks of a turn without an angle: 99999999
  Packets,        \* the well-formed packets the Pi may send
  SonarReadings,  \* what getUltrasonicDistance() may return, in cm
  MaxPackets,     \* bound of the model: packets received
  MaxTicks        \* bound of the model: ticks on one counter

STOP == "STOP"
FORWARD == "FORWARD"
BACKWARD == "BACKWARD"
LEFT == "LEFT"     \* CCW has the same number
RIGHT == "RIGHT"   \* CW has the same number

Straight == {FORWARD, BACKWARD}
Turns == {LEFT, RIGHT}
Moves == Straight \cup Turns

CommandTypes == {"PARAM", "KEYBOARD", "TIME"}

\* sendStatus(), sendColor() and sendDistance(): what each reports.
Reports == [GET_STATS |-> "STATUS", COLOR |-> "COLOR", DIST |-> "DIST"]

NoPacket == [type |-> "NONE", op |-> "NONE", params |-> <<>>]

(***************************************************************************)
(* Distances fit an unsigned long: MaxTicks ticks are 5.2 * MaxTicks cm,   *)
(* and a torn read adds less than ByteBase.                                *)
(***************************************************************************)
ASSUME NumbersAssumption ==
  /\ {ByteBase, Word, Mantissa, NoLimitDist, NoLimitTicks} \subseteq Nat \ {0}
  /\ Word <= 256 * Mantissa
  /\ Overflows \subseteq 0 .. Word - 1 /\ Overflows # {}
  /\ {MaxPackets, MaxTicks} \subseteq Nat
  /\ NoLimitDist < Word /\ NoLimitTicks < Word
  /\ SonarReadings \subseteq Nat
  /\ SonarReadings # {}

ASSUME PacketsAssumption ==
  \A p \in Packets :
    /\ p.type \in CommandTypes \cup {"OTHER"}
    /\ p.op \in Moves \cup {STOP, "CLEAR_STATS", "LCD"} \cup DOMAIN Reports
    /\ p.params[1] \in 0 .. Word - 1
    /\ p.params[2] \in Nat

VARIABLES
  pc,                \* where the main program is
  dir,               \* direction of travel, read by the interrupts
  power,             \* PWM duty of the four motors
  preventCollision,  \* the ultrasonic guard is on
  left,              \* left[d]: the counter leftISR() adds to when dir = d
  right,             \* right[d]: the same of rightISR()
  dist,              \* forwardDist and reverseDist
  deltaDist, newDist,       \* distance to go when armed, target of dist
  deltaTicks, targetTicks,  \* the same for turns
  low,               \* counter value a two-step read took its low byte from
  cmd,               \* packet handled in this turn of the loop
  out,               \* packets sent in this turn of the loop
  handled,           \* history: packets received
  limit,             \* history: what the current move was told to cover,
                     \*          in cm or ticks, 0 if nothing
  moved              \* history: controlling ticks since the current move began

targets == <<deltaDist, newDist, deltaTicks, targetTicks>>
encoders == <<left, right, dist>>
motion == <<dir, power, preventCollision>>
history == <<limit, moved>>
vars == <<pc, motion, encoders, targets, low, cmd, out, handled, history>>

------------------------------------------------------------------------------
(***************************************************************************)
(* Numbers.                                                                *)
(***************************************************************************)

\* (unsigned long)((float) ticks / COUNTS_PER_REV * WHEEL_CIRC), in cm.
DistOf(ticks) == (ticks * 2073) \div 400

\* computeDeltaTicks(): alexCirc * COUNTS_PER_REV / (360 * WHEEL_CIRC) ticks
\* for each degree, one tick at least.
computeDeltaTicks(ang) ==
  LET ticks == (ang * 30415) \div 1000000 IN IF ticks < 1 THEN 1 ELSE ticks

\* The distance between the floats next to n: a mantissa has 24 bits.
Ulp(n) ==
  LET fits == {u \in {1, 2, 4, 8, 16, 32, 64, 128, 256} : n < u * Mantissa}
  IN  CHOOSE u \in fits : \A v \in fits : u <= v

\* (float) n, and (double) n, which is the same type on this processor: the
\* nearest float, the even one of two.
Rounded(n) ==
  LET u == Ulp(n)  q == n \div u  r == n % u
  IN  IF 2 * r > u \/ (2 * r = u /\ q % 2 = 1) THEN (q + 1) * u ELSE q * u

\* (unsigned long) f.
ToULong(f) == IF f < Word THEN {f} ELSE Overflows

\* Mutant: the duty is kept in a wider integer.
PowerWide(speed) == (speed * 255) \div 100

\* move(): percent to PWM; setSpeed() takes a uint8_t.
Power(speed) == ((speed * 255) \div 100) % 256

\* Mutant: the bytes are added up without masking the low one.
TornSum(old, new) == new - (new % ByteBase) + old

\* Mutant: the low byte is loaded last.
TornHighFirst(old, new) == old - (old % ByteBase) + (new % ByteBase)

\* A four-byte load that took its low byte from old and the rest from new.
Torn(old, new) == new - (new % ByteBase) + (old % ByteBase)

(***************************************************************************)
(* No counter comes near the distance and the angle that stand for "no     *)
(* limit", 100 km and 500000 turns of a wheel, nor so near the end of an   *)
(* unsigned long that a distance a float holds exactly would reach it.     *)
(***************************************************************************)
ASSUME RangeAssumption ==
  /\ DistOf(MaxTicks) + ByteBase <= NoLimitDist
  /\ DistOf(MaxTicks) + ByteBase + NoLimitDist <= Word
  /\ DistOf(MaxTicks) + ByteBase + Mantissa <= Word
  /\ MaxTicks + ByteBase <= NoLimitTicks
  /\ MaxTicks + ByteBase + NoLimitTicks <= Word

------------------------------------------------------------------------------
Init ==
  /\ pc = "sonar"
  /\ dir = STOP
  /\ power = 0
  /\ preventCollision = FALSE
  /\ left = [d \in Moves |-> 0]
  /\ right = [d \in Moves |-> 0]
  /\ dist = [d \in Straight |-> 0]
  /\ deltaDist = 0 /\ newDist = 0
  /\ deltaTicks = 0 /\ targetTicks = 0
  /\ low = 0
  /\ cmd = NoPacket
  /\ out = <<>>
  /\ handled = 0
  /\ limit = 0 /\ moved = 0

------------------------------------------------------------------------------
(***************************************************************************)
(* The wheel encoders.  An interrupt runs to its end; a tick while nothing *)
(* is commanded changes nothing.                                           *)
(***************************************************************************)

leftISR ==
  /\ dir \in Moves
  /\ left[dir] < MaxTicks
  /\ left' = [left EXCEPT ![dir] = @ + 1]
  /\ dist' = IF dir \in Straight
             THEN [dist EXCEPT ![dir] = DistOf(left[dir] + 1)]
             ELSE dist
  /\ moved' = IF dir = RIGHT THEN moved ELSE moved + 1
  /\ UNCHANGED <<pc, motion, right, targets, low, cmd, out, handled, limit>>

rightISR ==
  /\ dir \in Moves
  /\ right[dir] < MaxTicks
  /\ right' = [right EXCEPT ![dir] = @ + 1]
  /\ moved' = IF dir = RIGHT THEN moved + 1 ELSE moved
  /\ UNCHANGED <<pc, motion, left, dist, targets, low, cmd, out, handled,
                 limit>>

INT2_vect == leftISR
INT3_vect == rightISR

------------------------------------------------------------------------------
(***************************************************************************)
(* robotlib.ino.                                                           *)
(***************************************************************************)

\* Mutant: stop() leaves the guard on.
stopWatching ==
  /\ dir' = STOP
  /\ power' = 0
  /\ deltaDist' = 0
  /\ deltaTicks' = 0
  /\ UNCHANGED preventCollision
  /\ limit' = 0
  /\ moved' = 0

\* stop(): setSpeed(0) ends the motion, run(STOP) does nothing.  The targets
\* keep their values.
stop ==
  /\ dir' = STOP
  /\ power' = 0
  /\ deltaDist' = 0
  /\ deltaTicks' = 0
  /\ preventCollision' = FALSE
  /\ limit' = 0
  /\ moved' = 0

------------------------------------------------------------------------------
(***************************************************************************)
(* loop(): the collision guard.                                            *)
(***************************************************************************)
TooClose(temp) == temp < 15 /\ temp > 10

AutoStop ==
  /\ preventCollision
  /\ \E temp \in SonarReadings : TooClose(temp)
  /\ stop
  /\ out' = <<"MESSAGE">>
  /\ UNCHANGED <<newDist, targetTicks>>

\* Mutant: a clear reading ends the guard.
PathClearOnce ==
  /\ preventCollision => \E temp \in SonarReadings : ~TooClose(temp)
  /\ out' = <<>>
  /\ preventCollision' = FALSE
  /\ UNCHANGED <<dir, power, targets, history>>

PathClear ==
  /\ preventCollision => \E temp \in SonarReadings : ~TooClose(temp)
  /\ out' = <<>>
  /\ UNCHANGED <<motion, targets, history>>

Sonar ==
  /\ pc = "sonar"
  /\ AutoStop \/ PathClear
  /\ pc' = "dist"
  /\ cmd' = NoPacket
  /\ UNCHANGED <<encoders, low, handled>>

------------------------------------------------------------------------------
(***************************************************************************)
(* loop(): the end of a move of limited distance.  The branch of a stopped *)
(* robot with a distance to go is in DistLow's first disjunct: stop() has  *)
(* zeroed deltaDist.                                                       *)
(***************************************************************************)
DistLow ==
  /\ pc = "dist"
  /\ \/ /\ ~(deltaDist > 0 /\ dir \in Straight)
        /\ pc' = "ticks"
        /\ low' = 0
     \/ /\ deltaDist > 0 /\ dir \in Straight
        /\ pc' = "distHigh"
        /\ low' = dist[dir]
  /\ UNCHANGED <<motion, encoders, targets, cmd, out, handled, history>>

\* Mutant: both directions are measured on forwardDist.
DistReachedForward == Torn(low, dist[FORWARD]) > newDist

DistReached == Torn(low, dist[dir]) > newDist

DistHigh ==
  /\ pc = "distHigh"
  /\ low' = 0
  /\ \/ /\ DistReached
        /\ newDist' = 0
        /\ stop
        /\ UNCHANGED targetTicks
        /\ pc' = "distPause"
     \/ /\ ~DistReached
        /\ pc' = "ticks"
        /\ UNCHANGED <<motion, targets, history>>
  /\ UNCHANGED <<encoders, cmd, out, handled>>

DistPause ==
  /\ pc = "distPause"
  /\ pc' = "ticks"
  /\ UNCHANGED <<motion, encoders, targets, low, cmd, out, handled, history>>

(***************************************************************************)
(* loop(): the end of a turn of limited angle.  A left turn is measured on *)
(* leftReverseTurns, a right turn on rightReverseTurns.                    *)
(***************************************************************************)
TurnCounter(d) == IF d = LEFT THEN left[LEFT] ELSE right[RIGHT]

TicksLow ==
  /\ pc = "ticks"
  /\ \/ /\ ~(deltaTicks > 0 /\ dir \in Turns)
        /\ pc' = "serial"
        /\ low' = 0
     \/ /\ deltaTicks > 0 /\ dir \in Turns
        /\ pc' = "ticksHigh"
        /\ low' = TurnCounter(dir)
  /\ UNCHANGED <<motion, encoders, targets, cmd, out, handled, history>>

TicksReached == Torn(low, TurnCounter(dir)) >= targetTicks

TicksHigh ==
  /\ pc = "ticksHigh"
  /\ low' = 0
  /\ \/ /\ TicksReached
        /\ targetTicks' = 0
        /\ stop
        /\ UNCHANGED newDist
        /\ pc' = "ticksPause"
     \/ /\ ~TicksReached
        /\ pc' = "serial"
        /\ UNCHANGED <<motion, targets, history>>
  /\ UNCHANGED <<encoders, cmd, out, handled>>

TicksPause ==
  /\ pc = "ticksPause"
  /\ pc' = "serial"
  /\ UNCHANGED <<motion, encoders, targets, low, cmd, out, handled, history>>

------------------------------------------------------------------------------
(***************************************************************************)
(* loop(): readPacket() and handlePacket().  The three command handlers    *)
(* differ in what a movement command does, in nothing else.  A handler     *)
(* that ends here ends the turn of the loop.                               *)
(***************************************************************************)
NothingRead ==
  /\ pc = "serial"
  /\ pc' = "sonar"
  /\ UNCHANGED <<motion, encoders, targets, low, cmd, out, handled, history>>

\* sendBadPacket() and sendBadChecksum().
BadRead ==
  /\ pc = "serial"
  /\ handled < MaxPackets
  /\ handled' = handled + 1
  /\ \E reply \in {"BAD_PACKET", "BAD_CHECKSUM"} : out' = Append(out, reply)
  /\ pc' = "sonar"
  /\ UNCHANGED <<motion, encoders, targets, low, cmd, history>>

Receive(p) ==
  /\ pc = "serial"
  /\ handled < MaxPackets
  /\ handled' = handled + 1
  /\ cmd' = p

\* Responses, errors, messages and the Pi's hello are ignored.
IgnorePacket(p) ==
  /\ Receive(p)
  /\ p.type \notin CommandTypes
  /\ pc' = "sonar"
  /\ UNCHANGED <<motion, encoders, targets, low, out, history>>

\* A code without a case, such as the COMMAND_LCD the Pi can send.
HandleBadCommand(p) ==
  /\ Receive(p)
  /\ p.type \in CommandTypes
  /\ p.op = "LCD"
  /\ out' = Append(out, "BAD_COMMAND")
  /\ pc' = "sonar"
  /\ UNCHANGED <<motion, encoders, targets, low, history>>

\* Mutant: the handler acknowledges what sendDistance() acknowledged.
AnswerTwice(p) ==
  IF p.op = "GET_STATS" THEN <<"OK", Reports[p.op]>>
  ELSE <<Reports[p.op], "OK">> \o IF p.op = "DIST" THEN <<"OK">> ELSE <<>>

\* COMMAND_GET_STATS acknowledges first, COMMAND_COLOR and COMMAND_DIST last.
Answer(p) ==
  IF p.op = "GET_STATS" THEN <<"OK", Reports[p.op]>>
  ELSE <<Reports[p.op], "OK">>

HandleReport(p) ==
  /\ Receive(p)
  /\ p.type \in CommandTypes
  /\ p.op \in DOMAIN Reports
  /\ out' = out \o Answer(p)
  /\ pc' = "sonar"
  /\ UNCHANGED <<motion, encoders, targets, low, history>>

HandleStop(p) ==
  /\ Receive(p)
  /\ p.type \in CommandTypes
  /\ p.op = STOP
  /\ out' = Append(out, "OK")
  /\ stop
  /\ pc' = "sonar"
  /\ UNCHANGED <<encoders, newDist, targetTicks, low>>

\* clearCounters() while the wheels may turn: the tick counters here, the
\* distances and the targets in ClearTargets.
HandleClear(p) ==
  /\ Receive(p)
  /\ p.type \in CommandTypes
  /\ p.op = "CLEAR_STATS"
  /\ out' = Append(out, "OK")
  /\ left' = [d \in Moves |-> 0]
  /\ right' = [d \in Moves |-> 0]
  /\ pc' = "clear"
  /\ UNCHANGED <<motion, dist, targets, low, history>>

\* Mutant: the odometers are not cleared.
ClearTargetsOnly ==
  /\ pc = "clear"
  /\ deltaDist' = 0 /\ newDist' = 0
  /\ deltaTicks' = 0 /\ targetTicks' = 0
  /\ pc' = "sonar"
  /\ UNCHANGED <<motion, encoders, low, cmd, out, handled, history>>

ClearTargets ==
  /\ pc = "clear"
  /\ dist' = [d \in Straight |-> 0]
  /\ deltaDist' = 0 /\ newDist' = 0
  /\ deltaTicks' = 0 /\ targetTicks' = 0
  /\ pc' = "sonar"
  /\ UNCHANGED <<motion, left, right, low, cmd, out, handled, history>>

(***************************************************************************)
(* Movement commands: forward(), backward(), left() and right() with the   *)
(* arguments each handler passes.  Keyboard and timed commands pass -1 for *)
(* "no limit"; a distance of 0 says the same.  HandleMove ends after the   *)
(* low byte of the odometer is loaded, Arm is the rest.                    *)
(***************************************************************************)
\* The number becomes a float on its way to forward() and is converted back
\* there.
Distances(p) ==
  IF p.type = "PARAM" /\ p.params[1] > 0 THEN ToULong(Rounded(p.params[1]))
  ELSE {NoLimitDist}

\* Mutant: a keyboard turn takes its speed for an angle.
TicksOfSpeed(p) == computeDeltaTicks(Rounded(p.params[1]))

Ticks(p) ==
  IF p.type = "PARAM" THEN computeDeltaTicks(Rounded(p.params[1]))
  ELSE NoLimitTicks

Speed(p) ==
  CASE p.type = "PARAM"    -> p.params[2]
    [] p.type = "KEYBOARD" -> p.params[1]
    [] p.type = "TIME"     -> 100

HandleMove(p) ==
  /\ Receive(p)
  /\ p.type \in CommandTypes
  /\ p.op \in Moves
  /\ out' = Append(out, "OK")
  /\ \/ /\ p.op \in Straight
        /\ deltaDist' \in Distances(p)
        /\ low' = dist[p.op]
        /\ UNCHANGED deltaTicks
     \/ /\ p.op \in Turns
        /\ deltaTicks' = Ticks(p)
        /\ low' = TurnCounter(p.op)
        /\ UNCHANGED deltaDist
  /\ pc' = "arm"
  /\ UNCHANGED <<motion, encoders, newDist, targetTicks, history>>

\* What the move was told to cover, 0 when it has no limit: the number in the
\* packet, before forward() and its float.
Limit(p) ==
  IF p.type # "PARAM" THEN 0
  ELSE IF p.op \in Straight THEN p.params[1] ELSE Ticks(p)

Arm ==
  /\ pc = "arm"
  /\ \/ /\ cmd.op \in Straight
        /\ newDist' = (Torn(low, dist[cmd.op]) + deltaDist) % Word
        /\ UNCHANGED targetTicks
     \/ /\ cmd.op \in Turns
        /\ targetTicks' = (Torn(low, TurnCounter(cmd.op)) + deltaTicks) % Word
        /\ UNCHANGED newDist
  /\ dir' = cmd.op
  /\ power' = Power(Speed(cmd))
  /\ preventCollision' = (cmd.op = FORWARD \/ preventCollision)
  /\ low' = 0
  /\ limit' = Limit(cmd)
  /\ moved' = 0
  /\ pc' = IF cmd.type = "TIME" THEN "timed" ELSE "sonar"
  /\ UNCHANGED <<encoders, deltaDist, deltaTicks, cmd, out, handled>>

\* Mutant: the time is measured from the last look at the clock.
TimeUpRestarts ==
  /\ pc = "timed"
  /\ UNCHANGED vars

\* The end of delay(params[0]) in handleCommandTime().
TimeUp ==
  /\ pc = "timed"
  /\ stop
  /\ pc' = "sonar"
  /\ UNCHANGED <<encoders, newDist, targetTicks, low, cmd, out, handled>>

------------------------------------------------------------------------------
Handle(p) ==
  \/ IgnorePacket(p)
  \/ HandleBadCommand(p)
  \/ HandleReport(p)
  \/ HandleStop(p)
  \/ HandleClear(p)
  \/ HandleMove(p)

Loop ==
  \/ Sonar
  \/ DistLow \/ DistHigh \/ DistPause
  \/ TicksLow \/ TicksHigh \/ TicksPause
  \/ NothingRead \/ BadRead
  \/ \E p \in Packets : Handle(p)
  \/ ClearTargets \/ Arm \/ TimeUp

Next == Loop \/ INT2_vect \/ INT3_vect

Spec == Init /\ [][Next]_vars

\* The processor always returns to the main program: no ISR loops, and every
\* delay() ends.
FairSpec == Spec /\ WF_vars(Loop)
------------------------------------------------------------------------------
(***************************************************************************)
(* Properties.                                                             *)
(***************************************************************************)
LoopPoints == {"sonar", "dist", "distHigh", "distPause", "ticks", "ticksHigh",
               "ticksPause", "serial", "arm", "timed", "clear"}
ULong == 0 .. Word - 1
Replies == {"OK", "MESSAGE", "STATUS", "COLOR", "DIST", "BAD_COMMAND",
            "BAD_PACKET", "BAD_CHECKSUM"}

TypeOK ==
  /\ pc \in LoopPoints
  /\ dir \in Moves \cup {STOP}
  /\ power \in 0 .. 255
  /\ preventCollision \in BOOLEAN
  /\ left \in [Moves -> 0 .. MaxTicks]
  /\ right \in [Moves -> 0 .. MaxTicks]
  /\ dist \in [Straight -> Nat]
  /\ {deltaDist, newDist, deltaTicks, targetTicks} \subseteq Nat
  /\ low \in Nat
  /\ cmd \in Packets \cup {NoPacket}
  /\ out \in Seq(Replies)
  /\ handled \in 0 .. MaxPackets
  /\ limit \in Nat
  /\ moved \in Nat

\* A stopped robot is completely stopped: whichever of the ways to stop() was
\* taken (a reached target, the guard, a command, the end of a timed move),
\* the motors are off, no target is armed and the guard is off, so the next
\* turn of the loop finds nothing to do.  Between the two halves of a movement
\* command its target is already armed.
QuietWhenStopped ==
  dir = STOP =>
    /\ power = 0
    /\ ~preventCollision
    /\ pc # "arm" => deltaDist = 0 /\ deltaTicks = 0

\* Forward motion that the loop supervises has the ultrasonic guard on, however
\* the robot came to move forward and whatever the guard, the targets and the
\* commands did before.  In a timed move the guard sleeps, as usart.ino:216
\* says ("note collision not activated here"): nothing is said of it.
GuardWatchesForward == (dir = FORWARD /\ pc # "timed") => preventCollision

\* Where the odometer was when the straight move under way began, unless a
\* tick was missed inside clearCounters(): then it was 0 (OdometerAgrees).
StartDist == DistOf(left[dir] - moved)

\* The target of a move under way lies deltaDist beyond where the odometer was
\* when the move began, up to one low byte, however the encoder interrupts
\* fell between the two loads of the odometer.  It is a sum of two unsigned
\* longs: a distance near 2^32 (a negative number typed at the prompt) may wrap
\* it.  A distance that a float holds exactly arrives as it was ordered and
\* wraps nothing.
TargetAsOrdered ==
  (pc \notin {"arm", "clear"} /\ dir \in Straight /\ deltaDist > 0) =>
    \E start \in {0, StartDist},
       e \in 1 - ByteBase .. ByteBase - 1 :
      /\ newDist = (start + deltaDist + e) % Word
      /\ limit \in 1 .. Mantissa - 1 => newDist = start + limit + e

\* What is left to go of a turn is below the ticks asked for plus one low
\* byte, however the interrupts fell when it was armed.
TicksLeftBounded ==
  (pc \notin {"arm", "clear"} /\ dir \in Turns /\ deltaTicks > 0)
    => targetTicks < TurnCounter(dir) + deltaTicks + ByteBase

\* An odometer agrees with its tick counter, except that a tick which falls
\* inside clearCounters() may be counted in ticks and not in centimetres until
\* the next one.
OdometerAgrees ==
  pc # "clear" => \A d \in Straight : dist[d] \in {0, DistOf(left[d])}

\* Every command packet of a turn of the loop is answered once, by an OK or by
\* an error, whichever handler and helper ran; nothing else is answered.
OneAnswer ==
  LET answers == {i \in DOMAIN out :
                    out[i] \in {"OK", "BAD_COMMAND", "BAD_PACKET", "BAD_CHECKSUM"}}
  IN  (pc = "sonar" /\ cmd # NoPacket)
        => IF cmd.type \in CommandTypes THEN \E i \in DOMAIN out : answers = {i}
           ELSE answers = {}

\* The check that ends a move or a turn is right up to the low byte of a
\* counter: it stops less than ByteBase before the target, and it never
\* overlooks a target that was passed when the check began.
StopsInTime ==
  [][/\ pc = "distHigh" /\ pc' # pc =>
          /\ dir' = STOP => dist[dir] + ByteBase > newDist
          /\ dir' # STOP => low <= newDist
     /\ pc = "ticksHigh" /\ pc' # pc =>
          /\ dir' = STOP => TurnCounter(dir) + ByteBase > targetTicks
          /\ dir' # STOP => low < targetTicks]_vars

(***************************************************************************)
(* The wheels have covered a limited move since it began, with the low     *)
(* byte a torn read may add to the target.                                 *)
(***************************************************************************)
Covered ==
  /\ limit > 0
  /\ \/ dir \in Straight /\ DistOf(moved) >= limit + ByteBase
     \/ dir \in Turns /\ moved >= limit + ByteBase

\* The counters have not been cleared since the move began.
Armed == \/ dir \in Straight /\ deltaDist > 0
         \/ dir \in Turns /\ deltaTicks > 0

\* A move of limited distance or angle ends once the wheels have covered it,
\* unless another command replaces it or clearCounters() disarms its target.
ArmedMoveEnds == (Covered /\ Armed) ~> ~(Covered /\ Armed)

\* "param[0] = distance in cm to move" (constants.h:37): the same of every
\* move, whatever happened to the counters.
CoveredMoveEnds == Covered ~> ~Covered

\* The robot does what Drive promises.  A movement command is an order from
\* the moment its handler has it until its motion begins or, when timed, until
\* the stop() that ends it.
MoveOrder == [to |-> cmd.op, timed |-> cmd.type = "TIME",
              limited |-> Limit(cmd) > 0]
NoMove == [to |-> STOP, timed |-> FALSE, limited |-> FALSE]

D == INSTANCE Drive WITH
  Courses <- Moves, Watching <- FORWARD, Rest <- STOP, NoOrder <- NoMove,
  heard <- handled % 2,
  course <- dir, watched <- preventCollision, limited <- limit > 0,
  order <- IF pc \in {"arm", "timed"} THEN MoveOrder ELSE NoMove,
  begun <- pc = "timed"

Drives == D!Spec

\* However the interrupts fall, a movement packet that was handled begins its
\* motion, and a timed one ends it.
KeepsOrders == D!Live

\* "param[0] = distance in cm to move" (constants.h:37): a move ends for its
\* distance only when the odometer has passed the target.
NeverCutShort ==
  [][(pc = "distHigh" /\ dir' = STOP) => dist[dir] > newDist]_vars
==============================================================================
