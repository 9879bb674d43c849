----------------------------- MODULE AlexProofs -----------------------------
(***************************************************************************)
(* Theorems about Alex, for every byte base, word size, packet set, sonar  *)
(* reading and bound.  The inductive invariant adds to the checked         *)
(* invariants what a two-step read of a counter relies on: the value its   *)
(* low byte came from is not above the counter, because between the two    *)
(* steps only interrupts run and they only count up.                       *)
(***************************************************************************)
EXTENDS Alex, TLAPS

ReadInProgress ==
  /\ pc = "distHigh" =>
       /\ dir \in Straight
       /\ deltaDist > 0
       /\ low <= dist[dir]
  /\ pc = "ticksHigh" =>
       /\ dir \in Turns
       /\ deltaTicks > 0
       /\ low <= TurnCounter(dir)
  /\ pc = "arm" =>
       /\ cmd \in Packets
       /\ cmd.type \in CommandTypes
       /\ cmd.op \in Moves
       /\ cmd.op \in Straight =>
            low <= dist[cmd.op] /\ deltaDist \in Distances(cmd)
       /\ cmd.op \in Turns =>
            low <= TurnCounter(cmd.op) /\ deltaTicks = Ticks(cmd)

\* The guard is on in timed moves as well, where it sleeps.
GuardOn == dir = FORWARD => preventCollision

IInv ==
  /\ TypeOK
  /\ QuietWhenStopped
  /\ GuardOn
  /\ TargetAsOrdered
  /\ TicksLeftBounded
  /\ OdometerAgrees
  /\ ReadInProgress

------------------------------------------------------------------------------
(***************************************************************************)
(* Numbers.                                                                *)
(***************************************************************************)
LEMMA Constants ==
  /\ ByteBase \in Nat \ {0}
  /\ Word \in Nat \ {0}
  /\ Mantissa \in Nat \ {0}
  /\ NoLimitDist \in Nat \ {0}
  /\ NoLimitTicks \in Nat \ {0}
  /\ MaxPackets \in Nat
  /\ MaxTicks \in Nat
BY NumbersAssumption

\* What % leaves is below the modulus and not above the number.
LEMMA Remainder ==
  ASSUME NEW n \in Nat, NEW m \in Nat \ {0}
  PROVE  n % m \in 0 .. m - 1 /\ n % m <= n
OBVIOUS

\* A load of a counter that only grows while it is read returns a value that
\* the counter had passed when the load began, and is at most a low byte above
\* the one it has when the load ends.
LEMMA TornBounds ==
  ASSUME NEW old \in Nat, NEW new \in Nat, old <= new
  PROVE  /\ Torn(old, new) \in Nat
         /\ old <= Torn(old, new)
         /\ Torn(old, new) < new + ByteBase
         /\ new < Torn(old, new) + ByteBase
<1>1. /\ old % ByteBase \in 0 .. ByteBase - 1
      /\ new % ByteBase \in 0 .. ByteBase - 1
      /\ new % ByteBase <= new
  BY Remainder, Constants
<1>2. /\ old = ByteBase * (old \div ByteBase) + (old % ByteBase)
      /\ new = ByteBase * (new \div ByteBase) + (new % ByteBase)
      /\ old \div ByteBase \in Nat
      /\ new \div ByteBase \in Nat
  BY Constants
<1>3. old \div ByteBase <= new \div ByteBase
  <2> DEFINE a == old \div ByteBase
             b == new \div ByteBase
  <2> SUFFICES ASSUME a >= b + 1 PROVE FALSE
    BY <1>2
  <2>1. a \in Nat /\ b \in Nat
    BY <1>2
  <2> HIDE DEF a, b
  <2>2. ByteBase * a = ByteBase * b + ByteBase * (a - b)
    BY <2>1, Constants
  <2>3. ByteBase * (a - b) >= ByteBase
    BY <2>1, Constants
  <2>4. old >= ByteBase * b + ByteBase
    BY <1>1, <1>2, <2>1, <2>2, <2>3, Constants DEF a, b
  <2> QED BY <1>1, <1>2, <2>1, <2>4, Constants DEF b
<1>4. ByteBase * (old \div ByteBase) <= ByteBase * (new \div ByteBase)
  BY <1>2, <1>3, Constants
<1> QED BY <1>1, <1>2, <1>4, Constants DEF Torn

\* The distance of a counter grows with it.
LEMMA DistGrows ==
  ASSUME NEW t \in Nat
  PROVE  DistOf(t) \in Nat /\ DistOf(t) <= DistOf(t + 1)
BY DEF DistOf

LEMMA PowerInRange ==
  ASSUME NEW speed \in Nat
  PROVE  Power(speed) \in 0 .. 255
BY DEF Power

\* A float is a natural number, and the number itself below 2^24.
LEMMA FloatOf ==
  ASSUME NEW n \in 0 .. Word - 1
  PROVE  Rounded(n) \in Nat /\ (n < Mantissa => Rounded(n) = n)
<1> DEFINE fits == {u \in {1, 2, 4, 8, 16, 32, 64, 128, 256} : n < u * Mantissa}
           u == Ulp(n)
           q == n \div u
           r == n % u
<1>1. n \in Nat /\ Mantissa \in Nat \ {0} /\ n < 256 * Mantissa
  BY Constants, NumbersAssumption
<1>2. \E w \in fits : \A v \in fits : w <= v
  BY <1>1
<1>3. u \in fits /\ \A v \in fits : u <= v
  BY <1>2 DEF Ulp
<1>4. u \in Nat \ {0} /\ (n < Mantissa => u = 1)
  <2>1. u \in {1, 2, 4, 8, 16, 32, 64, 128, 256}
    BY <1>3
  <2>2. n < Mantissa => 1 \in fits
    BY <1>1
  <2> HIDE DEF fits, u
  <2> QED BY <1>3, <2>1, <2>2
<1>5. Rounded(n) = IF 2 * r > u \/ (2 * r = u /\ q % 2 = 1)
                   THEN (q + 1) * u ELSE q * u
  BY DEF Rounded
<1> HIDE DEF u
<1>6. q \in Nat /\ r \in Nat
  BY <1>1, <1>4
<1>7. u = 1 => q = n /\ r = 0
  BY <1>1
<1> HIDE DEF q, r
<1>8. (q + 1) * u \in Nat /\ q * u \in Nat
  BY <1>4, <1>6
<1> QED BY <1>1, <1>4, <1>5, <1>6, <1>7, <1>8

\* What a movement packet asks for.
LEMMA PacketNumbers ==
  ASSUME NEW p \in Packets, p.type \in CommandTypes
  PROVE  /\ Distances(p) \subseteq Nat
         /\ Ticks(p) \in Nat \ {0}
         /\ Speed(p) \in Nat
         /\ Limit(p) \in Nat
<1>1. p.params[1] \in 0 .. Word - 1 /\ p.params[1] \in Nat /\ p.params[2] \in Nat
  BY PacketsAssumption, Constants
<1> DEFINE f == Rounded(p.params[1])
<1>5. f \in Nat
  BY <1>1, FloatOf
<1> HIDE DEF f
<1>2. computeDeltaTicks(f) \in Nat \ {0}
  BY <1>5 DEF computeDeltaTicks
<1>6. ToULong(f) \subseteq Nat
  BY <1>5, NumbersAssumption, Constants DEF ToULong
<1>3. Ticks(p) \in Nat \ {0}
  BY <1>2, Constants DEF Ticks, f
<1>4. Speed(p) \in Nat
  BY <1>1 DEF Speed, CommandTypes
<1>7. Distances(p) \subseteq Nat
  BY <1>6, Constants DEF Distances, f
<1> QED BY <1>1, <1>3, <1>4, <1>7, Constants DEF Limit

LEMMA Disjoint ==
  /\ Straight \cap Turns = {}
  /\ STOP \notin Straight /\ STOP \notin Turns /\ STOP \notin Moves
BY DEF Moves, Straight, Turns, STOP, FORWARD, BACKWARD, LEFT, RIGHT

LEMMA OdometerRange ==
  ASSUME IInv, NEW d \in Straight, pc # "clear"
  PROVE  dist[d] \in Nat /\ dist[d] <= DistOf(MaxTicks)
<1>1. dist[d] \in {0, DistOf(left[d])} /\ left[d] \in 0 .. MaxTicks
  BY DEF IInv, OdometerAgrees, TypeOK, Moves
<1>2. DistOf(left[d]) \in Nat /\ DistOf(left[d]) <= DistOf(MaxTicks)
  BY <1>1, Constants DEF DistOf
<1> QED BY <1>1, <1>2, Constants DEF DistOf

------------------------------------------------------------------------------
LEMMA InitIInv == Init => IInv
<1> SUFFICES ASSUME Init PROVE IInv
  OBVIOUS
<1> USE Constants DEF Init
<1>1. TypeOK
  <2>1. 0 \in 0 .. MaxTicks /\ 0 \in 0 .. MaxPackets
    OBVIOUS
  <2>2. {deltaDist, newDist, deltaTicks, targetTicks} \subseteq Nat
    OBVIOUS
  <2>3. /\ left \in [Moves -> 0 .. MaxTicks]
        /\ right \in [Moves -> 0 .. MaxTicks]
        /\ dist \in [Straight -> Nat]
    BY <2>1
  <2>4. pc \in LoopPoints /\ dir \in Moves \cup {STOP} /\ power \in 0 .. 255
    BY DEF LoopPoints
  <2>5. out \in Seq(Replies) /\ cmd \in Packets \cup {NoPacket}
    OBVIOUS
  <2>6. preventCollision \in BOOLEAN
    OBVIOUS
  <2> QED
    BY <2>1, <2>2, <2>3, <2>4, <2>5, <2>6 DEF TypeOK
<1>2. QuietWhenStopped /\ GuardOn
  BY DEF QuietWhenStopped, GuardOn, STOP, FORWARD
<1>3. TargetAsOrdered /\ TicksLeftBounded
  BY DEF TargetAsOrdered, TicksLeftBounded
<1>4. OdometerAgrees /\ ReadInProgress
  BY DEF OdometerAgrees, ReadInProgress
<1> QED BY <1>1, <1>2, <1>3, <1>4 DEF IInv

\* What an encoder tick does to the counters: they only grow, and an odometer
\* that agreed with its counter grows with it.
LEMMA TickGrows ==
  ASSUME IInv, leftISR \/ rightISR
  PROVE  /\ left' \in [Moves -> 0 .. MaxTicks]
         /\ right' \in [Moves -> 0 .. MaxTicks]
         /\ dist' \in [Straight -> Nat]
         /\ moved' \in Nat
         /\ \A d \in Turns : TurnCounter(d) <= TurnCounter(d)'
         /\ pc # "clear" => \A d \in Straight :
              dist[d] <= dist'[d] /\ dist'[d] \in {0, DistOf(left'[d])}
<1> USE Constants
<1>1. /\ left \in [Moves -> 0 .. MaxTicks] /\ right \in [Moves -> 0 .. MaxTicks]
      /\ dist \in [Straight -> Nat] /\ moved \in Nat
  BY DEF IInv, TypeOK
<1>2. LEFT \in Moves /\ RIGHT \in Moves /\ \A d \in Straight : d \in Moves
  BY DEF Moves, Turns, Straight
<1>3. CASE leftISR
  <2>1. /\ dir \in Moves /\ left[dir] < MaxTicks /\ left[dir] \in Nat
        /\ left' = [left EXCEPT ![dir] = @ + 1]
        /\ right' = right
    BY <1>1, <1>3 DEF leftISR
  <2>2. left' \in [Moves -> 0 .. MaxTicks]
    BY <1>1, <2>1
  <2>3. \A d \in Moves : left[d] \in Nat /\ left'[d] \in Nat /\ left[d] <= left'[d]
    BY <1>1, <2>1
  <2>4. \A d \in Turns : TurnCounter(d) <= TurnCounter(d)'
    BY <1>1, <1>2, <2>1, <2>3 DEF TurnCounter
  <2>5. dist' \in [Straight -> Nat]
    <3>1. dist' = IF dir \in Straight
                  THEN [dist EXCEPT ![dir] = DistOf(left[dir] + 1)] ELSE dist
      BY <1>3 DEF leftISR
    <3>2. DistOf(left[dir] + 1) \in Nat
      BY <2>1, DistGrows
    <3> QED BY <1>1, <3>1, <3>2
  <2>6. ASSUME pc # "clear", NEW d \in Straight
        PROVE  dist[d] <= dist'[d] /\ dist'[d] \in {0, DistOf(left'[d])}
    <3>1. dist[d] \in {0, DistOf(left[d])}
      BY <2>6 DEF IInv, OdometerAgrees
    <3>2. CASE d = dir
      <4>1. left'[d] = left[d] + 1 /\ dist'[d] = DistOf(left[d] + 1)
        BY <1>1, <1>2, <1>3, <2>1, <3>2 DEF leftISR
      <4>2. DistOf(left[d]) <= DistOf(left[d] + 1) /\ DistOf(left[d] + 1) \in Nat
        BY <2>1, <3>2, DistGrows
      <4> QED BY <3>1, <4>1, <4>2
    <3>3. CASE d # dir
      <4>1. left'[d] = left[d] /\ dist'[d] = dist[d]
        BY <1>1, <1>2, <1>3, <2>1, <3>3 DEF leftISR
      <4>2. dist[d] \in Nat
        BY <1>1
      <4> QED BY <3>1, <4>1, <4>2
    <3> QED BY <3>2, <3>3
  <2>7. moved' \in Nat
    BY <1>1, <1>3 DEF leftISR
  <2> QED BY <1>1, <2>1, <2>2, <2>4, <2>5, <2>6, <2>7
<1>4. CASE rightISR
  <2>1. /\ dir \in Moves /\ right[dir] < MaxTicks /\ right[dir] \in Nat
        /\ right' = [right EXCEPT ![dir] = @ + 1]
        /\ left' = left /\ dist' = dist
    BY <1>1, <1>4 DEF rightISR
  <2>2. right' \in [Moves -> 0 .. MaxTicks]
    BY <1>1, <2>1
  <2>3. \A d \in Moves : right[d] \in Nat /\ right'[d] \in Nat /\ right[d] <= right'[d]
    BY <1>1, <2>1
  <2>4. \A d \in Turns : TurnCounter(d) <= TurnCounter(d)'
    BY <1>1, <1>2, <2>1, <2>3 DEF TurnCounter
  <2>5. moved' \in Nat
    BY <1>1, <1>4 DEF rightISR
  <2>6. ASSUME pc # "clear", NEW d \in Straight
        PROVE  dist[d] <= dist'[d] /\ dist'[d] \in {0, DistOf(left'[d])}
    BY <1>1, <2>1, <2>6 DEF IInv, OdometerAgrees
  <2> QED BY <1>1, <2>1, <2>2, <2>4, <2>5, <2>6
<1> QED BY <1>3, <1>4

LEMMA TickKeepsIInv ==
  ASSUME IInv, leftISR \/ rightISR
  PROVE  IInv'
<1>1. /\ dir \in Moves
      /\ UNCHANGED <<pc, motion, targets, low, cmd, out, handled, limit>>
  BY DEF leftISR, rightISR
<1>2. /\ left' \in [Moves -> 0 .. MaxTicks]
      /\ right' \in [Moves -> 0 .. MaxTicks]
      /\ dist' \in [Straight -> Nat]
      /\ moved' \in Nat
      /\ \A d \in Turns : TurnCounter(d) <= TurnCounter(d)'
      /\ pc # "clear" => \A d \in Straight :
           dist[d] <= dist'[d] /\ dist'[d] \in {0, DistOf(left'[d])}
  BY TickGrows
<1>3. \A d \in Turns : TurnCounter(d) \in Nat /\ TurnCounter(d)' \in Nat
  BY <1>2, Constants DEF TurnCounter, IInv, TypeOK, Turns, Moves
<1>4. /\ dist \in [Straight -> Nat] /\ low \in Nat
      /\ deltaDist \in Nat /\ newDist \in Nat /\ deltaTicks \in Nat /\ targetTicks \in Nat
  BY DEF IInv, TypeOK
<1>5. TypeOK'
  BY <1>1, <1>2 DEF IInv, TypeOK, motion, targets
<1>6. QuietWhenStopped'
  BY <1>1 DEF IInv, QuietWhenStopped, motion, targets
<1>7. GuardOn'
  BY <1>1 DEF IInv, GuardOn, motion
<1>8. TargetAsOrdered'
  <2>1. ASSUME dir \in Straight PROVE StartDist' = StartDist
    <3>1. left \in [Moves -> 0 .. MaxTicks] /\ moved \in Nat /\ dir # RIGHT
      BY <2>1 DEF IInv, TypeOK, Straight, FORWARD, BACKWARD, RIGHT
    <3>2. left'[dir] - moved' = left[dir] - moved
      BY <1>1, <3>1, Constants DEF leftISR, rightISR
    <3> QED BY <1>1, <3>2 DEF StartDist, motion
  <2> QED
    BY <1>1, <2>1, Zenon DEF IInv, TargetAsOrdered, motion, targets
<1>9. TicksLeftBounded'
  <2> SUFFICES ASSUME pc \notin {"arm", "clear"}, dir \in Turns, deltaTicks > 0
               PROVE  targetTicks < TurnCounter(dir)' + deltaTicks + ByteBase
    BY <1>1 DEF TicksLeftBounded, motion, targets
  <2>1. targetTicks < TurnCounter(dir) + deltaTicks + ByteBase
    BY DEF IInv, TicksLeftBounded
  <2>2. TurnCounter(dir) <= TurnCounter(dir)'
    BY <1>1, <1>2 DEF motion
  <2> QED BY <1>1, <1>3, <1>4, <2>1, <2>2, Constants DEF motion
<1>10. OdometerAgrees'
  BY <1>1, <1>2 DEF OdometerAgrees
<1>11. ReadInProgress'
  BY <1>1, <1>2, <1>3, <1>4 DEF IInv, ReadInProgress, motion, targets
<1> QED BY <1>5, <1>6, <1>7, <1>8, <1>9, <1>10, <1>11 DEF IInv

------------------------------------------------------------------------------
(***************************************************************************)
(* Steps of the main program.  Most either leave the motion alone or end   *)
(* in stop(): one lemma for each kind.                                     *)
(***************************************************************************)
Resting == LoopPoints \ {"distHigh", "ticksHigh", "arm", "clear"}

\* The variables no part of the invariant but TypeOK speaks of.
Scratch ==
  /\ low \in Nat
  /\ cmd \in Packets \cup {NoPacket}
  /\ out \in Seq(Replies)
  /\ handled \in 0 .. MaxPackets

\* A step that leaves the motion, the counters and the targets alone leaves the
\* targets where they were ordered.
LEMMA TargetsStay ==
  ASSUME TargetAsOrdered, TicksLeftBounded, pc \notin {"arm", "clear"},
         UNCHANGED <<motion, encoders, targets, history>>
  PROVE  TargetAsOrdered' /\ TicksLeftBounded'
<1>1. StartDist' = StartDist /\ \A d \in Turns : TurnCounter(d)' = TurnCounter(d)
  BY DEF StartDist, TurnCounter, motion, encoders, history
<1>2. TargetAsOrdered'
  BY <1>1, Zenon DEF TargetAsOrdered, motion, targets, history
<1>3. TicksLeftBounded'
  BY <1>1 DEF TicksLeftBounded, motion, targets
<1> QED BY <1>2, <1>3

LEMMA UnmovedKeepsIInv ==
  ASSUME IInv, pc \notin {"arm", "clear"}, pc' \in Resting, Scratch',
         UNCHANGED <<motion, encoders, targets, history>>
  PROVE  IInv'
<1>1. TypeOK'
  BY DEF IInv, TypeOK, Resting, Scratch, motion, encoders, targets, history
<1>2. QuietWhenStopped' /\ GuardOn'
  BY DEF IInv, QuietWhenStopped, GuardOn, motion, targets
<1>3. TargetAsOrdered' /\ TicksLeftBounded'
  BY TargetsStay DEF IInv
<1>4. OdometerAgrees' /\ ReadInProgress'
  BY DEF IInv, OdometerAgrees, ReadInProgress, Resting, encoders
<1> QED BY <1>1, <1>2, <1>3, <1>4 DEF IInv

LEMMA StopKeepsIInv ==
  ASSUME IInv, pc # "clear", pc' \in Resting, Scratch', stop,
         newDist' \in Nat, targetTicks' \in Nat, UNCHANGED encoders
  PROVE  IInv'
<1>1. TypeOK'
  <2>1. {deltaDist', newDist', deltaTicks', targetTicks'} \subseteq Nat
    BY DEF stop
  <2>2. /\ dir' \in Moves \cup {STOP} /\ power' \in 0 .. 255
        /\ limit' \in Nat /\ moved' \in Nat
    BY DEF stop
  <2>3. preventCollision' \in BOOLEAN
    BY DEF stop
  <2> QED BY <2>1, <2>2, <2>3 DEF IInv, TypeOK, Resting, Scratch, encoders
<1>2. QuietWhenStopped' /\ GuardOn'
  BY DEF stop, QuietWhenStopped, GuardOn, STOP, FORWARD
<1>3. TargetAsOrdered' /\ TicksLeftBounded'
  BY DEF stop, TargetAsOrdered, TicksLeftBounded
<1>4. OdometerAgrees' /\ ReadInProgress'
  BY DEF IInv, OdometerAgrees, ReadInProgress, Resting, encoders
<1> QED BY <1>1, <1>2, <1>3, <1>4 DEF IInv

LEMMA SonarKeepsIInv == ASSUME IInv, Sonar PROVE IInv'
<1>1. pc = "sonar" /\ pc' = "dist" /\ pc' \in Resting
  BY DEF Sonar, Resting, LoopPoints
<1>2. CASE AutoStop
  <2>1. Scratch'
    BY <1>2 DEF Sonar, AutoStop, IInv, TypeOK, Scratch, Replies
  <2> QED
    BY <1>1, <1>2, <2>1, StopKeepsIInv DEF Sonar, AutoStop, IInv, TypeOK
<1>3. CASE PathClear
  <2>1. Scratch'
    BY <1>3 DEF Sonar, PathClear, IInv, TypeOK, Scratch
  <2> QED
    BY <1>1, <1>3, <2>1, UnmovedKeepsIInv DEF Sonar, PathClear
<1> QED BY <1>2, <1>3 DEF Sonar

\* A read of the odometer begins: the value taken is the counter's.
LEMMA ReadKeepsIInv ==
  ASSUME IInv, DistLow \/ TicksLow
  PROVE  IInv'
<1>1. CASE DistLow /\ pc' = "ticks"
  <2>1. Scratch' /\ pc' \in Resting
    BY <1>1 DEF DistLow, IInv, TypeOK, Scratch, Resting, LoopPoints
  <2> QED BY <1>1, <2>1, UnmovedKeepsIInv DEF DistLow
<1>2. CASE TicksLow /\ pc' = "serial"
  <2>1. Scratch' /\ pc' \in Resting
    BY <1>2 DEF TicksLow, IInv, TypeOK, Scratch, Resting, LoopPoints
  <2> QED BY <1>2, <2>1, UnmovedKeepsIInv DEF TicksLow
<1>3. CASE DistLow /\ pc' = "distHigh"
  <2>1. /\ pc = "dist" /\ deltaDist > 0 /\ dir \in Straight /\ low' = dist[dir]
        /\ UNCHANGED <<motion, encoders, targets, cmd, out, handled, history>>
    BY <1>3 DEF DistLow
  <2>2. dist[dir] \in Nat
    BY <2>1 DEF IInv, TypeOK
  <2>3. TypeOK'
    BY <1>3, <2>1, <2>2
    DEF IInv, TypeOK, LoopPoints, motion, encoders, targets, history
  <2>4. QuietWhenStopped' /\ GuardOn'
    BY <1>3, <2>1 DEF IInv, QuietWhenStopped, GuardOn, motion, targets
  <2>5. TargetAsOrdered' /\ TicksLeftBounded'
    BY <2>1, TargetsStay DEF IInv
  <2>6. OdometerAgrees' /\ ReadInProgress'
    BY <1>3, <2>1, <2>2
    DEF IInv, OdometerAgrees, ReadInProgress, motion, encoders, targets
  <2> QED BY <2>3, <2>4, <2>5, <2>6 DEF IInv
<1>4. CASE TicksLow /\ pc' = "ticksHigh"
  <2>1. /\ pc = "ticks" /\ deltaTicks > 0 /\ dir \in Turns
        /\ low' = TurnCounter(dir)
        /\ UNCHANGED <<motion, encoders, targets, cmd, out, handled, history>>
    BY <1>4 DEF TicksLow
  <2>2. TurnCounter(dir) \in Nat /\ TurnCounter(dir)' = TurnCounter(dir)
    BY <2>1, Constants
    DEF IInv, TypeOK, TurnCounter, Turns, Moves, motion, encoders
  <2>3. TypeOK'
    BY <1>4, <2>1, <2>2
    DEF IInv, TypeOK, LoopPoints, motion, encoders, targets, history
  <2>4. QuietWhenStopped' /\ GuardOn'
    BY <1>4, <2>1 DEF IInv, QuietWhenStopped, GuardOn, motion, targets
  <2>5. TargetAsOrdered' /\ TicksLeftBounded'
    BY <2>1, TargetsStay DEF IInv
  <2>6. OdometerAgrees' /\ ReadInProgress'
    BY <1>4, <2>1, <2>2
    DEF IInv, OdometerAgrees, ReadInProgress, motion, encoders, targets
  <2> QED BY <2>3, <2>4, <2>5, <2>6 DEF IInv
<1> QED BY <1>1, <1>2, <1>3, <1>4 DEF DistLow, TicksLow

LEMMA CheckKeepsIInv ==
  ASSUME IInv, DistHigh \/ TicksHigh
  PROVE  IInv'
<1>1. CASE DistHigh
  <2>1. pc = "distHigh" /\ Scratch' /\ pc' \in Resting
    BY <1>1 DEF DistHigh, IInv, TypeOK, Scratch, Resting, LoopPoints
  <2>2. CASE DistReached
    BY <1>1, <2>1, <2>2, StopKeepsIInv DEF DistHigh, IInv, TypeOK
  <2>3. CASE ~DistReached
    BY <1>1, <2>1, <2>3, UnmovedKeepsIInv DEF DistHigh
  <2> QED BY <2>2, <2>3
<1>2. CASE TicksHigh
  <2>1. pc = "ticksHigh" /\ Scratch' /\ pc' \in Resting
    BY <1>2 DEF TicksHigh, IInv, TypeOK, Scratch, Resting, LoopPoints
  <2>2. CASE TicksReached
    BY <1>2, <2>1, <2>2, StopKeepsIInv DEF TicksHigh, IInv, TypeOK
  <2>3. CASE ~TicksReached
    BY <1>2, <2>1, <2>3, UnmovedKeepsIInv DEF TicksHigh
  <2> QED BY <2>2, <2>3
<1> QED BY <1>1, <1>2

\* The ends of the pauses, and a turn of the loop that reads nothing or reads
\* garbage.
LEMMA PassKeepsIInv ==
  ASSUME IInv, DistPause \/ TicksPause \/ NothingRead \/ BadRead
  PROVE  IInv'
<1>1. /\ pc \notin {"arm", "clear"} /\ pc' \in Resting
      /\ UNCHANGED <<motion, encoders, targets, low, cmd, history>>
  BY DEF DistPause, TicksPause, NothingRead, BadRead, Resting, LoopPoints
<1>2. /\ low' \in Nat /\ cmd' \in Packets \cup {NoPacket}
      /\ handled' \in 0 .. MaxPackets
  BY <1>1, Constants
  DEF DistPause, TicksPause, NothingRead, BadRead, IInv, TypeOK
<1>3. out' \in Seq(Replies)
  <2>1. out \in Seq(Replies)
    BY DEF IInv, TypeOK
  <2>2. CASE BadRead
    <3>1. PICK reply \in {"BAD_PACKET", "BAD_CHECKSUM"} : out' = Append(out, reply)
      BY <2>2 DEF BadRead
    <3>2. reply \in Replies
      BY DEF Replies
    <3> QED BY <2>1, <3>1, <3>2
  <2>3. CASE ~BadRead
    BY <2>1, <2>3 DEF DistPause, TicksPause, NothingRead
  <2> QED BY <2>2, <2>3
<1>4. Scratch'
  BY <1>2, <1>3 DEF Scratch
<1> QED BY <1>1, <1>4, UnmovedKeepsIInv

\* Packets that do not touch the motion.
LEMMA ReplyKeepsIInv ==
  ASSUME IInv, NEW p \in Packets,
         IgnorePacket(p) \/ HandleBadCommand(p) \/ HandleReport(p)
  PROVE  IInv'
<1>1. /\ pc = "serial" /\ pc' = "sonar" /\ cmd' = p /\ low' = low
      /\ handled < MaxPackets /\ handled' = handled + 1
      /\ UNCHANGED <<motion, encoders, targets, history>>
  BY DEF IgnorePacket, HandleBadCommand, HandleReport, Receive
<1>2. out \in Seq(Replies)
  BY DEF IInv, TypeOK
<1>3. out' \in Seq(Replies)
  <2>1. CASE IgnorePacket(p)
    BY <1>2, <2>1 DEF IgnorePacket
  <2>2. CASE HandleBadCommand(p)
    BY <1>2, <2>2 DEF HandleBadCommand, Replies
  <2>3. CASE HandleReport(p)
    <3>1. "OK" \in Replies /\ Reports[p.op] \in Replies
      BY <2>3 DEF HandleReport, Reports, Replies
    <3>2. Answer(p) \in Seq(Replies)
      BY <3>1 DEF Answer
    <3> QED BY <1>2, <2>3, <3>2 DEF HandleReport
  <2> QED BY <2>1, <2>2, <2>3
<1>4. Scratch' /\ pc' \in Resting
  BY <1>1, <1>3, Constants DEF IInv, TypeOK, Scratch, Resting, LoopPoints
<1> QED BY <1>1, <1>4, UnmovedKeepsIInv

LEMMA StopCommandKeepsIInv ==
  ASSUME IInv, TimeUp \/ \E p \in Packets : HandleStop(p)
  PROVE  IInv'
<1>1. CASE TimeUp
  <2>1. pc = "timed" /\ pc' \in Resting /\ Scratch'
    BY <1>1 DEF TimeUp, IInv, TypeOK, Scratch, Resting, LoopPoints
  <2> QED BY <1>1, <2>1, StopKeepsIInv DEF TimeUp, IInv, TypeOK
<1>2. CASE \E p \in Packets : HandleStop(p)
  <2> PICK p \in Packets : HandleStop(p)
    BY <1>2
  <2>1. /\ pc = "serial" /\ pc' \in Resting /\ cmd' = p /\ low' = low
        /\ handled' \in 0 .. MaxPackets
    BY Constants DEF HandleStop, Receive, Resting, LoopPoints, IInv, TypeOK
  <2>2. out' \in Seq(Replies)
    BY DEF HandleStop, IInv, TypeOK, Replies
  <2>3. Scratch'
    BY <2>1, <2>2 DEF Scratch, IInv, TypeOK
  <2> QED BY <2>1, <2>3, StopKeepsIInv DEF HandleStop, IInv, TypeOK
<1> QED BY <1>1, <1>2

\* The two halves of clearCounters(): between them nothing relates a counter
\* to its odometer or to a target, and after them nothing is armed.
LEMMA ClearKeepsIInv ==
  ASSUME IInv, ClearTargets \/ \E p \in Packets : HandleClear(p)
  PROVE  IInv'
<1>1. CASE ClearTargets
  <2>1. /\ pc' = "sonar" /\ dist' = [d \in Straight |-> 0]
        /\ deltaDist' = 0 /\ newDist' = 0 /\ deltaTicks' = 0 /\ targetTicks' = 0
        /\ UNCHANGED <<motion, left, right, low, cmd, out, handled, history>>
    BY <1>1 DEF ClearTargets
  <2>2. TypeOK'
    BY <2>1 DEF IInv, TypeOK, LoopPoints, motion, history
  <2>3. QuietWhenStopped' /\ GuardOn'
    BY <2>1 DEF IInv, QuietWhenStopped, GuardOn, motion
  <2>4. TargetAsOrdered' /\ TicksLeftBounded'
    BY <2>1 DEF TargetAsOrdered, TicksLeftBounded
  <2>5. OdometerAgrees' /\ ReadInProgress'
    BY <2>1 DEF OdometerAgrees, ReadInProgress
  <2> QED BY <2>2, <2>3, <2>4, <2>5 DEF IInv
<1>2. CASE \E p \in Packets : HandleClear(p)
  <2> PICK p \in Packets : HandleClear(p)
    BY <1>2
  <2>1. /\ pc = "serial" /\ pc' = "clear" /\ cmd' = p
        /\ left' = [d \in Moves |-> 0] /\ right' = [d \in Moves |-> 0]
        /\ UNCHANGED <<motion, dist, targets, low, history>>
        /\ handled' \in 0 .. MaxPackets
    BY Constants DEF HandleClear, Receive, IInv, TypeOK
  <2>2. out' \in Seq(Replies)
    BY DEF HandleClear, IInv, TypeOK, Replies
  <2>3. /\ left' \in [Moves -> 0 .. MaxTicks]
        /\ right' \in [Moves -> 0 .. MaxTicks]
    BY <2>1, Constants
  <2>4. TypeOK'
    BY <2>1, <2>2, <2>3 DEF IInv, TypeOK, LoopPoints, motion, targets, history
  <2>5. QuietWhenStopped' /\ GuardOn'
    BY <2>1 DEF IInv, QuietWhenStopped, GuardOn, motion, targets
  <2>6. TargetAsOrdered' /\ TicksLeftBounded'
    BY <2>1 DEF TargetAsOrdered, TicksLeftBounded
  <2>7. OdometerAgrees' /\ ReadInProgress'
    BY <2>1 DEF OdometerAgrees, ReadInProgress
  <2> QED BY <2>4, <2>5, <2>6, <2>7 DEF IInv
<1> QED BY <1>1, <1>2

LEMMA MoveCommandKeepsIInv ==
  ASSUME IInv, NEW p \in Packets, HandleMove(p)
  PROVE  IInv'
<1>1. /\ pc = "serial" /\ pc' = "arm" /\ cmd' = p
      /\ p.type \in CommandTypes /\ p.op \in Moves
      /\ UNCHANGED <<motion, encoders, newDist, targetTicks, history>>
      /\ handled' \in 0 .. MaxPackets
  BY Constants DEF HandleMove, Receive, IInv, TypeOK
<1>2. out' \in Seq(Replies)
  BY DEF HandleMove, IInv, TypeOK, Replies
<1>3. \A d \in Turns : TurnCounter(d) \in Nat /\ TurnCounter(d)' = TurnCounter(d)
  BY <1>1, Constants DEF IInv, TypeOK, TurnCounter, Turns, Moves, encoders
<1>4. deltaDist' \in Nat /\ deltaTicks' \in Nat
  BY <1>1, PacketNumbers DEF HandleMove, IInv, TypeOK
<1>5. CASE p.op \in Straight
  <2>1. low' = dist[p.op] /\ low' \in Nat /\ p.op \notin Turns
    BY <1>5 DEF HandleMove, IInv, TypeOK, Straight, Turns, FORWARD, BACKWARD,
                LEFT, RIGHT
  <2>2. TypeOK'
    BY <1>1, <1>2, <1>4, <2>1
    DEF IInv, TypeOK, LoopPoints, motion, encoders, history
  <2>3. QuietWhenStopped' /\ GuardOn'
    BY <1>1 DEF IInv, QuietWhenStopped, GuardOn, motion
  <2>4. TargetAsOrdered' /\ TicksLeftBounded'
    BY <1>1 DEF TargetAsOrdered, TicksLeftBounded
  <2>5. OdometerAgrees'
    BY <1>1 DEF IInv, OdometerAgrees, encoders
  <2>6. dist' = dist /\ dist[p.op] \in Nat
    BY <1>1, <1>5 DEF encoders, IInv, TypeOK
  <2>7. deltaDist' \in Distances(p) /\ Distances(p)' = Distances(p)
    BY <1>5, <2>1 DEF HandleMove, Distances
  <2>8. ReadInProgress'
    BY <1>1, <2>1, <2>6, <2>7 DEF ReadInProgress
  <2> QED BY <2>2, <2>3, <2>4, <2>5, <2>8 DEF IInv
<1>6. CASE p.op \in Turns
  <2>1. low' = TurnCounter(p.op) /\ low' \in Nat /\ p.op \notin Straight
    BY <1>3, <1>6 DEF HandleMove, Straight, Turns, FORWARD, BACKWARD, LEFT, RIGHT
  <2>2. TypeOK'
    BY <1>1, <1>2, <1>4, <2>1, SMTT(20)
    DEF IInv, TypeOK, LoopPoints, motion, encoders, history
  <2>3. QuietWhenStopped' /\ GuardOn'
    BY <1>1 DEF IInv, QuietWhenStopped, GuardOn, motion
  <2>4. TargetAsOrdered' /\ TicksLeftBounded'
    BY <1>1 DEF TargetAsOrdered, TicksLeftBounded
  <2>5. OdometerAgrees'
    BY <1>1 DEF IInv, OdometerAgrees, encoders
  <2>6. deltaTicks' = Ticks(p)
    BY <1>6, <2>1 DEF HandleMove
  <2>7. ReadInProgress'
    BY <1>1, <1>3, <1>6, <2>1, <2>6 DEF ReadInProgress
  <2> QED BY <2>2, <2>3, <2>4, <2>5, <2>7 DEF IInv
<1> QED BY <1>1, <1>5, <1>6 DEF Moves

\* The target a movement command arms is the distance asked for away, up to a
\* low byte, because the counter only grew while it was read.
LEMMA ArmKeepsIInv ==
  ASSUME IInv, Arm
  PROVE  IInv'
<1>1. /\ pc = "arm" /\ cmd \in Packets /\ cmd.type \in CommandTypes
      /\ cmd.op \in Moves
      /\ cmd.op \in Straight => low <= dist[cmd.op]
      /\ cmd.op \in Turns => low <= TurnCounter(cmd.op)
  BY DEF Arm, IInv, ReadInProgress
<1>2. /\ dir' = cmd.op /\ power' = Power(Speed(cmd)) /\ low' = 0
      /\ limit' = Limit(cmd) /\ moved' = 0
      /\ pc' \in {"timed", "sonar"}
      /\ UNCHANGED <<encoders, deltaDist, deltaTicks, cmd, out, handled>>
  BY DEF Arm
<1>3. preventCollision' \in BOOLEAN /\ (cmd.op = FORWARD => preventCollision')
  BY Zenon DEF Arm
<1>4. power' \in 0 .. 255 /\ limit' \in Nat
  BY <1>1, <1>2, PacketNumbers, PowerInRange
<1>5. /\ low \in Nat /\ deltaDist \in Nat /\ deltaTicks \in Nat
      /\ newDist \in Nat /\ targetTicks \in Nat
  BY DEF IInv, TypeOK
<1>6. \A d \in Turns : TurnCounter(d) \in Nat /\ TurnCounter(d)' = TurnCounter(d)
  BY <1>2, Constants DEF IInv, TypeOK, TurnCounter, Turns, Moves, encoders
<1>7. Straight \cap Turns = {}
  BY DEF Straight, Turns, FORWARD, BACKWARD, LEFT, RIGHT
<1>8. ASSUME cmd.op \in Straight
      PROVE  /\ {deltaDist', newDist', deltaTicks', targetTicks'} \subseteq Nat
             /\ TargetAsOrdered'
             /\ TicksLeftBounded'
  <2> DEFINE t == Torn(low, dist[cmd.op])
             s == dist[cmd.op]
             e == t - s
  <2>1. newDist' = (t + deltaDist) % Word /\ targetTicks' = targetTicks
    BY <1>7, <1>8 DEF Arm
  <2>2. /\ s \in Nat /\ s <= DistOf(MaxTicks) /\ DistOf(MaxTicks) \in Nat
        /\ s \in {0, StartDist'}
    <3>1. s \in Nat /\ s <= DistOf(MaxTicks)
      BY <1>1, <1>8, OdometerRange
    <3>2. left[cmd.op] \in Nat
      BY <1>1, Constants DEF IInv, TypeOK
    <3>3. StartDist' = DistOf(left[cmd.op])
      BY <1>2, <3>2 DEF StartDist, encoders
    <3>4. s \in {0, DistOf(left[cmd.op])}
      BY <1>1, <1>8 DEF IInv, OdometerAgrees
    <3> QED BY <3>1, <3>3, <3>4, Constants DEF DistOf
  <2>3. t \in Nat /\ t < s + ByteBase /\ s < t + ByteBase
    BY <1>1, <1>5, <1>8, <2>2, TornBounds
  <2>4. deltaDist \in Nat
    BY <1>5
  <2>5. limit' \in 1 .. Mantissa - 1 => deltaDist = limit'
    <3> SUFFICES ASSUME limit' \in 1 .. Mantissa - 1 PROVE deltaDist = limit'
      OBVIOUS
    <3>1. cmd.type = "PARAM" /\ limit' = cmd.params[1] /\ limit' > 0
      BY <1>2, <1>8, Constants DEF Limit
    <3>2. limit' \in 0 .. Word - 1
      BY <1>1, <3>1, PacketsAssumption
    <3>3. Rounded(limit') = limit'
      BY <3>2, FloatOf, Constants
    <3>4. ToULong(limit') = {limit'}
      BY <3>2, Constants DEF ToULong
    <3>5. deltaDist \in Distances(cmd)
      BY <1>1, <1>8 DEF IInv, ReadInProgress
    <3> QED BY <3>1, <3>3, <3>4, <3>5 DEF Distances
  <2> HIDE DEF t, s
  <2>6. e \in 1 - ByteBase .. ByteBase - 1 /\ t + deltaDist = s + deltaDist + e
    BY <2>2, <2>3, <2>4, Constants
  <2>7. newDist' \in Nat
    BY <2>1, <2>3, <2>4, Remainder, Constants
  <2>8. limit' \in 1 .. Mantissa - 1 => newDist' = s + limit' + e
    <3> SUFFICES ASSUME limit' \in 1 .. Mantissa - 1 PROVE newDist' = s + limit' + e
      OBVIOUS
    <3>1. t + deltaDist \in 0 .. Word - 1
      <4>1. t + deltaDist < DistOf(MaxTicks) + ByteBase + Mantissa
        BY <2>2, <2>3, <2>4, <2>5, Constants
      <4>2. DistOf(MaxTicks) + ByteBase + Mantissa <= Word
        BY RangeAssumption
      <4> QED BY <2>2, <2>3, <2>4, <4>1, <4>2, Constants
    <3>2. (t + deltaDist) % Word = t + deltaDist
      BY <3>1, Constants
    <3> QED BY <2>1, <2>5, <2>6, <3>2
  <2>9. TargetAsOrdered'
    <3>1. newDist' = (s + deltaDist' + e) % Word
      BY <1>2, <2>1, <2>6
    <3> HIDE DEF e
    <3>2. \E start \in {0, StartDist'}, x \in 1 - ByteBase .. ByteBase - 1 :
            /\ newDist' = (start + deltaDist' + x) % Word
            /\ limit' \in 1 .. Mantissa - 1 => newDist' = start + limit' + x
      BY <2>2, <2>6, <2>8, <3>1, Zenon
    <3> QED BY <3>2, Zenon DEF TargetAsOrdered
  <2>10. {deltaDist', newDist', deltaTicks', targetTicks'} \subseteq Nat
    BY <1>2, <1>5, <2>1, <2>7
  <2> QED BY <1>2, <1>7, <1>8, <2>9, <2>10 DEF TicksLeftBounded
<1>9. ASSUME cmd.op \in Turns
      PROVE  /\ {deltaDist', newDist', deltaTicks', targetTicks'} \subseteq Nat
             /\ TargetAsOrdered'
             /\ TicksLeftBounded'
  <2>1. /\ targetTicks' = (Torn(low, TurnCounter(cmd.op)) + deltaTicks) % Word
        /\ newDist' = newDist
    BY <1>7, <1>9 DEF Arm
  <2>2. TurnCounter(cmd.op) \in Nat /\ TurnCounter(dir') = TurnCounter(cmd.op)
    BY <1>2, <1>6, <1>9
  <2>3. /\ Torn(low, TurnCounter(cmd.op)) \in Nat
        /\ Torn(low, TurnCounter(cmd.op)) < TurnCounter(cmd.op) + ByteBase
    BY <1>1, <1>5, <1>9, <2>2, TornBounds
  <2>4. targetTicks' \in Nat
        /\ targetTicks' <= Torn(low, TurnCounter(cmd.op)) + deltaTicks
    <3> DEFINE n == Torn(low, TurnCounter(cmd.op)) + deltaTicks
    <3>1. n \in Nat
      BY <1>5, <2>3
    <3> HIDE DEF n
    <3>2. n % Word \in 0 .. Word - 1 /\ n % Word <= n
      BY <3>1, Remainder, Constants
    <3> QED BY <2>1, <3>1, <3>2, Constants DEF n
  <2>5. targetTicks' < TurnCounter(dir)' + deltaTicks' + ByteBase
    <3>1. TurnCounter(dir)' = TurnCounter(cmd.op)
      BY <1>2, <1>6, <1>9 DEF TurnCounter, encoders
    <3> QED BY <1>2, <1>5, <2>2, <2>3, <2>4, <3>1, Constants
  <2>6. {deltaDist', newDist', deltaTicks', targetTicks'} \subseteq Nat
    BY <1>2, <1>5, <2>1, <2>4
  <2>7. TargetAsOrdered' /\ TicksLeftBounded'
    BY <1>2, <1>7, <1>9, <2>5, Zenon DEF TargetAsOrdered, TicksLeftBounded
  <2> QED BY <2>6, <2>7
<1>10. /\ {deltaDist', newDist', deltaTicks', targetTicks'} \subseteq Nat
       /\ TargetAsOrdered'
       /\ TicksLeftBounded'
  BY <1>1, <1>8, <1>9, Zenon DEF Moves
<1>11. TypeOK'
  BY <1>1, <1>2, <1>3, <1>4, <1>10 DEF IInv, TypeOK, LoopPoints, encoders
<1>12. QuietWhenStopped'
  BY <1>1, <1>2
  DEF QuietWhenStopped, Moves, Straight, Turns, STOP, FORWARD, BACKWARD, LEFT, RIGHT
<1>13. GuardOn'
  BY <1>2, <1>3 DEF GuardOn
<1>14. OdometerAgrees' /\ ReadInProgress'
  BY <1>1, <1>2 DEF IInv, OdometerAgrees, ReadInProgress, encoders
<1> QED BY <1>10, <1>11, <1>12, <1>13, <1>14 DEF IInv

LEMMA StepIInv == IInv /\ [Next]_vars => IInv'
<1> SUFFICES ASSUME IInv, [Next]_vars PROVE IInv'
  OBVIOUS
<1>1. CASE UNCHANGED vars
  <2>1. StartDist' = StartDist /\ \A d \in Turns : TurnCounter(d)' = TurnCounter(d)
    BY <1>1 DEF vars, StartDist, TurnCounter, motion, encoders, history
  <2>2. TypeOK' /\ QuietWhenStopped' /\ GuardOn' /\ OdometerAgrees'
    BY <1>1
    DEF vars, motion, encoders, targets, history, IInv, TypeOK,
        QuietWhenStopped, GuardOn, OdometerAgrees
  <2>3. TargetAsOrdered'
    BY <1>1, <2>1, Zenon
    DEF vars, motion, targets, history, IInv, TargetAsOrdered
  <2>4. TicksLeftBounded'
    BY <1>1, <2>1 DEF vars, motion, targets, IInv, TicksLeftBounded
  <2>5. ReadInProgress'
    BY <1>1
    DEF vars, motion, encoders, targets, history, IInv, ReadInProgress, TurnCounter
  <2> QED BY <2>2, <2>3, <2>4, <2>5 DEF IInv
<1>2. CASE leftISR \/ rightISR
  BY <1>2, TickKeepsIInv
<1>3. CASE Sonar
  BY <1>3, SonarKeepsIInv
<1>4. CASE DistLow \/ TicksLow
  BY <1>4, ReadKeepsIInv
<1>5. CASE DistHigh \/ TicksHigh
  BY <1>5, CheckKeepsIInv
<1>6. CASE DistPause \/ TicksPause \/ NothingRead \/ BadRead
  BY <1>6, PassKeepsIInv
<1>7. ASSUME NEW p \in Packets, Handle(p) PROVE IInv'
  BY <1>7, ReplyKeepsIInv, StopCommandKeepsIInv, ClearKeepsIInv,
     MoveCommandKeepsIInv
  DEF Handle
<1>8. CASE ClearTargets
  BY <1>8, ClearKeepsIInv
<1>9. CASE Arm
  BY <1>9, ArmKeepsIInv
<1>10. CASE TimeUp
  BY <1>10, StopCommandKeepsIInv
<1> QED
  BY <1>1, <1>2, <1>3, <1>4, <1>5, <1>6, <1>7, <1>8, <1>9, <1>10
  DEF Next, Loop, INT2_vect, INT3_vect

------------------------------------------------------------------------------
\* In every state of every execution, for any interleaving of the interrupts
\* with the loop: a stopped robot is quiet; forward motion has the guard on, but
\* for timed moves, where it sleeps; the target of a move lies where it was
\* ordered, up to a low byte and to a sum that wraps (none does for a distance a
\* float holds exactly); and what is left of a turn is not above what was asked
\* for by more than a low byte.
THEOREM Invariance ==
  Spec => [](/\ TypeOK
             /\ QuietWhenStopped
             /\ GuardWatchesForward
             /\ TargetAsOrdered
             /\ TicksLeftBounded
             /\ OdometerAgrees)
<1>1. IInv => /\ TypeOK
              /\ QuietWhenStopped
              /\ GuardWatchesForward
              /\ TargetAsOrdered
              /\ TicksLeftBounded
              /\ OdometerAgrees
  BY DEF IInv, GuardOn, GuardWatchesForward
<1> QED BY <1>1, InitIInv, StepIInv, PTL DEF Spec

\* What the check that ends a move knows when it decides.
LEMMA CheckBounds ==
  ASSUME IInv
  PROVE  /\ pc = "distHigh" =>
              /\ dist[dir] + ByteBase > newDist \/ ~DistReached
              /\ low <= newDist \/ DistReached
         /\ pc = "ticksHigh" =>
              /\ TurnCounter(dir) + ByteBase > targetTicks \/ ~TicksReached
              /\ low < targetTicks \/ TicksReached
<1>1. low \in Nat /\ newDist \in Nat /\ targetTicks \in Nat
  BY DEF IInv, TypeOK
<1>2. CASE pc = "distHigh"
  <2>1. low <= dist[dir] /\ dist[dir] \in Nat
    BY <1>2 DEF IInv, TypeOK, ReadInProgress
  <2>2. /\ Torn(low, dist[dir]) \in Nat
        /\ low <= Torn(low, dist[dir])
        /\ Torn(low, dist[dir]) < dist[dir] + ByteBase
    BY <1>1, <2>1, TornBounds
  <2> QED BY <1>1, <1>2, <2>1, <2>2, Constants DEF DistReached
<1>3. CASE pc = "ticksHigh"
  <2>1. low <= TurnCounter(dir) /\ dir \in Turns
    BY <1>3 DEF IInv, ReadInProgress
  <2>2. TurnCounter(dir) \in Nat
    BY <2>1, Constants DEF IInv, TypeOK, TurnCounter, Turns, Moves
  <2>3. /\ Torn(low, TurnCounter(dir)) \in Nat
        /\ low <= Torn(low, TurnCounter(dir))
        /\ Torn(low, TurnCounter(dir)) < TurnCounter(dir) + ByteBase
    BY <1>1, <2>1, <2>2, TornBounds
  <2> QED BY <1>1, <1>3, <2>2, <2>3, Constants DEF TicksReached
<1> QED BY <1>2, <1>3

\* The step that decides is DistHigh or TicksHigh, and it stops the robot
\* exactly when the target was reached.
LEMMA Decision ==
  ASSUME IInv, [Next]_vars, pc' # pc
  PROVE  /\ pc = "distHigh" => (dir' = STOP <=> DistReached)
         /\ pc = "ticksHigh" => (dir' = STOP <=> TicksReached)
<1>1. dir \in Moves => dir # STOP
  BY DEF Moves, Straight, Turns, STOP, FORWARD, BACKWARD, LEFT, RIGHT
<1>2. CASE pc = "distHigh"
  <2>1. DistHigh
    BY <1>2
    DEF Next, Loop, INT2_vect, INT3_vect, leftISR, rightISR, Sonar, DistLow,
        DistPause, TicksLow, TicksHigh, TicksPause, NothingRead, BadRead,
        Handle, Receive, IgnorePacket, HandleBadCommand, HandleReport,
        HandleStop, HandleClear, HandleMove, ClearTargets, Arm, TimeUp, vars
  <2>2. dir \in Moves
    BY <1>2 DEF IInv, ReadInProgress, Moves
  <2>3. DistReached => dir' = STOP
    BY <2>1 DEF DistHigh, stop
  <2>4. ~DistReached => dir' = dir
    BY <2>1 DEF DistHigh, motion
  <2> QED BY <1>1, <1>2, <2>2, <2>3, <2>4
<1>3. CASE pc = "ticksHigh"
  <2>1. TicksHigh
    BY <1>3
    DEF Next, Loop, INT2_vect, INT3_vect, leftISR, rightISR, Sonar, DistLow,
        DistPause, TicksLow, DistHigh, TicksPause, NothingRead, BadRead,
        Handle, Receive, IgnorePacket, HandleBadCommand, HandleReport,
        HandleStop, HandleClear, HandleMove, ClearTargets, Arm, TimeUp, vars
  <2>2. dir \in Moves
    BY <1>3 DEF IInv, ReadInProgress, Moves
  <2>3. TicksReached => dir' = STOP
    BY <2>1 DEF TicksHigh, stop
  <2>4. ~TicksReached => dir' = dir
    BY <2>1 DEF TicksHigh, motion
  <2> QED BY <1>1, <1>3, <2>2, <2>3, <2>4
<1> QED BY <1>2, <1>3

\* A move or a turn never ends more than a low byte before its target, and a
\* target that was passed when the check began always ends it.
THEOREM TimelyStops == Spec => StopsInTime
<1> DEFINE A == /\ pc = "distHigh" /\ pc' # pc =>
                     /\ dir' = STOP => dist[dir] + ByteBase > newDist
                     /\ dir' # STOP => low <= newDist
                /\ pc = "ticksHigh" /\ pc' # pc =>
                     /\ dir' = STOP => TurnCounter(dir) + ByteBase > targetTicks
                     /\ dir' # STOP => low < targetTicks
<1>1. IInv /\ [Next]_vars => A
  <2> SUFFICES ASSUME IInv, [Next]_vars, pc' # pc PROVE A
    OBVIOUS
  <2> QED BY CheckBounds, Decision, Zenon
<1>2. IInv /\ [Next]_vars => [A]_vars
  BY <1>1
<1> QED BY <1>2, InitIInv, StepIInv, PTL DEF Spec, StopsInTime

------------------------------------------------------------------------------
(***************************************************************************)
(* Answers.  The checks before readPacket() leave messages at most, so     *)
(* what the handler adds is all there is to count.                         *)
(***************************************************************************)
Acks == {"OK", "BAD_COMMAND", "BAD_PACKET", "BAD_CHECKSUM"}
AcksIn(o) == {i \in DOMAIN o : o[i] \in Acks}

BeforeSerial == {"dist", "distHigh", "distPause", "ticks", "ticksHigh",
                 "ticksPause", "serial"}

Answered == \E i \in DOMAIN out : AcksIn(out) = {i}
Unanswered == AcksIn(out) = {}

AnswersSoFar ==
  /\ pc \in BeforeSerial => out \in Seq({"MESSAGE"}) /\ cmd = NoPacket
  /\ pc \in {"arm", "clear", "timed"} => cmd.type \in CommandTypes /\ Answered
  /\ pc = "sonar" /\ cmd # NoPacket =>
       IF cmd.type \in CommandTypes THEN Answered ELSE Unanswered

\* One answer after messages, and beside a report.
LEMMA Single ==
  ASSUME NEW o \in Seq({"MESSAGE"})
  PROVE  /\ AcksIn(o) = {}
         /\ \A r \in Acks : \E i \in DOMAIN Append(o, r) : AcksIn(Append(o, r)) = {i}
         /\ \A p \in Packets : p.op \in DOMAIN Reports =>
              \E i \in DOMAIN (o \o Answer(p)) : AcksIn(o \o Answer(p)) = {i}
<1>1. Len(o) \in Nat /\ DOMAIN o = 1 .. Len(o) /\ \A i \in DOMAIN o : o[i] \notin Acks
  BY DEF Acks
<1>2. ASSUME NEW r \in Acks
      PROVE  \E i \in DOMAIN Append(o, r) : AcksIn(Append(o, r)) = {i}
  <2> DEFINE a == Append(o, r)
  <2>1. /\ DOMAIN a = 1 .. Len(o) + 1
        /\ \A i \in DOMAIN o : a[i] = o[i]
        /\ a[Len(o) + 1] = r
    BY <1>1
  <2> HIDE DEF a
  <2>2. Len(o) + 1 \in DOMAIN a /\ AcksIn(a) = {Len(o) + 1}
    BY <1>1, <2>1 DEF AcksIn
  <2> QED BY <2>2 DEF a
<1>3. ASSUME NEW p \in Packets, p.op \in DOMAIN Reports
      PROVE  \E i \in DOMAIN (o \o Answer(p)) : AcksIn(o \o Answer(p)) = {i}
  <2>1. PICK x, y : /\ Answer(p) = <<x, y>>
                    /\ \/ x = "OK" /\ y \notin Acks
                       \/ x \notin Acks /\ y = "OK"
    <3>1. CASE p.op = "GET_STATS"
      <4>1. Answer(p) = <<"OK", "STATUS">>
        BY <3>1 DEF Answer, Reports
      <4>2. "OK" = "OK" /\ "STATUS" \notin Acks
        BY DEF Acks
      <4> QED BY <4>1, <4>2, Zenon
    <3>2. CASE p.op \in {"COLOR", "DIST"}
      <4>1. Answer(p) = <<Reports[p.op], "OK">>
        BY <3>2 DEF Answer
      <4>2. Reports[p.op] \notin Acks
        BY <3>2 DEF Reports, Acks
      <4> QED BY <4>1, <4>2, Zenon
    <3> QED BY <1>3, <3>1, <3>2 DEF Reports
  <2> DEFINE a == o \o <<x, y>>
  <2>2. /\ DOMAIN a = 1 .. Len(o) + 2
        /\ \A i \in DOMAIN o : a[i] = o[i]
        /\ a[Len(o) + 1] = x /\ a[Len(o) + 2] = y
    BY <1>1
  <2> HIDE DEF a
  <2>3. CASE x = "OK" /\ y \notin Acks
    <3>1. Len(o) + 1 \in DOMAIN a /\ AcksIn(a) = {Len(o) + 1}
      BY <1>1, <2>2, <2>3 DEF AcksIn, Acks
    <3> QED BY <2>1, <3>1 DEF a
  <2>4. CASE x \notin Acks /\ y = "OK"
    <3>1. Len(o) + 2 \in DOMAIN a /\ AcksIn(a) = {Len(o) + 2}
      BY <1>1, <2>2, <2>4 DEF AcksIn, Acks
    <3> QED BY <2>1, <3>1 DEF a
  <2> QED BY <2>1, <2>3, <2>4
<1> QED BY <1>1, <1>2, <1>3 DEF AcksIn

LEMMA AnswersStep ==
  ASSUME AnswersSoFar, [Next]_vars
  PROVE  AnswersSoFar'
<1>1. CASE UNCHANGED vars \/ leftISR \/ rightISR
  <2>1. pc' = pc /\ out' = out /\ cmd' = cmd
    BY <1>1 DEF vars, leftISR, rightISR
  <2>2. Answered' = Answered /\ Unanswered' = Unanswered
    BY <2>1 DEF Answered, Unanswered, AcksIn
  <2> QED BY <2>1, <2>2, Zenon DEF AnswersSoFar
<1>2. CASE Sonar
  <2>1. pc' = "dist" /\ cmd' = NoPacket /\ out' \in Seq({"MESSAGE"})
    <3>1. pc' = "dist" /\ cmd' = NoPacket /\ (out' = <<>> \/ out' = <<"MESSAGE">>)
      BY <1>2, Zenon DEF Sonar, AutoStop, PathClear
    <3>2. <<>> \in Seq({"MESSAGE"}) /\ <<"MESSAGE">> \in Seq({"MESSAGE"})
      OBVIOUS
    <3> QED BY <3>1, <3>2, Zenon
  <2> QED BY <2>1 DEF AnswersSoFar
<1>3. CASE DistLow \/ DistHigh \/ DistPause \/ TicksLow \/ TicksHigh \/ TicksPause
  <2>1. pc \in BeforeSerial /\ pc' \in BeforeSerial /\ out' = out /\ cmd' = cmd
    BY <1>3 DEF DistLow, DistHigh, DistPause, TicksLow, TicksHigh, TicksPause,
                BeforeSerial
  <2> QED BY <2>1 DEF AnswersSoFar, BeforeSerial
<1>4. CASE NothingRead \/ BadRead
  <2>1. pc \in BeforeSerial /\ pc' = "sonar" /\ cmd' = cmd
    BY <1>4 DEF NothingRead, BadRead, BeforeSerial
  <2> QED BY <2>1 DEF AnswersSoFar, BeforeSerial
<1>5. ASSUME NEW p \in Packets, Handle(p)
      PROVE  AnswersSoFar'
  <2>1. Receive(p)
    BY <1>5 DEF Handle, IgnorePacket, HandleBadCommand, HandleReport, HandleStop,
                HandleClear, HandleMove
  <2>2. out \in Seq({"MESSAGE"}) /\ cmd' = p
    BY <2>1 DEF Receive, AnswersSoFar, BeforeSerial
  <2>3. CASE IgnorePacket(p)
    <3>1. pc' = "sonar" /\ out' = out /\ p.type \notin CommandTypes
      BY <2>3 DEF IgnorePacket
    <3>2. Unanswered'
      BY <2>2, <3>1, Single DEF Unanswered, AcksIn
    <3> QED BY <2>2, <3>1, <3>2 DEF AnswersSoFar, BeforeSerial
  <2>4. CASE ~IgnorePacket(p)
    <3>1. p.type \in CommandTypes /\ pc' \in {"sonar", "arm", "clear"}
      BY <1>5, <2>4 DEF Handle, HandleBadCommand, HandleReport, HandleStop,
                         HandleClear, HandleMove
    <3>2. \/ \E r \in Acks : out' = Append(out, r)
          \/ p.op \in DOMAIN Reports /\ out' = out \o Answer(p)
      BY <1>5, <2>4 DEF Handle, HandleBadCommand, HandleReport, HandleStop,
                         HandleClear, HandleMove, Acks
    <3>3. \E i \in DOMAIN out' : AcksIn(out') = {i}
      <4>1. CASE \E r \in Acks : out' = Append(out, r)
        <5>1. PICK r \in Acks : out' = Append(out, r)
          BY <4>1
        <5>2. \E i \in DOMAIN Append(out, r) : AcksIn(Append(out, r)) = {i}
          BY <2>2, Single
        <5> QED BY <5>1, <5>2, Zenon
      <4>2. CASE p.op \in DOMAIN Reports /\ out' = out \o Answer(p)
        <5>1. \E i \in DOMAIN (out \o Answer(p)) : AcksIn(out \o Answer(p)) = {i}
          BY <2>2, <4>2, Single
        <5> QED BY <4>2, <5>1, Zenon
      <4> QED BY <3>2, <4>1, <4>2, Zenon
    <3>4. Answered'
      BY <3>3 DEF Answered, AcksIn
    <3> QED BY <2>2, <3>1, <3>4 DEF AnswersSoFar, BeforeSerial
  <2> QED BY <2>3, <2>4
<1>6. CASE ClearTargets \/ Arm \/ TimeUp
  <2>1. /\ pc \in {"arm", "clear", "timed"} /\ pc' \in {"sonar", "timed"}
        /\ out' = out /\ cmd' = cmd
    BY <1>6 DEF ClearTargets, Arm, TimeUp
  <2>2. Answered' = Answered
    BY <2>1 DEF Answered, AcksIn
  <2> QED BY <2>1, <2>2 DEF AnswersSoFar, BeforeSerial
<1> QED
  BY <1>1, <1>2, <1>3, <1>4, <1>5, <1>6 DEF Next, Loop, INT2_vect, INT3_vect

\* Every command packet gets one answer, whatever the guard said before it in
\* the same turn of the loop and whichever handler took it.
THEOREM EachAnsweredOnce == Spec => []OneAnswer
<1>1. Init => AnswersSoFar
  BY DEF Init, AnswersSoFar, BeforeSerial
<1>2. AnswersSoFar => OneAnswer
  BY DEF AnswersSoFar, OneAnswer, Answered, Unanswered, AcksIn, Acks
<1> QED BY <1>1, <1>2, AnswersStep, PTL DEF Spec
==============================================================================
