------------------------------ MODULE ColourArm ------------------------------
(***************************************************************************)
(* A colour reading of the firmware (colour_sensor.ino, servo.ino): the    *)
(* sensor sits on an arm that a continuous servo drives towards the        *)
(* object, for a time that stands for a distance, and back.                *)
(*                                                                         *)
(* Nothing else runs during a reading, so its steps are the ones between   *)
(* which the arm stands still: sendColor() extends it, findColor() reads,  *)
(* the rest of sendColor() reports and retracts.  The arm has no sensor of *)
(* its own: where it is follows from how long it was driven each way.      *)
(***************************************************************************)
EXTENDS Integers, FiniteSetsExt

CONSTANTS
  Echoes,       \* durations pulseIn() may return, in us; 0 is a time-out
  Samples,      \* five pulse lengths of the colour sensor, in us
  Word,         \* values of a uint32_t: 2^32
  MaxReadings   \* bound of the model: colour readings

ShroudMouthToUltrasonic == 7
DistancetoStop == 2
Reach == 7      \* the limit in sendColor()

Colours == {"red", "green", "blue"}
PulseTimeout == 1000000

\* pulseIn() gives up after 5 ms on the echo and after 1 s on the colour.
ASSUME EchoAssumption == Echoes \subseteq 0 .. 5000 /\ Echoes # {}

ASSUME PulseAssumption ==
  Samples \subseteq [1 .. 5 -> 0 .. PulseTimeout] /\ Samples # {}

ASSUME WordAssumption == Word \in Nat /\ Word > 40000 /\ MaxReadings \in Nat

VARIABLES
  pc,                  \* "idle", "extended" or "sensed"
  linearactuatordist,  \* cm the arm was sent forward
  freq,                \* red_freq, green_freq and blue_freq
  arm,                 \* ms the arm is out, negative if it came back too far
  reading,             \* history: what the ultrasonic sensor said, in cm
  samples,             \* history: what the colour sensor said
  readings             \* history: colour readings begun

vars == <<pc, linearactuatordist, freq, arm, reading, samples, readings>>

------------------------------------------------------------------------------
(***************************************************************************)
(* Numbers.                                                                *)
(***************************************************************************)
\* An int of the ATmega has 16 bits.
Int16(n) == ((n + 32768) % 65536) - 32768

\* C divides towards 0.
Quotient(n, d) == IF n >= 0 THEN n \div d ELSE -((-n) \div d)

\* 340 m/s: the way to the object and back.
getUltrasonicDistance(duration) == (duration * 340) \div 20000

\* The distance from the shroud, in an unsigned type.
currentdist(cm) == (cm - ShroudMouthToUltrasonic) % Word

\* Mutant: the distance to keep is not subtracted.
ReachOfTouching(cm) ==
  IF currentdist(cm) <= DistancetoStop THEN 0 ELSE Min({currentdist(cm), Reach})

\* How far sendColor() sends the arm.
ReachOf(cm) ==
  IF currentdist(cm) <= DistancetoStop THEN 0
  ELSE Min({currentdist(cm) - DistancetoStop, Reach})

\* delay(dist / distpersec * 1000) for quarters of a centimetre, 6 cm/s.
Drive(quarters) == (quarters * 1000) \div 24

\* The sum of the first i readings: both are int.
Total(s) ==
  LET total[i \in 0 .. 5] == IF i = 0 THEN 0 ELSE Int16(total[i - 1] + Int16(s[i]))
  IN  total

\* Mutant: the loop ends one reading early.
averageOfFour(s) == Quotient(Total(s)[4], 5)

average_freq(s) == Quotient(Total(s)[5], 5)

(***************************************************************************)
(* What the Pi makes of the report (colour.cpp, prints.cpp).  A percentage *)
(* is a float there; here it is the fraction Diff / Large, compared by     *)
(* cross-multiplication.  0 / 0 is not a number: no comparison holds.      *)
(***************************************************************************)
Large(a, b) == IF a > b THEN a ELSE b

\* Mutant: the difference of two unsigned numbers without their order.
DiffWraps(a, b) == (a - b) % Word

Diff(a, b) == IF a > b THEN a - b ELSE b - a

Closer(a, b, c, d) ==
  Large(a, b) > 0 /\ Large(c, d) > 0 /\ Diff(a, b) * Large(c, d) < Diff(c, d) * Large(a, b)

Verdict(f) ==
  IF Closer(f["red"], f["blue"], f["red"], f["green"])
       /\ Closer(f["red"], f["blue"], f["blue"], f["green"])
    THEN "RED"
  ELSE IF Large(f["red"], f["green"]) > 0
            /\ 25 * Diff(f["red"], f["green"]) < Large(f["red"], f["green"])
    THEN "NEITHER"
  ELSE "GREEN"

------------------------------------------------------------------------------
Init ==
  /\ pc = "idle"
  /\ linearactuatordist = 0
  /\ freq = [c \in Colours |-> 0]
  /\ arm = 0
  /\ reading = 0
  /\ samples = [c \in Colours |-> [i \in 1 .. 5 |-> 0]]
  /\ readings = 0

Extend ==
  /\ pc = "idle"
  /\ readings < MaxReadings
  /\ readings' = readings + 1
  /\ \E duration \in Echoes : reading' = getUltrasonicDistance(duration)
  /\ linearactuatordist' = IF ReachOf(reading') > 0 THEN ReachOf(reading')
                           ELSE linearactuatordist
  /\ arm' = arm + Drive(4 * ReachOf(reading'))
  /\ pc' = "extended"
  /\ UNCHANGED <<freq, samples>>

findColor ==
  /\ pc = "extended"
  /\ samples' \in [Colours -> Samples]
  /\ freq' = [c \in Colours |-> average_freq(samples'[c]) % Word]
  /\ pc' = "sensed"
  /\ UNCHANGED <<linearactuatordist, arm, reading, readings>>

\* Mutant: linearactuatordist keeps its value.
RetractKeeping ==
  /\ pc = "sensed"
  /\ arm' = arm - Drive(4 * linearactuatordist + 1)
  /\ pc' = "idle"
  /\ UNCHANGED <<linearactuatordist, freq, reading, samples, readings>>

\* The way back is a quarter of a centimetre longer.
Retract ==
  /\ pc = "sensed"
  /\ arm' = arm - Drive(4 * linearactuatordist + 1)
  /\ linearactuatordist' = 0
  /\ pc' = "idle"
  /\ UNCHANGED <<freq, reading, samples, readings>>

Next == Extend \/ findColor \/ Retract

Spec == Init /\ [][Next]_vars

------------------------------------------------------------------------------
(***************************************************************************)
(* Properties.                                                             *)
(***************************************************************************)

\* Between readings the arm is never left out, and what it came back too far
\* is at most the quarter of a centimetre of each reading (and the rounding of
\* a delay), also when a reading does not extend it.
ComesBack ==
  pc = "idle" => arm <= 0 /\ arm >= -readings * (Drive(1) + 1)

\* "dist to stop from object" (colour_sensor.ino:10): an extended arm keeps its
\* distance from an object that the ultrasonic sensor saw at the shroud's 7 cm or
\* beyond.  It does not keep it from an object nearer than that, nor after a lost
\* echo: the difference wraps and the arm goes out as far as it can.
Clearance ==
  (/\ pc # "idle" /\ linearactuatordist > 0
   /\ reading >= ShroudMouthToUltrasonic) =>
    reading - ShroudMouthToUltrasonic - linearactuatordist >= DistancetoStop

Sum(s) == s[1] + s[2] + s[3] + s[4] + s[5]

\* "Take 5 readings and return average frequency" (colour_sensor.ino:26): what
\* is reported is the mean of the five pulse lengths of that colour, if an int
\* holds their sum.
ReportsMean ==
  pc = "sensed" =>
    \A c \in Colours :
      Sum(samples[c]) < 32768 => freq[c] = Sum(samples[c]) \div 5

\* The Pi calls an object green only if the pulse lengths the sensor took of
\* red and of green were at least 4 % apart, up to the remainders the averages
\* lose, whatever blue was; a sensor that answers nothing at all is called
\* green too.
GreenIsContrast ==
  (/\ pc = "sensed" /\ Verdict(freq) = "GREEN"
   /\ \A c \in Colours : Sum(samples[c]) < 32768
   /\ Large(freq["red"], freq["green"]) > 0) =>
    LET r == Sum(samples["red"])
        g == Sum(samples["green"])
    IN  25 * Max({r - g, g - r}) + 104 >= Max({r, g})
=============================================================================
