-------------------------- MODULE ColourArmProofs --------------------------
(***************************************************************************)
(* Theorems about ColourArm, for every set of echoes and pulses and any    *)
(* number of readings.                                                     *)
(***************************************************************************)
EXTENDS ColourArm, TLAPS

\* What a reading has not driven back yet is what it drove out; what earlier
\* readings drove back too far is at most 42 ms each.
ArmInv ==
  /\ pc \in {"idle", "extended", "sensed"}
  /\ readings \in Nat
  /\ reading \in 0 .. 85
  /\ linearactuatordist \in 0 .. Reach
  /\ arm \in Int
  /\ pc = "idle" => /\ linearactuatordist = 0
                    /\ arm \in -42 * readings .. 0
  /\ pc # "idle" => /\ readings > 0
                    /\ arm - Drive(4 * linearactuatordist)
                         \in -42 * (readings - 1) .. 0
                    /\ linearactuatordist > 0
                         => linearactuatordist = ReachOf(reading)

------------------------------------------------------------------------------
(***************************************************************************)
(* Numbers.                                                                *)
(***************************************************************************)
LEMMA MinOfTwo ==
  ASSUME NEW a \in Int, NEW b \in Int
  PROVE  Min({a, b}) = IF a <= b THEN a ELSE b
<1> DEFINE m == IF a <= b THEN a ELSE b
<1>1. m \in {a, b} /\ \A y \in {a, b} : m <= y
  OBVIOUS
<1>2. \A x \in {a, b} : (\A y \in {a, b} : x <= y) => x = m
  OBVIOUS
<1> QED BY <1>1, <1>2 DEF Min

LEMMA Remainder ==
  ASSUME NEW w \in Nat, w > 78, NEW n \in -7 .. 78
  PROVE  /\ n % w \in 0 .. w - 1
         /\ n >= 0 => n % w = n
BY SMT

LEMMA Echo ==
  ASSUME NEW duration \in Echoes
  PROVE  getUltrasonicDistance(duration) \in 0 .. 85
<1>1. duration \in 0 .. 5000
  BY EchoAssumption, SMT
<1>2. \A n \in 0 .. 5000 : (n * 340) \div 20000 \in 0 .. 85
  BY SMT
<1> QED BY <1>1, <1>2, SMT DEF getUltrasonicDistance

\* The arm is sent at most 7 cm, and never nearer than 2 cm to what was seen in
\* front of the shroud.
LEMMA ReachBounds ==
  ASSUME NEW cm \in 0 .. 85
  PROVE  /\ ReachOf(cm) \in 0 .. Reach
         /\ cm >= ShroudMouthToUltrasonic /\ ReachOf(cm) > 0
              => cm - ShroudMouthToUltrasonic - ReachOf(cm) >= DistancetoStop
<1> USE DEF ShroudMouthToUltrasonic, DistancetoStop, Reach
<1> DEFINE d == currentdist(cm)
<1>1. d \in Nat /\ (cm >= 7 => d = cm - 7)
  <2>1. Word \in Nat /\ Word > 78
    BY WordAssumption, SMT
  <2>2. cm - 7 \in -7 .. 78
    BY SMT
  <2>3. d = (cm - 7) % Word
    BY DEF currentdist
  <2>4. (cm - 7) % Word \in 0 .. Word - 1 /\ (cm - 7 >= 0 => (cm - 7) % Word = cm - 7)
    BY <2>1, <2>2, Remainder, Zenon
  <2> QED BY <2>1, <2>3, <2>4, SMT
<1> HIDE DEF d
<1>2. CASE d <= 2
  BY <1>1, <1>2 DEF ReachOf, d
<1>3. CASE d > 2
  <2>1. ReachOf(cm) = Min({d - 2, 7})
    BY <1>1, <1>3 DEF ReachOf, d
  <2>2. Min({d - 2, 7}) = IF d - 2 <= 7 THEN d - 2 ELSE 7
    BY <1>1, MinOfTwo
  <2> QED BY <1>1, <1>3, <2>1, <2>2
<1> QED BY <1>1, <1>2, <1>3

\* The quarter of a centimetre takes 41 or 42 ms.
LEMMA DriveBack ==
  ASSUME NEW n \in 0 .. Reach
  PROVE  /\ Drive(4 * n) \in Nat
         /\ Drive(4 * n + 1) \in Drive(4 * n) + 41 .. Drive(4 * n) + 42
BY DEF Drive, Reach

------------------------------------------------------------------------------
LEMMA ArmInit == Init => ArmInv
<1>1. 0 \in -42 * 0 .. 0
  OBVIOUS
<1>2. Init => /\ pc = "idle" /\ readings = 0 /\ reading = 0
              /\ linearactuatordist = 0 /\ arm = 0
  BY DEF Init
<1> QED BY <1>1, <1>2 DEF ArmInv, Reach

LEMMA ArmExtend == ArmInv /\ Extend => ArmInv'
<1> SUFFICES ASSUME ArmInv, Extend PROVE ArmInv'
  OBVIOUS
<1>1. reading' \in 0 .. 85
  BY Echo DEF Extend
<1>2. ReachOf(reading') \in 0 .. Reach
  BY <1>1, ReachBounds
<1>3. /\ linearactuatordist = 0 /\ arm \in -42 * readings .. 0
      /\ readings \in Nat /\ arm \in Int
      /\ readings' = readings + 1 /\ pc' = "extended"
  BY DEF Extend, ArmInv
<1>4. linearactuatordist' = ReachOf(reading')
  BY <1>2, <1>3 DEF Extend, Reach
<1>5. Drive(4 * ReachOf(reading')) \in Nat
  BY <1>2, DriveBack
<1>6. arm' = arm + Drive(4 * linearactuatordist')
  BY <1>4 DEF Extend
<1>7. arm' - Drive(4 * linearactuatordist') = arm /\ arm' \in Int
  BY <1>3, <1>4, <1>5, <1>6
<1>8. arm \in -42 * (readings' - 1) .. 0
  BY <1>3
<1> QED BY <1>1, <1>2, <1>3, <1>4, <1>7, <1>8 DEF ArmInv

LEMMA ArmRetract == ArmInv /\ Retract => ArmInv'
<1> SUFFICES ASSUME ArmInv, Retract PROVE ArmInv'
  OBVIOUS
<1> DEFINE out == Drive(4 * linearactuatordist)
           back == Drive(4 * linearactuatordist + 1)
<1>1. out \in Nat /\ back \in out + 41 .. out + 42
  BY DriveBack DEF ArmInv
<1>2. /\ arm - out \in -42 * (readings - 1) .. 0
      /\ readings \in Nat /\ readings > 0 /\ arm \in Int
      /\ arm' = arm - back
  BY DEF ArmInv, Retract
<1>3. /\ linearactuatordist' = 0 /\ pc' = "idle"
      /\ UNCHANGED <<reading, readings>>
  BY DEF Retract
<1> HIDE DEF out, back
<1>4. arm' \in -42 * readings .. 0 /\ arm' \in Int
  BY <1>1, <1>2
<1> QED BY <1>2, <1>3, <1>4 DEF ArmInv, Reach

LEMMA ArmStep == ArmInv /\ [Next]_vars => ArmInv'
<1> SUFFICES ASSUME ArmInv, [Next]_vars PROVE ArmInv'
  OBVIOUS
<1>1. CASE findColor
  BY <1>1 DEF findColor, ArmInv
<1>2. CASE UNCHANGED vars
  BY <1>2 DEF vars, ArmInv
<1> QED BY <1>1, <1>2, ArmExtend, ArmRetract DEF Next

\* Between readings the arm is never out, and it has come back too far by at
\* most the quarter of a centimetre of each reading (colour_sensor.ino:90).
THEOREM Returns == Spec => []ComesBack
<1>1. ArmInv => ComesBack
  BY DEF ArmInv, ComesBack, Drive
<1> QED BY <1>1, ArmInit, ArmStep, PTL DEF Spec

\* An extended arm keeps 2 cm (colour_sensor.ino:10) from an object the sensor saw
\* at the shroud's 7 cm or beyond.  Nothing is said of an object nearer than that,
\* nor of a lost echo: the difference of colour_sensor.ino:71 wraps there, the arm
\* goes out all the way, and the distance is not kept.
THEOREM KeepsClear == Spec => []Clearance
<1>1. ArmInv => Clearance
  BY ReachBounds DEF ArmInv, Clearance
<1> QED BY <1>1, ArmInit, ArmStep, PTL DEF Spec

------------------------------------------------------------------------------
(***************************************************************************)
(* The averages.                                                           *)
(***************************************************************************)
\* What an int does not hold any more.
Limit == 32768

LEMMA LimitFits == Limit \in Nat /\ Word \in Nat \ {0} /\ Limit < Word
BY WordAssumption, SMT DEF Limit

LEMMA Int16Fits ==
  ASSUME NEW n \in Nat, n < Limit
  PROVE  Int16(n) = n
BY SMT DEF Int16, Limit

LEMMA SmallRemainder ==
  ASSUME NEW w \in Nat \ {0}, NEW n \in 0 .. w - 1
  PROVE  n % w = n
BY SMT

LEMMA Fifth ==
  ASSUME NEW n \in Nat
  PROVE  n \div 5 \in Nat /\ n \div 5 <= n
BY SMT

\* Total is what its recursive definition says it is.
LEMMA TotalUnfolds ==
  ASSUME NEW s
  PROVE  /\ Total(s)[0] = 0
         /\ \A i \in 1 .. 5 : Total(s)[i] = Int16(Total(s)[i - 1] + Int16(s[i]))
<1> DEFINE Step(f) ==
             [i \in 0 .. 5 |-> IF i = 0 THEN 0 ELSE Int16(f[i - 1] + Int16(s[i]))]
           t1 == Int16(0 + Int16(s[1]))
           t2 == Int16(t1 + Int16(s[2]))
           t3 == Int16(t2 + Int16(s[3]))
           t4 == Int16(t3 + Int16(s[4]))
           t5 == Int16(t4 + Int16(s[5]))
           sums == [i \in 0 .. 5 |-> IF i = 0 THEN 0 ELSE IF i = 1 THEN t1
                      ELSE IF i = 2 THEN t2 ELSE IF i = 3 THEN t3
                      ELSE IF i = 4 THEN t4 ELSE t5]
<1>1. sums = Step(sums)
  <2> SUFFICES ASSUME NEW i \in 0 .. 5
               PROVE  sums[i] = IF i = 0 THEN 0
                                ELSE Int16(sums[i - 1] + Int16(s[i]))
    OBVIOUS
  <2>1. /\ sums[0] = 0 /\ sums[1] = t1 /\ sums[2] = t2
        /\ sums[3] = t3 /\ sums[4] = t4 /\ sums[5] = t5
    OBVIOUS
  <2> HIDE DEF sums
  <2>2. i = 0 \/ i = 1 \/ i = 2 \/ i = 3 \/ i = 4 \/ i = 5
    OBVIOUS
  <2>3. 1 - 1 = 0 /\ 2 - 1 = 1 /\ 3 - 1 = 2 /\ 4 - 1 = 3 /\ 5 - 1 = 4
    OBVIOUS
  <2>4. CASE i = 0
    BY <2>1, <2>4
  <2>5. CASE i # 0
    BY <2>1, <2>2, <2>3, <2>5
  <2> QED BY <2>4, <2>5
<1> HIDE DEF sums
<1>2. Total(s) = CHOOSE f : f = Step(f)
  BY DEF Total
<1>3. Total(s) = Step(Total(s))
  BY <1>1, <1>2
<1> HIDE DEF t1, t2, t3, t4, t5
<1> QED BY <1>3

LEMMA Samples5 ==
  ASSUME NEW s \in Samples
  PROVE  \A i \in 1 .. 5 : s[i] \in Nat
<1>1. s \in [1 .. 5 -> 0 .. PulseTimeout]
  BY PulseAssumption
<1>2. PulseTimeout \in Nat
  BY DEF PulseTimeout
<1> QED BY <1>1, <1>2

\* As long as an int holds the sum, so it does every sum on the way.
LEMMA TotalIsSum ==
  ASSUME NEW s \in Samples, Sum(s) < Limit
  PROVE  Sum(s) \in Nat /\ Total(s)[5] = Sum(s)
<1>1. /\ s[1] \in Nat /\ s[2] \in Nat /\ s[3] \in Nat /\ s[4] \in Nat
      /\ s[5] \in Nat
  BY Samples5
<1>2. Sum(s) = s[1] + s[2] + s[3] + s[4] + s[5]
  BY DEF Sum
<1>3. \A n \in Nat : n < Limit => Int16(n) = n
  BY Int16Fits
<1>4. Limit \in Nat
  BY LimitFits
<1>5. /\ Int16(s[1]) = s[1] /\ Int16(s[2]) = s[2] /\ Int16(s[3]) = s[3]
      /\ Int16(s[4]) = s[4] /\ Int16(s[5]) = s[5]
  BY <1>1, <1>2, <1>3, <1>4
<1> DEFINE T(i) == Total(s)[i]
<1>6. /\ T(0) = 0
      /\ T(1) = Int16(T(0) + s[1]) /\ T(2) = Int16(T(1) + s[2])
      /\ T(3) = Int16(T(2) + s[3]) /\ T(4) = Int16(T(3) + s[4])
      /\ T(5) = Int16(T(4) + s[5])
  <2>1. T(0) = 0 /\ \A i \in 1 .. 5 : T(i) = Int16(T(i - 1) + Int16(s[i]))
    BY TotalUnfolds
  <2> HIDE DEF T
  <2>2. 1 - 1 = 0 /\ 2 - 1 = 1 /\ 3 - 1 = 2 /\ 4 - 1 = 3 /\ 5 - 1 = 4
    OBVIOUS
  <2>3. /\ T(1) = Int16(T(1 - 1) + Int16(s[1]))
        /\ T(2) = Int16(T(2 - 1) + Int16(s[2]))
        /\ T(3) = Int16(T(3 - 1) + Int16(s[3]))
        /\ T(4) = Int16(T(4 - 1) + Int16(s[4]))
        /\ T(5) = Int16(T(5 - 1) + Int16(s[5]))
    BY <2>1
  <2> QED BY <1>5, <2>1, <2>2, <2>3, Zenon
<1> HIDE DEF T
<1>7. T(1) = s[1]
  BY <1>1, <1>2, <1>3, <1>4, <1>6
<1>8. T(2) = s[1] + s[2]
  BY <1>1, <1>2, <1>3, <1>4, <1>6, <1>7
<1>9. T(3) = s[1] + s[2] + s[3]
  BY <1>1, <1>2, <1>3, <1>4, <1>6, <1>8
<1>10. T(4) = s[1] + s[2] + s[3] + s[4]
  BY <1>1, <1>2, <1>3, <1>4, <1>6, <1>9
<1>11. T(5) = s[1] + s[2] + s[3] + s[4] + s[5]
  BY <1>1, <1>2, <1>3, <1>4, <1>6, <1>10
<1> QED BY <1>1, <1>2, <1>11 DEF T

LEMMA Mean ==
  ASSUME NEW s \in Samples, Sum(s) < 32768
  PROVE  Sum(s) \in Nat /\ average_freq(s) % Word = Sum(s) \div 5
<1>1. Sum(s) < Limit
  BY SMT DEF Limit
<1>2. Sum(s) \in Nat /\ Total(s)[5] = Sum(s)
  BY <1>1, TotalIsSum
<1>3. average_freq(s) = Sum(s) \div 5
  BY <1>2, SMT DEF average_freq, Quotient
<1>4. Sum(s) \div 5 \in 0 .. Word - 1
  BY <1>1, <1>2, Fifth, LimitFits
<1> QED BY <1>2, <1>3, <1>4, SmallRemainder, LimitFits

\* What is reported was computed of what the sensor said.
Reported ==
  pc = "sensed" =>
    /\ samples \in [Colours -> Samples]
    /\ freq = [c \in Colours |-> average_freq(samples[c]) % Word]

LEMMA ReportedInvariant == Spec => []Reported
<1>1. Init => Reported
  BY DEF Init, Reported
<1>2. Reported /\ [Next]_vars => Reported'
  BY DEF Reported, Next, Extend, findColor, Retract, vars
<1> QED BY <1>1, <1>2, PTL DEF Spec

\* What a colour report says is the mean of the five pulse lengths
\* (colour_sensor.ino:26), as long as an int holds their sum.
THEOREM MeanReported == Spec => []ReportsMean
<1>1. Reported => ReportsMean
  BY Mean DEF Reported, ReportsMean
<1> QED BY <1>1, ReportedInvariant, PTL

------------------------------------------------------------------------------
(***************************************************************************)
(* The verdict.                                                            *)
(***************************************************************************)
LEMMA MaxOfTwo ==
  ASSUME NEW a \in Int, NEW b \in Int
  PROVE  Max({a, b}) = IF a >= b THEN a ELSE b
<1> DEFINE m == IF a >= b THEN a ELSE b
<1>1. m \in {a, b} /\ \A y \in {a, b} : m >= y
  OBVIOUS
<1>2. \A x \in {a, b} : (\A y \in {a, b} : x >= y) => x = m
  OBVIOUS
<1> QED BY <1>1, <1>2 DEF Max

\* The remainders that two means lose blur the 4 % by at most 104.
LEMMA Contrast ==
  ASSUME NEW r \in Nat, NEW g \in Nat,
         25 * Diff(r \div 5, g \div 5) >= Large(r \div 5, g \div 5)
  PROVE  25 * Max({r - g, g - r}) + 104 >= Max({r, g})
<1> DEFINE a == r \div 5
           b == g \div 5
<1>1. /\ a \in Nat /\ r \in 5 * a .. 5 * a + 4
      /\ b \in Nat /\ g \in 5 * b .. 5 * b + 4
  OBVIOUS
<1>2. 25 * Diff(a, b) >= Large(a, b)
  OBVIOUS
<1> HIDE DEF a, b
<1>3. /\ Max({r - g, g - r}) = IF r - g >= g - r THEN r - g ELSE g - r
      /\ Max({r, g}) = IF r >= g THEN r ELSE g
  BY MaxOfTwo
<1>4. CASE r >= g
  BY <1>1, <1>2, <1>3, <1>4 DEF Diff, Large
<1>5. CASE r < g
  BY <1>1, <1>2, <1>3, <1>5 DEF Diff, Large
<1> QED BY <1>4, <1>5

\* Green is a verdict about red and green only (print_colourf()): the pulse
\* lengths were 4 % apart, for every pulse length an int can add up.
THEOREM GreenContrasts == Spec => []GreenIsContrast
<1>1. Reported => GreenIsContrast
  <2> SUFFICES ASSUME Reported, pc = "sensed", Verdict(freq) = "GREEN",
                      \A c \in Colours : Sum(samples[c]) < 32768,
                      Large(freq["red"], freq["green"]) > 0
               PROVE  LET r == Sum(samples["red"])
                          g == Sum(samples["green"])
                      IN  25 * Max({r - g, g - r}) + 104 >= Max({r, g})
    BY DEF GreenIsContrast
  <2> DEFINE r == Sum(samples["red"])
             g == Sum(samples["green"])
  <2>1. "red" \in Colours /\ "green" \in Colours
    BY DEF Colours
  <2>2. /\ samples["red"] \in Samples /\ samples["green"] \in Samples
        /\ freq["red"] = average_freq(samples["red"]) % Word
        /\ freq["green"] = average_freq(samples["green"]) % Word
    BY <2>1 DEF Reported
  <2>3. /\ r \in Nat /\ g \in Nat
        /\ freq["red"] = r \div 5 /\ freq["green"] = g \div 5
    <3>1. Sum(samples["red"]) < 32768 /\ Sum(samples["green"]) < 32768
      BY <2>1, SMT
    <3> QED BY <2>2, <3>1, Mean, SMT
  <2>4. ~(25 * Diff(freq["red"], freq["green"]) < Large(freq["red"], freq["green"]))
    BY DEF Verdict
  <2> HIDE DEF r, g
  <2>5. 25 * Diff(r \div 5, g \div 5) >= Large(r \div 5, g \div 5)
    BY <2>3, <2>4 DEF Diff, Large
  <2> QED BY <2>3, <2>5, Contrast DEF r, g
<1> QED BY <1>1, ReportedInvariant, PTL
=============================================================================
