---------------------------- MODULE MCColourArm ----------------------------
(***************************************************************************)
(* An instance of ColourArm.  412 us are 7 cm, 500 us 8 cm, 590 us 10 cm,  *)
(* 700 us 11 cm, 1000 us 17 cm; 200 us are 3 cm, nearer than the shroud,   *)
(* and 0 is no echo.                                                       *)
(***************************************************************************)
EXTENDS ColourArm

AllEchoes == {0, 200, 412, 500, 590, 700, 1000, 5000}

Five(a, b) == [i \in 1 .. 5 |-> IF i = 3 THEN b ELSE a]

\* No answer, a bright surface, the most that five readings of an int can add up to, a
\* flicker, less than 4 % and more than 4 % away from each other, and a dark
\* surface, too long for the sum.
AllSamples == {Five(0, 0), Five(40, 55), Five(6553, 6553), Five(6400, 6000),
               Five(6000, 700), Five(8000, 900)}
=============================================================================
