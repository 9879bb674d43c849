------------------------------ MODULE MCAlexPi ------------------------------
(***************************************************************************)
(* Instances of AlexPi.  Two speeds above 0 and one delay step reach the   *)
(* limits in a few key presses; one key of each kind is enough, because    *)
(* the program looks at the kind only.                                     *)
(***************************************************************************)
EXTENDS AlexPi

AllChars == {"w", "o", "q", ",", ".", "1", "2", "3", "4"}
AllKeys == {"W", "LEFT_ARROW", "RIGHT_ARROW", "1"}

\* Straight into the window, to drive and to ask for the distance.
WindowChar == {"2"}
DriveKeys == {"W", "U"}
=============================================================================
