------------------------------ MODULE MCRemote ------------------------------
(***************************************************************************)
(* An instance of Remote: one move and the stop in every mode, one key in  *)
(* the window, two packets on the line.                                    *)
(***************************************************************************)
EXTENDS Remote

DriveChars == {"w", "o", "1", "2", "3", "4"}
DriveKeys == {"W"}
=============================================================================
