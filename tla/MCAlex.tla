------------------------------- MODULE MCAlex -------------------------------
(***************************************************************************)
(* Instances of Alex.  The low byte of a counter has 3 values, so that a   *)
(* few ticks carry out of it (5 cm are a tick: 0, 5, 10, 15, 20 cm), and   *)
(* an unsigned long has 2048, and a float holds numbers below 128 exactly. *)
(***************************************************************************)
EXTENDS Alex

MCByteBase == 3
MCWord == 2048
MCMantissa == 128

\* A conversion that fails may give 0 or saturate.
MCOverflows == {0, MCWord - 1}

MCNoLimitDist == 900
MCNoLimitTicks == 900

\* Blocked and clear, with the 0 of an echo that timed out.
MCSonarReadings == {0, 11, 15}

Param(op, p, speed) == [type |-> "PARAM", op |-> op, params |-> <<p, speed>>]
Key(op) == [type |-> "KEYBOARD", op |-> op, params |-> <<40, 0>>]
Timed(op) == [type |-> "TIME", op |-> op, params |-> <<150, 0>>]
Hello == [type |-> "OTHER", op |-> "LCD", params |-> <<0, 0>>]

\* A move of each kind with and without a limit; a distance typed as -5, which no
\* float below the end of an unsigned long is near, and one that is near such a
\* float (they are 16 apart there, 256 in the firmware, where it is a typed -300);
\* and every other command.
AllPackets ==
  {Param(FORWARD, 6, 75), Param(FORWARD, 0, 75), Param(FORWARD, MCWord - 5, 75),
   Param(FORWARD, MCWord - 20, 75),
   Param(BACKWARD, 6, 101), Param(LEFT, 33, 75), Param(RIGHT, 33, 75),
   Param("CLEAR_STATS", 0, 0), Param("GET_STATS", 0, 0), Param("LCD", 0, 0),
   Key(FORWARD), Key(LEFT), Key(STOP), Key("COLOR"),
   Timed(FORWARD), Timed(RIGHT), Timed("DIST"), Hello}

\* A limited move and the command that clears the statistics.
ClearPackets == {Param(FORWARD, 2, 75), Param("CLEAR_STATS", 0, 0)}

\* One move whose target lies on a carry of the low byte.
CarryPackets == {Param(FORWARD, 10, 75)}
=============================================================================
