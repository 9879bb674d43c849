---------------------------- MODULE MCSerialLink ----------------------------
(***************************************************************************)
(* Instances of SerialLink.  At a pace of the Pi's own, a slot stands for  *)
(* 7 bytes at 9600 baud, 7.3 ms: the packet of 140 bytes is 20, the rings  *)
(* of 63 and 64 bytes hold 9, a second is 137 slots.  A turn of loop()     *)
(* takes 5 ms, the ultrasonic time-out, at most.  With no pace, it stands  *)
(* for 20 bytes: 7 slots a packet, 3 a ring, so that five packets fit and  *)
(* there is time to lose a whole packet's worth and fall into step again.  *)
(***************************************************************************)
EXTENDS SerialLink

Job(r, w, l) == [replies |-> r, work |-> w, later |-> l]

\* Packets as fast as the keyboard gives them: a hello, a move the loop may end
\* in either way, a report, and a timed move of 300 ms.
AnyJobs ==
  {Job(0, 0, {}), Job(1, 0, {"PAUSE", "MESSAGE"}), Job(2, 0, {}), Job(1, 15, {})}

\* Mode 4 within Paced: reports, moves of the default 150 ms and of 800 ms, the
\* longest that Paced admits in the program's steps of 50 ms, and a colour reading
\* for which the arm does not leave its place (0.64 s).  Every other colour reading
\* is excluded: the arm out by 1 cm makes it 0.97 s, which Paced does not admit.
PacedJobs == {Job(2, 0, {}), Job(1, 21, {}), Job(1, 110, {}), Job(2, 88, {})}

\* Mode 4 without: a move with delay_time one step higher, 850 ms, or a colour
\* reading with the arm out all the way, 2.97 s and the length of its pulses.
LongJobs == {Job(1, 117, {}), Job(2, 408, {})}
=============================================================================
