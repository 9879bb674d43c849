------------------------------- MODULE AlexPi -------------------------------
(***************************************************************************)
(* The operator's program on the Raspberry Pi (RPi/alex-pi.cpp and the     *)
(* sending half of RPi/usart.cpp): four ways to drive, and the packets     *)
(* they put on the serial line.                                            *)
(*   1  params      a command letter and two numbers, paramsControl()      *)
(*   2  key hold    keys held in an SDL window, keypressControl()          *)
(*   3  key press   one key after the other, PressAndPress()               *)
(*   4  small adjustment   moves of delay_time ms, TimedMovement()         *)
(*                                                                         *)
(* A blocking read of the terminal and the handling of what was typed are  *)
(* one step.  The window's event queue is filled by the user while the     *)
(* program polls it, so the two are separate actors.                       *)
(* clear_to_send_command is TRUE always: the line that would reset it is a *)
(* comment, so the flow control it guards is not in the model.             *)
(***************************************************************************)
EXTENDS Integers, Sequences

CONSTANTS
  Chars,          \* what may be typed in modes 1, 3 and 4
  HoldKeys,       \* keys of the keyboard that mode 2 sees
  Closable,       \* whether the user may close the window of mode 2
  DEFAULT_SPEED, DEFAULT_DELAY,
  MAX_SPEED,      \* 100, the limit of increase_speedf()
  MaxDelay,       \* bound of the model: delay_time has no limit in the code
  MaxEvents       \* bound of the model: events waiting in the window

Modes == 1 .. 4
Motions == [w |-> "FORWARD", s |-> "REVERSE", a |-> "TURN_LEFT",
            d |-> "TURN_RIGHT", o |-> "STOP"]

\* sendCommand() takes either case; SDL_GetKeyName() names a key in capitals
\* and only the first letter is looked at: the space bar is a "S".
KeyChar == [W |-> "w", S |-> "s", A |-> "a", D |-> "d", O |-> "o", U |-> "u",
            K |-> "k", V |-> "v", G |-> "g", Q |-> "q", Space |-> "s"]
ModeKeys == {"1", "3", "4"}
Arrows == {"LEFT_ARROW", "RIGHT_ARROW"}

\* Releasing one of these sends no stop.
NoStopKeys == Arrows \cup {"U", "K", "V"}

ASSUME InputsAssumption ==
  /\ HoldKeys \subseteq DOMAIN KeyChar \cup ModeKeys \cup Arrows
  /\ DEFAULT_SPEED \in 0 .. MAX_SPEED
  /\ DEFAULT_SPEED % 5 = 0 /\ MAX_SPEED % 5 = 0
  /\ {MAX_SPEED, MaxDelay, MaxEvents} \subseteq Nat
  /\ DEFAULT_DELAY \in 0 .. MaxDelay
  /\ Closable \in BOOLEAN

VARIABLES
  pc,                 \* "main", "hold" inside keypressControl(), or "done"
  keyboardMode, exitFlag, speed, delay_time, previous_command,
  quit, leave, keyAlreadyPressed,   \* keypressControl(); leave is its "stop"
  held,               \* keys the user holds down
  events,             \* the window's event queue
  order,              \* history: the last motion packet; bit flips with every
                      \*          one, so that the same order again is seen
  runaway             \* history: the move of order no longer follows a key

settings == <<keyboardMode, exitFlag, speed, delay_time, previous_command>>
window == <<quit, leave, keyAlreadyPressed>>
vars == <<pc, settings, window, held, events, order, runaway>>

\* The robot is under way until the next packet.  A timed move ends by itself.
Moving == order.op # "STOP" /\ order.type # "TIME"

Init ==
  /\ pc = "main"
  /\ keyboardMode = 1
  /\ exitFlag = FALSE
  /\ speed = DEFAULT_SPEED
  /\ delay_time = DEFAULT_DELAY
  /\ previous_command = "0"
  /\ quit = FALSE /\ leave = FALSE /\ keyAlreadyPressed = FALSE
  /\ held = {}
  /\ events = <<>>
  /\ order = [type |-> "PARAM", op |-> "STOP", bit |-> 0]
  /\ runaway = FALSE

------------------------------------------------------------------------------
(***************************************************************************)
(* usart.cpp and prints.cpp.                                               *)
(***************************************************************************)
PacketType ==
  CASE keyboardMode = 1 -> "PARAM"
    [] keyboardMode \in {2, 3} -> "KEYBOARD"
    [] keyboardMode = 4 -> "TIME"

ModeOf == [c \in {"1", "2", "3", "4"} |->
             CASE c = "1" -> 1 [] c = "2" -> 2 [] c = "3" -> 3 [] c = "4" -> 4]

\* sendCommand().  What it prints, and the reports it requests, change nothing
\* here.
sendCommand(c) ==
  /\ keyboardMode' = IF c \in DOMAIN ModeOf THEN ModeOf[c] ELSE keyboardMode
  /\ exitFlag' = (exitFlag \/ c = "q")
  /\ \/ /\ c \in DOMAIN Motions
        /\ order' = [type |-> PacketType, op |-> Motions[c],
                     bit |-> 1 - order.bit]
        /\ runaway' = FALSE
     \/ /\ c \notin DOMAIN Motions
        /\ UNCHANGED <<order, runaway>>

\* Mutant: the test for 0 is dropped.
decrease_speedUnchecked == speed' = speed - 5

increase_speed == speed' = IF speed + 5 <= MAX_SPEED THEN speed + 5 ELSE MAX_SPEED
decrease_speed == speed' = IF speed = 0 THEN speed ELSE speed - 5

increase_delay == delay_time + 50 <= MaxDelay /\ delay_time' = delay_time + 50
decrease_delay == delay_time' = IF delay_time < 50 THEN 0 ELSE delay_time - 50

------------------------------------------------------------------------------
(***************************************************************************)
(* main() and the modes that read the terminal.                            *)
(***************************************************************************)
Exit ==
  /\ pc = "main"
  /\ exitFlag
  /\ pc' = "done"
  /\ UNCHANGED <<settings, window, held, events, order, runaway>>

InMode(m) == pc = "main" /\ ~exitFlag /\ keyboardMode = m

paramsControl ==
  /\ InMode(1)
  /\ \E c \in Chars : sendCommand(c)
  /\ UNCHANGED <<pc, speed, delay_time, previous_command, window, held, events>>

\* A command is not sent twice in a row.
Accepts(c) == c # previous_command \/ c \in {",", ".", "v", "u"}

\* Mutant: only movements are remembered.
RememberMotion(c) ==
  previous_command' = IF c \in DOMAIN Motions THEN c ELSE previous_command

Remember(c) == previous_command' = c

PressAndPress ==
  /\ InMode(3)
  /\ \E c \in Chars :
       /\ Accepts(c)
       /\ \/ /\ c = ","
             /\ decrease_speed
             /\ UNCHANGED <<keyboardMode, exitFlag, previous_command, order,
                            runaway>>
          \/ /\ c = "."
             /\ increase_speed
             /\ UNCHANGED <<keyboardMode, exitFlag, previous_command, order,
                            runaway>>
          \/ /\ c \notin {",", "."}
             /\ sendCommand(c)
             /\ Remember(c)
             /\ UNCHANGED speed
  /\ UNCHANGED <<pc, delay_time, window, held, events>>

TimedMovement ==
  /\ InMode(4)
  /\ \E c \in Chars :
       \/ /\ c = ","
          /\ decrease_delay
          /\ UNCHANGED <<keyboardMode, exitFlag, order, runaway>>
       \/ /\ c = "."
          /\ increase_delay
          /\ UNCHANGED <<keyboardMode, exitFlag, order, runaway>>
       \/ /\ c \notin {",", "."}
          /\ sendCommand(c)
          /\ UNCHANGED delay_time
  /\ UNCHANGED <<pc, speed, previous_command, window, held, events>>

------------------------------------------------------------------------------
(***************************************************************************)
(* keypressControl().                                                      *)
(***************************************************************************)
OpenWindow ==
  /\ InMode(2)
  /\ pc' = "hold"
  /\ runaway' = Moving
  /\ UNCHANGED <<settings, window, held, events, order>>

\* SDL_PollEvent() takes the next event.
Poll(kind) ==
  /\ pc = "hold"
  /\ ~leave
  /\ events # <<>>
  /\ Head(events).kind = kind
  /\ events' = Tail(events)
  /\ UNCHANGED <<pc, held, delay_time, previous_command>>

PollQuit ==
  /\ Poll("QUIT")
  /\ quit' = TRUE
  /\ UNCHANGED <<keyboardMode, exitFlag, speed, leave, keyAlreadyPressed, order,
                 runaway>>

\* Mutant: a release ends the engagement and sends nothing.
PollKeyUpSilent ==
  /\ Poll("KEYUP")
  /\ keyAlreadyPressed' = FALSE
  /\ UNCHANGED <<keyboardMode, exitFlag, speed, quit, leave, order, runaway>>

PollKeyUp ==
  /\ Poll("KEYUP")
  /\ keyAlreadyPressed' = FALSE
  /\ \/ /\ keyAlreadyPressed /\ Head(events).key \notin NoStopKeys
        /\ sendCommand("o")
     \/ /\ keyAlreadyPressed /\ Head(events).key \in NoStopKeys
        /\ runaway' = (runaway \/ Moving)
        /\ UNCHANGED <<keyboardMode, exitFlag, order>>
     \/ /\ ~keyAlreadyPressed
        /\ UNCHANGED <<keyboardMode, exitFlag, order, runaway>>
  /\ UNCHANGED <<speed, quit, leave>>

PollKeyDown ==
  /\ Poll("KEYDOWN")
  /\ keyAlreadyPressed' = TRUE
  /\ LET key == Head(events).key IN
     \/ /\ ~keyAlreadyPressed /\ key \in ModeKeys
        /\ quit' = TRUE /\ leave' = TRUE
        /\ keyboardMode' = 1
        /\ UNCHANGED <<exitFlag, speed, order, runaway>>
     \/ /\ ~keyAlreadyPressed /\ key = "LEFT_ARROW"
        /\ decrease_speed
        /\ UNCHANGED <<keyboardMode, exitFlag, quit, leave, order, runaway>>
     \/ /\ ~keyAlreadyPressed /\ key = "RIGHT_ARROW"
        /\ increase_speed
        /\ UNCHANGED <<keyboardMode, exitFlag, quit, leave, order, runaway>>
     \/ /\ ~keyAlreadyPressed /\ key \in DOMAIN KeyChar
        /\ sendCommand(KeyChar[key])
        /\ UNCHANGED <<speed, quit, leave>>
     \/ /\ keyAlreadyPressed
        /\ UNCHANGED <<keyboardMode, exitFlag, speed, quit, leave, order, runaway>>

CloseWindow ==
  /\ pc = "hold"
  /\ quit
  /\ leave \/ events = <<>>
  /\ pc' = "main"
  /\ quit' = FALSE /\ leave' = FALSE /\ keyAlreadyPressed' = FALSE
  /\ events' = <<>>
  /\ UNCHANGED <<settings, held, order, runaway>>

------------------------------------------------------------------------------
(***************************************************************************)
(* The user.  A key held down repeats.  The keyboard is the window's while *)
(* it is open.                                                             *)
(***************************************************************************)
Raise(event) ==
  /\ pc = "hold"
  /\ Len(events) < MaxEvents
  /\ events' = Append(events, event)

Press(key) ==
  /\ key \notin held
  /\ held' = held \cup {key}
  /\ Raise([kind |-> "KEYDOWN", key |-> key])
  /\ UNCHANGED <<pc, settings, window, order, runaway>>

Repeat(key) ==
  /\ key \in held
  /\ Raise([kind |-> "KEYDOWN", key |-> key])
  /\ UNCHANGED <<pc, settings, window, held, order, runaway>>

Release(key) ==
  /\ key \in held
  /\ held' = held \ {key}
  /\ IF pc = "hold" THEN Raise([kind |-> "KEYUP", key |-> key])
                    ELSE UNCHANGED events
  /\ UNCHANGED <<pc, settings, window, order, runaway>>

CloseButton ==
  /\ Closable
  /\ Raise([kind |-> "QUIT", key |-> "none"])
  /\ UNCHANGED <<pc, settings, window, held, order, runaway>>

------------------------------------------------------------------------------
\* What the program does without waiting for the terminal.
Unattended ==
  \/ Exit
  \/ OpenWindow \/ CloseWindow
  \/ PollQuit \/ PollKeyUp \/ PollKeyDown

Program == Unattended \/ paramsControl \/ PressAndPress \/ TimedMovement

User ==
  \/ \E key \in HoldKeys : Press(key) \/ Repeat(key) \/ Release(key)
  \/ CloseButton

\* After "done" the process is gone.
Done == pc = "done" /\ UNCHANGED vars

Next == Program \/ User \/ Done

Spec == Init /\ [][Next]_vars

\* The loops of main() and keypressControl() never wait; the user owes nothing.
FairSpec == Spec /\ WF_vars(Unattended)

------------------------------------------------------------------------------
(***************************************************************************)
(* Properties.                                                             *)
(***************************************************************************)
Events == [kind : {"KEYDOWN", "KEYUP"}, key : HoldKeys]
            \cup {[kind |-> "QUIT", key |-> "none"]}

\* The speed never leaves 0 .. MAX_SPEED although decrease_speedf() tests only
\* for 0, and the locals of keypressControl() are consistent.
TypeOK ==
  /\ pc \in {"main", "hold", "done"}
  /\ keyboardMode \in Modes
  /\ exitFlag \in BOOLEAN
  /\ speed \in {5 * n : n \in 0 .. MAX_SPEED \div 5}
  /\ delay_time \in 0 .. MaxDelay
  /\ previous_command \in Chars \cup {"0"}
  /\ quit \in BOOLEAN /\ leave \in BOOLEAN /\ (leave => quit)
  /\ keyAlreadyPressed \in BOOLEAN
  /\ held \subseteq HoldKeys
  /\ events \in Seq(Events)
  /\ order \in [type : {"PARAM", "KEYBOARD", "TIME"},
                op : {Motions[c] : c \in DOMAIN Motions}, bit : {0, 1}]
  /\ runaway \in BOOLEAN

UpPending == \E i \in 1 .. Len(events) : events[i].kind = "KEYUP"

\* In key hold mode a robot under way has a key behind it: the program still
\* counts on a release, and that release is still to come.  The exceptions are
\* those runaway records: a move left over when the window opened, and one
\* during which a key that sends no stop was released.
StopPending ==
  (pc = "hold" /\ Moving /\ ~runaway)
    => keyAlreadyPressed /\ (held # {} \/ UpPending)

\* When every key is up, the stop that ends such a move is sent.
ReleaseStops ==
  (pc = "hold" /\ Moving /\ ~runaway /\ held = {})
    ~> (~Moving \/ runaway \/ held # {} \/ pc # "hold")

\* "Switched to Key Hold mode" (usart.cpp:222): with every key up and every
\* event handled the robot does not move.
KeyHold ==
  (pc = "hold" /\ held = {} /\ events = <<>>) => ~Moving
==============================================================================
