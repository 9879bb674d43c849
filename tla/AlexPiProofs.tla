---------------------------- MODULE AlexPiProofs ----------------------------
(***************************************************************************)
(* Theorems about AlexPi, for every keyboard, every length of the event    *)
(* queue and every limit of speed and delay.                               *)
(***************************************************************************)
EXTENDS AlexPi, SequenceTheorems, TLAPS

\* A press that waits in the queue has its key still down, or a release waits
\* behind it.
DownHasUp ==
  \A i \in 1 .. Len(events) :
    events[i].kind = "KEYDOWN" =>
      \/ events[i].key \in held
      \/ \E j \in i + 1 .. Len(events) : events[j].kind = "KEYUP"

PiInv ==
  /\ TypeOK
  /\ StopPending
  /\ DownHasUp
  /\ pc # "hold" => events = <<>>

------------------------------------------------------------------------------
(***************************************************************************)
(* The settings.                                                           *)
(***************************************************************************)
Speeds == {5 * n : n \in 0 .. MAX_SPEED \div 5}
Orders == [type : {"PARAM", "KEYBOARD", "TIME"},
           op : {Motions[c] : c \in DOMAIN Motions}, bit : {0, 1}]

LEMMA SpeedSteps ==
  ASSUME speed \in Speeds, increase_speed \/ decrease_speed
  PROVE  speed' \in Speeds
<1>1. PICK n \in 0 .. MAX_SPEED \div 5 : speed = 5 * n
  BY DEF Speeds
<1>2. MAX_SPEED \in Nat /\ MAX_SPEED % 5 = 0
  BY InputsAssumption
<1>3. MAX_SPEED = 5 * (MAX_SPEED \div 5)
  BY <1>2
<1>4. CASE increase_speed
  <2>1. CASE speed + 5 <= MAX_SPEED
    <3>1. speed' = 5 * (n + 1) /\ n + 1 \in 0 .. MAX_SPEED \div 5
      BY <1>1, <1>2, <1>3, <1>4, <2>1 DEF increase_speed
    <3> QED BY <3>1 DEF Speeds
  <2>2. CASE ~(speed + 5 <= MAX_SPEED)
    <3>1. speed' = 5 * (MAX_SPEED \div 5)
      BY <1>3, <1>4, <2>2 DEF increase_speed
    <3>2. MAX_SPEED \div 5 \in 0 .. MAX_SPEED \div 5
      BY <1>2
    <3> QED BY <3>1, <3>2 DEF Speeds
  <2> QED BY <2>1, <2>2
<1>5. CASE decrease_speed
  <2>1. CASE speed = 0
    BY <1>5, <2>1 DEF decrease_speed
  <2>2. CASE speed # 0
    <3>1. speed' = 5 * (n - 1) /\ n - 1 \in 0 .. MAX_SPEED \div 5
      BY <1>1, <1>2, <1>5, <2>2 DEF decrease_speed
    <3> QED BY <3>1 DEF Speeds
  <2> QED BY <2>1, <2>2
<1> QED BY <1>4, <1>5

LEMMA DelaySteps ==
  ASSUME delay_time \in 0 .. MaxDelay, increase_delay \/ decrease_delay
  PROVE  delay_time' \in 0 .. MaxDelay
BY InputsAssumption DEF increase_delay, decrease_delay

LEMMA SendTypes ==
  ASSUME NEW c, sendCommand(c), keyboardMode \in Modes, exitFlag \in BOOLEAN,
         order \in Orders, runaway \in BOOLEAN
  PROVE  /\ keyboardMode' \in Modes /\ exitFlag' \in BOOLEAN
         /\ order' \in Orders /\ runaway' \in BOOLEAN
<1>1. keyboardMode' \in Modes
  BY DEF sendCommand, ModeOf, Modes
<1>2. exitFlag' \in BOOLEAN
  BY Zenon DEF sendCommand
<1>3. PacketType \in {"PARAM", "KEYBOARD", "TIME"}
  BY DEF PacketType, Modes
<1>4. CASE c \in DOMAIN Motions
  <2>1. /\ order' = [type |-> PacketType, op |-> Motions[c],
                     bit |-> 1 - order.bit]
        /\ runaway' = FALSE
    BY <1>4 DEF sendCommand
  <2>2. 1 - order.bit \in {0, 1}
    BY DEF Orders
  <2>3. Motions[c] \in {Motions[d] : d \in DOMAIN Motions}
    BY <1>4, Zenon
  <2> QED BY <1>1, <1>2, <1>3, <2>1, <2>2, <2>3 DEF Orders
<1>5. CASE c \notin DOMAIN Motions
  BY <1>1, <1>2, <1>5 DEF sendCommand
<1> QED BY <1>4, <1>5

------------------------------------------------------------------------------
(***************************************************************************)
(* The event queue.                                                        *)
(***************************************************************************)
LEMMA QueueTail ==
  ASSUME NEW S, NEW s \in Seq(S), s # <<>>
  PROVE  /\ Tail(s) \in Seq(S) /\ Len(s) \in Nat /\ Len(s) >= 1
         /\ Len(Tail(s)) = Len(s) - 1
         /\ Head(s) = s[1] /\ Head(s) \in S
         /\ \A i \in 1 .. Len(Tail(s)) : Tail(s)[i] = s[i + 1]
OBVIOUS

LEMMA QueueAppend ==
  ASSUME NEW S, NEW s \in Seq(S), NEW e \in S
  PROVE  /\ Append(s, e) \in Seq(S)
         /\ Len(s) \in Nat
         /\ Len(Append(s, e)) = Len(s) + 1
         /\ Append(s, e)[Len(s) + 1] = e
         /\ \A i \in 1 .. Len(s) : Append(s, e)[i] = s[i]
OBVIOUS

\* What is left after a poll keeps its releases, and a press that was polled
\* has its key down or a release behind it.
LEMMA PollQueue ==
  ASSUME NEW kind, Poll(kind), events \in Seq(Events), DownHasUp
  PROVE  /\ events' \in Seq(Events)
         /\ DownHasUp'
         /\ kind # "KEYUP" /\ UpPending => UpPending'
         /\ kind = "KEYDOWN" => held # {} \/ UpPending'
<1>1. /\ events # <<>> /\ events' = Tail(events) /\ Head(events).kind = kind
      /\ held' = held
  BY DEF Poll
<1>2. /\ events' \in Seq(Events) /\ Len(events) \in Nat /\ Len(events) >= 1
      /\ Len(events') = Len(events) - 1
      /\ events[1].kind = kind
      /\ \A i \in 1 .. Len(events') : events'[i] = events[i + 1]
  BY <1>1, QueueTail
<1>3. ASSUME NEW j \in 2 .. Len(events)
      PROVE  j - 1 \in 1 .. Len(events') /\ events'[j - 1] = events[j]
  BY <1>2
<1>4. DownHasUp'
  <2> SUFFICES ASSUME NEW i \in 1 .. Len(events'), events'[i].kind = "KEYDOWN",
                      events'[i].key \notin held
               PROVE  \E j \in i + 1 .. Len(events') : events'[j].kind = "KEYUP"
    BY <1>1 DEF DownHasUp
  <2>1. i + 1 \in 1 .. Len(events) /\ events[i + 1] = events'[i]
    BY <1>2
  <2>2. PICK j \in (i + 1) + 1 .. Len(events) : events[j].kind = "KEYUP"
    BY <2>1 DEF DownHasUp
  <2>3. j \in 2 .. Len(events) /\ j - 1 \in i + 1 .. Len(events')
    BY <1>2, <2>2
  <2> QED BY <1>3, <2>2, <2>3
<1>5. ASSUME NEW j \in 2 .. Len(events), events[j].kind = "KEYUP"
      PROVE  UpPending'
  BY <1>3, <1>5 DEF UpPending
<1>6. kind # "KEYUP" /\ UpPending => UpPending'
  <2> SUFFICES ASSUME kind # "KEYUP", NEW j \in 1 .. Len(events),
                      events[j].kind = "KEYUP"
               PROVE  UpPending'
    BY DEF UpPending
  <2>1. j \in 2 .. Len(events)
    BY <1>2
  <2> QED BY <1>5, <2>1
<1>7. kind = "KEYDOWN" => held # {} \/ UpPending'
  <2> SUFFICES ASSUME kind = "KEYDOWN", held = {} PROVE UpPending'
    OBVIOUS
  <2>1. 1 \in 1 .. Len(events)
    BY <1>2
  <2>2. PICK j \in 1 + 1 .. Len(events) : events[j].kind = "KEYUP"
    BY <1>2, <2>1 DEF DownHasUp
  <2>3. j \in 2 .. Len(events)
    BY <2>2
  <2> QED BY <1>5, <2>2, <2>3
<1> QED BY <1>2, <1>4, <1>6, <1>7

\* A new event: a press of a key that is down, a release or a request to quit.
LEMMA RaiseQueue ==
  ASSUME NEW event \in Events, Raise(event), events \in Seq(Events), DownHasUp,
         event.kind = "KEYDOWN" => event.key \in held',
         \A key \in held : key \in held' \/ event.kind = "KEYUP"
  PROVE  /\ events' \in Seq(Events)
         /\ DownHasUp'
         /\ UpPending \/ event.kind = "KEYUP" => UpPending'
<1>1. /\ events' \in Seq(Events) /\ Len(events) \in Nat
      /\ Len(events') = Len(events) + 1
      /\ events'[Len(events) + 1] = event
      /\ \A i \in 1 .. Len(events) : events'[i] = events[i]
  BY QueueAppend DEF Raise
<1>2. \A i \in 1 .. Len(events') : i \in 1 .. Len(events) \/ i = Len(events) + 1
  BY <1>1
<1>3. DownHasUp'
  <2> SUFFICES ASSUME NEW i \in 1 .. Len(events'), events'[i].kind = "KEYDOWN",
                      events'[i].key \notin held'
               PROVE  \E j \in i + 1 .. Len(events') : events'[j].kind = "KEYUP"
    BY DEF DownHasUp
  <2>1. i \in 1 .. Len(events) /\ events'[i] = events[i]
    BY <1>1, <1>2
  <2>2. CASE events[i].key \in held
    <3>1. event.kind = "KEYUP"
      BY <2>1, <2>2
    <3>2. Len(events) + 1 \in i + 1 .. Len(events')
      BY <1>1, <2>1
    <3> QED BY <1>1, <3>1, <3>2
  <2>3. CASE events[i].key \notin held
    <3>1. PICK j \in i + 1 .. Len(events) : events[j].kind = "KEYUP"
      BY <2>1, <2>3 DEF DownHasUp
    <3>2. j \in i + 1 .. Len(events') /\ j \in 1 .. Len(events)
      BY <1>1, <2>1, <3>1
    <3> QED BY <1>1, <3>1, <3>2
  <2> QED BY <2>2, <2>3
<1>4. UpPending => UpPending'
  <2> SUFFICES ASSUME NEW i \in 1 .. Len(events), events[i].kind = "KEYUP"
               PROVE  UpPending'
    BY DEF UpPending
  <2>1. i \in 1 .. Len(events') /\ events'[i] = events[i]
    BY <1>1
  <2> QED BY <2>1 DEF UpPending
<1>5. event.kind = "KEYUP" => UpPending'
  <2>1. Len(events) + 1 \in 1 .. Len(events')
    BY <1>1
  <2> QED BY <1>1, <2>1 DEF UpPending
<1> QED BY <1>1, <1>3, <1>4, <1>5

------------------------------------------------------------------------------
(***************************************************************************)
(* The steps.                                                              *)
(***************************************************************************)
LEMMA Initially == Init => PiInv
<1> SUFFICES ASSUME Init PROVE PiInv
  OBVIOUS
<1>1. speed \in Speeds
  <2>1. PICK n \in 0 .. MAX_SPEED \div 5 : speed = 5 * n
    <3>1. /\ DEFAULT_SPEED \in 0 .. MAX_SPEED /\ DEFAULT_SPEED % 5 = 0
          /\ MAX_SPEED \in Nat
      BY InputsAssumption
    <3>2. DEFAULT_SPEED = 5 * (DEFAULT_SPEED \div 5)
      BY <3>1
    <3>3. DEFAULT_SPEED \div 5 \in 0 .. MAX_SPEED \div 5
      BY <3>1
    <3> QED BY <3>2, <3>3 DEF Init
  <2> QED BY <2>1 DEF Speeds
<1>2. order \in Orders /\ order.op = "STOP"
  <2>1. "o" \in DOMAIN Motions /\ Motions["o"] = "STOP"
    BY DEF Motions
  <2> QED BY <2>1 DEF Init, Orders
<1>3. events = <<>> /\ events \in Seq(Events) /\ Len(events) = 0
  BY DEF Init
<1>4. TypeOK
  <2>1. /\ pc \in {"main", "hold", "done"} /\ keyboardMode \in Modes
        /\ delay_time \in 0 .. MaxDelay /\ previous_command \in Chars \cup {"0"}
        /\ held \subseteq HoldKeys
    BY InputsAssumption DEF Init, Modes
  <2>2. /\ exitFlag \in BOOLEAN /\ quit \in BOOLEAN /\ leave \in BOOLEAN
        /\ (leave => quit) /\ keyAlreadyPressed \in BOOLEAN /\ runaway \in BOOLEAN
    BY Zenon DEF Init
  <2> QED BY <1>1, <1>2, <1>3, <2>1, <2>2 DEF TypeOK, Speeds, Orders
<1>5. StopPending
  BY DEF Init, StopPending
<1>6. DownHasUp
  BY <1>3 DEF DownHasUp
<1> QED BY <1>3, <1>4, <1>5, <1>6 DEF PiInv

\* Outside the window the queue is empty and only types are at stake.
LEMMA Outside ==
  ASSUME PiInv, pc # "hold", UNCHANGED <<pc, window, held, events>>,
         keyboardMode' \in Modes, exitFlag' \in BOOLEAN, speed' \in Speeds,
         delay_time' \in 0 .. MaxDelay, previous_command' \in Chars \cup {"0"},
         order' \in Orders, runaway' \in BOOLEAN
  PROVE  PiInv'
<1>1. TypeOK'
  BY DEF PiInv, TypeOK, window, Speeds, Orders
<1>2. StopPending'
  BY DEF StopPending
<1>3. DownHasUp'
  BY DEF PiInv, DownHasUp
<1> QED BY <1>1, <1>2, <1>3 DEF PiInv

LEMMA ModeTypes ==
  ASSUME PiInv
  PROVE  /\ keyboardMode \in Modes /\ exitFlag \in BOOLEAN /\ speed \in Speeds
         /\ delay_time \in 0 .. MaxDelay
         /\ previous_command \in Chars \cup {"0"}
         /\ order \in Orders /\ runaway \in BOOLEAN
BY DEF PiInv, TypeOK, Speeds, Orders

LEMMA ParamsStep == PiInv /\ paramsControl => PiInv'
<1> SUFFICES ASSUME PiInv, paramsControl PROVE PiInv'
  OBVIOUS
<1>1. PICK c \in Chars : sendCommand(c)
  BY DEF paramsControl
<1>2. /\ keyboardMode' \in Modes /\ exitFlag' \in BOOLEAN
      /\ order' \in Orders /\ runaway' \in BOOLEAN
  BY <1>1, ModeTypes, SendTypes
<1>3. /\ pc # "hold" /\ UNCHANGED <<pc, window, held, events>>
      /\ UNCHANGED <<speed, delay_time, previous_command>>
  BY DEF paramsControl, InMode
<1> QED BY <1>2, <1>3, ModeTypes, Outside

LEMMA PressStep == PiInv /\ PressAndPress => PiInv'
<1> SUFFICES ASSUME PiInv, PressAndPress PROVE PiInv'
  OBVIOUS
<1>1. /\ pc # "hold" /\ UNCHANGED <<pc, window, held, events>>
      /\ UNCHANGED delay_time
  BY DEF PressAndPress, InMode
<1>2. PICK c \in Chars :
        \/ /\ decrease_speed \/ increase_speed
           /\ UNCHANGED <<keyboardMode, exitFlag, previous_command, order,
                          runaway>>
        \/ sendCommand(c) /\ Remember(c) /\ UNCHANGED speed
  BY DEF PressAndPress
<1>3. CASE /\ decrease_speed \/ increase_speed
           /\ UNCHANGED <<keyboardMode, exitFlag, previous_command, order,
                          runaway>>
  BY <1>1, <1>3, ModeTypes, SpeedSteps, Outside
<1>4. CASE sendCommand(c) /\ Remember(c) /\ UNCHANGED speed
  <2>1. /\ keyboardMode' \in Modes /\ exitFlag' \in BOOLEAN
        /\ order' \in Orders /\ runaway' \in BOOLEAN
    BY <1>4, ModeTypes, SendTypes
  <2>2. previous_command' \in Chars \cup {"0"}
    BY <1>4 DEF Remember
  <2> QED BY <1>1, <1>4, <2>1, <2>2, ModeTypes, Outside
<1> QED BY <1>2, <1>3, <1>4

LEMMA TimedStep == PiInv /\ TimedMovement => PiInv'
<1> SUFFICES ASSUME PiInv, TimedMovement PROVE PiInv'
  OBVIOUS
<1>1. /\ pc # "hold" /\ UNCHANGED <<pc, window, held, events>>
      /\ UNCHANGED <<speed, previous_command>>
  BY DEF TimedMovement, InMode
<1>2. PICK c \in Chars :
        \/ /\ decrease_delay \/ increase_delay
           /\ UNCHANGED <<keyboardMode, exitFlag, order, runaway>>
        \/ sendCommand(c) /\ UNCHANGED delay_time
  BY DEF TimedMovement
<1>3. CASE /\ decrease_delay \/ increase_delay
           /\ UNCHANGED <<keyboardMode, exitFlag, order, runaway>>
  BY <1>1, <1>3, ModeTypes, DelaySteps, Outside
<1>4. CASE sendCommand(c) /\ UNCHANGED delay_time
  <2>1. /\ keyboardMode' \in Modes /\ exitFlag' \in BOOLEAN
        /\ order' \in Orders /\ runaway' \in BOOLEAN
    BY <1>4, ModeTypes, SendTypes
  <2> QED BY <1>1, <1>4, <2>1, ModeTypes, Outside
<1> QED BY <1>2, <1>3, <1>4

LEMMA WindowSteps == PiInv /\ (Exit \/ OpenWindow \/ CloseWindow) => PiInv'
<1> SUFFICES ASSUME PiInv PROVE Exit \/ OpenWindow \/ CloseWindow => PiInv'
  OBVIOUS
<1>1. ASSUME Exit PROVE PiInv'
  <2>1. /\ pc = "main" /\ pc' = "done"
        /\ UNCHANGED <<settings, window, held, events, order, runaway>>
    BY <1>1 DEF Exit
  <2>2. TypeOK'
    BY <2>1 DEF PiInv, TypeOK, settings, window
  <2> QED BY <2>1, <2>2 DEF PiInv, StopPending, DownHasUp
<1>2. ASSUME OpenWindow PROVE PiInv'
  <2>1. /\ pc = "main" /\ pc' = "hold"
        /\ UNCHANGED <<settings, window, held, events, order>>
    BY <1>2 DEF OpenWindow, InMode
  <2>2. runaway' = Moving /\ runaway' \in BOOLEAN
    BY <1>2, Zenon DEF OpenWindow, Moving
  <2>3. TypeOK'
    BY <2>1, <2>2 DEF PiInv, TypeOK, settings, window
  <2>4. StopPending'
    <3>1. Moving' <=> Moving
      BY <2>1 DEF Moving
    <3>2. Moving' => runaway'
      BY <2>2, <3>1, Zenon
    <3> QED BY <3>2, Zenon DEF StopPending
  <2> QED BY <2>1, <2>3, <2>4 DEF PiInv, DownHasUp
<1>3. ASSUME CloseWindow PROVE PiInv'
  <2>1. /\ pc' = "main" /\ events' = <<>>
        /\ UNCHANGED <<settings, held, order, runaway>>
    BY <1>3 DEF CloseWindow
  <2>2. /\ quit' \in BOOLEAN /\ leave' \in BOOLEAN /\ (leave' => quit')
        /\ keyAlreadyPressed' \in BOOLEAN
    BY <1>3, Zenon DEF CloseWindow
  <2>3. events' \in Seq(Events) /\ Len(events') = 0
    BY <2>1
  <2>4. TypeOK'
    BY <2>1, <2>2, <2>3 DEF PiInv, TypeOK, settings
  <2>5. StopPending' /\ DownHasUp'
    BY <2>1, <2>3 DEF StopPending, DownHasUp
  <2> QED BY <2>1, <2>4, <2>5 DEF PiInv
<1> QED BY <1>1, <1>2, <1>3

LEMMA QuitStep == PiInv /\ PollQuit => PiInv'
<1> SUFFICES ASSUME PiInv, PollQuit PROVE PiInv'
  OBVIOUS
<1>1. /\ pc = "hold" /\ ~leave
      /\ UNCHANGED <<pc, held, delay_time, previous_command, keyboardMode,
                     exitFlag, speed, leave, keyAlreadyPressed, order, runaway>>
  BY DEF PollQuit, Poll
<1>2. quit' \in BOOLEAN /\ (leave' => quit')
  BY Zenon DEF PollQuit
<1>3. /\ events' \in Seq(Events) /\ DownHasUp'
      /\ UpPending => UpPending'
  <2>1. Poll("QUIT") /\ "QUIT" # "KEYUP"
    BY DEF PollQuit
  <2> QED BY <2>1, PollQueue DEF PiInv, TypeOK
<1>4. TypeOK'
  BY <1>1, <1>2, <1>3 DEF PiInv, TypeOK
<1>5. StopPending'
  <2>1. Moving' <=> Moving
    BY <1>1 DEF Moving
  <2> QED BY <1>1, <1>3, <2>1 DEF PiInv, StopPending
<1> QED BY <1>1, <1>3, <1>4, <1>5 DEF PiInv

\* A release sends the stop, or says that it sends none.
LEMMA KeyUpStep == PiInv /\ PollKeyUp => PiInv'
<1> SUFFICES ASSUME PiInv, PollKeyUp PROVE PiInv'
  OBVIOUS
<1>1. /\ pc = "hold" /\ ~leave
      /\ UNCHANGED <<pc, held, delay_time, previous_command, speed, quit, leave>>
  BY DEF PollKeyUp, Poll
<1>2. keyAlreadyPressed' \in BOOLEAN
  BY Zenon DEF PollKeyUp
<1>3. events' \in Seq(Events) /\ DownHasUp'
  <2>1. Poll("KEYUP")
    BY DEF PollKeyUp
  <2> QED BY <2>1, PollQueue DEF PiInv, TypeOK
<1>4. /\ keyboardMode' \in Modes /\ exitFlag' \in BOOLEAN
      /\ order' \in Orders /\ runaway' \in BOOLEAN
      /\ Moving' => runaway'
  <2>1. CASE sendCommand("o")
    <3>1. "o" \in DOMAIN Motions /\ Motions["o"] = "STOP"
      BY DEF Motions
    <3>2. order'.op = "STOP"
      BY <2>1, <3>1 DEF sendCommand
    <3> QED BY <2>1, <3>2, ModeTypes, SendTypes DEF Moving
  <2>2. CASE /\ runaway' = (runaway \/ Moving)
             /\ UNCHANGED <<keyboardMode, exitFlag, order>>
    <3>1. runaway' \in BOOLEAN
      BY <2>2, Zenon DEF Moving
    <3>2. Moving' <=> Moving
      BY <2>2 DEF Moving
    <3>3. Moving' => runaway'
      BY <2>2, <3>2, Zenon
    <3> QED BY <2>2, <3>1, <3>3, ModeTypes
  <2>3. CASE ~keyAlreadyPressed /\ UNCHANGED <<keyboardMode, exitFlag, order, runaway>>
    <3>1. Moving' <=> Moving
      BY <2>3 DEF Moving
    <3>2. Moving => runaway
      BY <1>1, <2>3 DEF PiInv, StopPending
    <3> QED BY <2>3, <3>1, <3>2, ModeTypes
  <2> QED BY <2>1, <2>2, <2>3, Zenon DEF PollKeyUp
<1>5. TypeOK'
  BY <1>1, <1>2, <1>3, <1>4 DEF PiInv, TypeOK, Orders
<1>6. StopPending'
  BY <1>4 DEF StopPending
<1> QED BY <1>1, <1>3, <1>5, <1>6 DEF PiInv

\* A press that is looked at is engaged, and its release is still to come.
LEMMA KeyDownStep == PiInv /\ PollKeyDown => PiInv'
<1> SUFFICES ASSUME PiInv, PollKeyDown PROVE PiInv'
  OBVIOUS
<1>1. /\ pc = "hold" /\ ~leave /\ keyAlreadyPressed' = TRUE
      /\ UNCHANGED <<pc, held, delay_time, previous_command>>
  BY DEF PollKeyDown, Poll
<1>2. /\ events' \in Seq(Events) /\ DownHasUp'
      /\ held' # {} \/ UpPending'
  <2>1. Poll("KEYDOWN") /\ held' = held
    BY <1>1 DEF PollKeyDown
  <2> QED BY <2>1, PollQueue DEF PiInv, TypeOK
<1>3. quit \in BOOLEAN /\ leave \in BOOLEAN /\ (leave => quit)
  BY DEF PiInv, TypeOK
<1>4. /\ keyboardMode' \in Modes /\ exitFlag' \in BOOLEAN /\ speed' \in Speeds
      /\ order' \in Orders /\ runaway' \in BOOLEAN
      /\ quit' \in BOOLEAN /\ leave' \in BOOLEAN /\ (leave' => quit')
  <2> DEFINE key == Head(events).key
  <2>1. CASE /\ quit' = TRUE /\ leave' = TRUE /\ keyboardMode' = 1
             /\ UNCHANGED <<exitFlag, speed, order, runaway>>
    BY <2>1, ModeTypes DEF Modes
  <2>2. CASE /\ decrease_speed \/ increase_speed
             /\ UNCHANGED <<keyboardMode, exitFlag, quit, leave, order, runaway>>
    BY <1>3, <2>2, ModeTypes, SpeedSteps
  <2>3. CASE sendCommand(KeyChar[key]) /\ UNCHANGED <<speed, quit, leave>>
    BY <1>3, <2>3, ModeTypes, SendTypes
  <2>4. CASE UNCHANGED <<keyboardMode, exitFlag, speed, quit, leave, order, runaway>>
    BY <1>3, <2>4, ModeTypes
  <2> QED BY <2>1, <2>2, <2>3, <2>4 DEF PollKeyDown
<1>5. TypeOK'
  BY <1>1, <1>2, <1>4 DEF PiInv, TypeOK, Orders, Speeds
<1>6. StopPending'
  BY <1>1, <1>2 DEF StopPending
<1> QED BY <1>1, <1>2, <1>5, <1>6 DEF PiInv

------------------------------------------------------------------------------
(***************************************************************************)
(* The user.                                                               *)
(***************************************************************************)
\* A new event leaves a key down or a release behind every press.
LEMMA EventStep ==
  ASSUME PiInv, NEW event \in Events, Raise(event),
         UNCHANGED <<pc, settings, window, order, runaway>>,
         held' \subseteq HoldKeys,
         event.kind = "KEYDOWN" => event.key \in held',
         \A key \in held : key \in held' \/ event.kind = "KEYUP"
  PROVE  PiInv'
<1>1. /\ events' \in Seq(Events) /\ DownHasUp'
      /\ UpPending \/ event.kind = "KEYUP" => UpPending'
  BY RaiseQueue DEF PiInv, TypeOK
<1>2. TypeOK'
  BY <1>1 DEF PiInv, TypeOK, settings, window
<1>3. StopPending'
  <2>1. Moving' <=> Moving
    BY DEF Moving
  <2>2. held # {} \/ UpPending => held' # {} \/ UpPending'
    BY <1>1
  <2> QED BY <2>1, <2>2 DEF PiInv, StopPending, window
<1>4. pc' = "hold"
  BY DEF Raise
<1> QED BY <1>1, <1>2, <1>3, <1>4 DEF PiInv

LEMMA UserStep == PiInv /\ User => PiInv'
<1> SUFFICES ASSUME PiInv, User PROVE PiInv'
  OBVIOUS
<1> USE DEF Events
<1>1. ASSUME NEW key \in HoldKeys, Press(key) PROVE PiInv'
  <2>1. [kind |-> "KEYDOWN", key |-> key] \in Events
    OBVIOUS
  <2>2. held' \subseteq HoldKeys
    BY <1>1 DEF Press, PiInv, TypeOK
  <2> QED BY <1>1, <2>1, <2>2, EventStep DEF Press
<1>2. ASSUME NEW key \in HoldKeys, Repeat(key) PROVE PiInv'
  <2>1. [kind |-> "KEYDOWN", key |-> key] \in Events
    OBVIOUS
  <2>2. held' \subseteq HoldKeys
    BY <1>2 DEF Repeat, PiInv, TypeOK
  <2> QED BY <1>2, <2>1, <2>2, EventStep DEF Repeat
<1>3. ASSUME NEW key \in HoldKeys, Release(key) PROVE PiInv'
  <2>1. [kind |-> "KEYUP", key |-> key] \in Events
    OBVIOUS
  <2>2. /\ held' \subseteq HoldKeys
        /\ UNCHANGED <<pc, settings, window, order, runaway>>
    BY <1>3 DEF Release, PiInv, TypeOK
  <2>3. CASE pc = "hold"
    <3>1. Raise([kind |-> "KEYUP", key |-> key])
      BY <1>3, <2>3 DEF Release
    <3> QED BY <2>1, <2>2, <3>1, EventStep
  <2>4. CASE pc # "hold"
    <3>1. events = <<>> /\ events' = <<>> /\ Len(events') = 0
      BY <1>3, <2>4 DEF Release, PiInv
    <3>2. TypeOK'
      BY <2>2, <3>1 DEF PiInv, TypeOK, settings, window
    <3>3. StopPending' /\ DownHasUp'
      BY <2>2, <2>4, <3>1 DEF StopPending, DownHasUp
    <3> QED BY <3>1, <3>2, <3>3 DEF PiInv
  <2> QED BY <2>3, <2>4
<1>4. ASSUME CloseButton PROVE PiInv'
  <2>1. [kind |-> "QUIT", key |-> "none"] \in Events
    OBVIOUS
  <2>2. held' = held /\ held \subseteq HoldKeys
    BY <1>4 DEF CloseButton, PiInv, TypeOK
  <2> QED BY <1>4, <2>1, <2>2, EventStep DEF CloseButton
<1> QED BY <1>1, <1>2, <1>3, <1>4 DEF User

LEMMA Inductive == PiInv /\ [Next]_vars => PiInv'
<1> SUFFICES ASSUME PiInv, [Next]_vars PROVE PiInv'
  OBVIOUS
<1>1. CASE UNCHANGED vars
  BY <1>1 DEF vars, settings, window, PiInv, TypeOK, StopPending, Moving,
              UpPending, DownHasUp
<1>2. CASE Done
  BY <1>1, <1>2 DEF Done
<1> QED BY <1>1, <1>2, ParamsStep, PressStep, TimedStep, WindowSteps, QuitStep,
           KeyUpStep, KeyDownStep, UserStep
        DEF Next, Program, Unattended

\* The driving modes keep their types, and in key hold mode a robot under way
\* has a key down or a release that waits to be looked at, unless the move is
\* one that runaway records.
THEOREM Engaged == Spec => [](TypeOK /\ StopPending)
<1>1. PiInv => TypeOK /\ StopPending
  BY DEF PiInv
<1> QED BY <1>1, Initially, Inductive, PTL DEF Spec
==============================================================================
