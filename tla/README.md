# Alex: a TLA+ model of the robot and its remote control

Alex is a four-wheeled robot. An Arduino Mega runs the firmware (`src/alex`), a
Raspberry Pi on board runs the operator's program (`src/RPi`) or, instead of
it, a TLS command server (`src/server`). Pi and Arduino talk over a 9600 baud
serial line in packets of 140 bytes. This directory models that software in
TLA+, checks it with TLC and proves the main results with TLAPS.

## 1. Inventory

| Component | State it keeps | Operations | Interacts with |
|---|---|---|---|
| Framing, `serialize.cpp` (same file on Pi and server, library of the firmware) | the statics of `assemble()`: `counter`, `leftoverFlag`, `leftoverCount`, two buffers | `serialize`, `deserialize` | called by the receive loop of each program |
| Firmware loop and motion, `alex.ino`, `robotlib.ino` | `dir`, `preventCollision`, `deltaDist`, `newDist`, `deltaTicks`, `targetTicks`, motor duty | `loop`, `forward`, `backward`, `left`, `right`, `stop` | reads counters the interrupts write; reads packets; reads the ultrasonic sensor |
| Wheel encoders, `alex.ino` | eight tick counters, `forwardDist`, `reverseDist` | `leftISR`, `rightISR`, `clearCounters` | interrupt the loop anywhere |
| Packet handlers, `usart.ino` | none of their own | `handlePacket`, three command handlers, the `send...` functions | called by the loop; call the motion functions; answer the Pi |
| Colour arm, `colour_sensor.ino`, `servo.ino` | `linearactuatordist`, the arm's position | `sendColor`, `distance_forward`, `distance_reverse` | called by COMMAND_COLOR, blocks the loop for seconds |
| Ultrasonic, `ultrasonic.ino` | none | `getUltrasonicDistance`, `sendDistance` | guard of the loop, COMMAND_DIST, colour arm |
| Pi client, `alex-pi.cpp`, `usart.cpp` (sending half), `prints.cpp` | `keyboardMode`, `exitFlag`, `speed`, `delay_time`, `previous_command`; the locals of the key hold window | four driving modes, `sendCommand` | terminal, SDL window, serial line |
| Pi client, receive thread, `colour.cpp` | none that matters (see section 7) | `receiveThread`, `handlePacket`, prints | serial line |
| Serial link, `serial.cpp`, `serial.ino` | the UART's 64-byte ring, the kernel's buffer | `serialRead`, `serialWrite`, `readSerial` | both sides |
| TLS command server, `tls-alex-server.cpp` | `networkActive`, `tls_conn` | `worker`, `handleCommand`, `uartReceiveThread` | TLS library, serial line |
| TLS library, `make_tls_server.cpp` and others | `_exitFlag`, file names | `createServer`, `_tls_listener` | spawns a worker for each client |
| LED, `led.ino` | | set-up calls are comments | unused |

Hard behaviour, and what makes each component correct:

* **Framing.** A read returns any number of bytes, so a chunk ends one frame
  and starts the next while older leftovers wait. Correct: no byte is lost,
  repeated or moved, and a frame is handed over in the call that completes it.
* **Loop, motion, encoders.** Interrupts run between any two instructions; on
  the 8-bit ATmega a four-byte counter is read in four loads. Commands replace
  each other in mid-course. Correct: a stopped robot is completely stopped,
  forward motion that the loop supervises is guarded, targets survive torn
  reads, a limited move ends.
* **Handlers.** Correct: one acknowledgement or error for each command, and a
  movement that was taken is begun and, if timed, brought to its end.
* **Pi client.** Key events of several keys, key repeat, the window and the
  mode switches interleave. Correct: a robot driven by a held key stops on its
  release, and a key that is refused as a repetition asks for nothing new.
* **Client and robot together.** The client has no replies to go by and the line
  loses packets. Correct: the robot does what was ordered last and not lost, and
  a stop that is not lost ends whatever the robot was doing.
* **Serial link.** The firmware blocks in `delay()` while packets arrive.
  Correct: nothing is lost at a pace the handlers leave time for. What is lost
  is not recovered from: framing by count stays out of step.
* **TLS server.** Workers and the UART thread share two plain globals.
  Correct: replies reach the client that asked, one client at a time.

`PROJECT.json` lists the single hazards with their lines.

## 2. Modules

| Module | What it is |
|---|---|
| `FrameStream` | what the framing layer promises: the stream is cut into consecutive frames |
| `Assembler` | `assemble()` and its call in `deserialize()`; implements `FrameStream` |
| `AssemblerProofs` | theorems about `Assembler` |
| `Drive` | what the firmware promises the operator: it moves as ordered and when ordered |
| `Alex` | the firmware: loop, motion, handlers, interrupts; implements `Drive` |
| `AlexProofs`, `AlexDriveProofs` | theorems about `Alex`; that it implements `Drive` |
| `AlexPi` | the Pi client's driving modes |
| `AlexPiProofs` | theorems about `AlexPi` |
| `Remote` | `AlexPi`, a line that loses packets, and the robot of `Drive`, composed |
| `RemoteProofs` | theorems about `Remote` |
| `LossyChannel` | what the serial line promises: a packet is handled at most once, in order |
| `SerialLink` | the line from the Pi to the firmware, with the time it takes; implements `LossyChannel` |
| `SerialLinkProofs` | theorems about `SerialLink`; that it implements `LossyChannel` |
| `TlsServer` | the TLS command server: main, listener, workers, UART thread |
| `TlsServerProofs` | theorems about `TlsServer` |
| `ColourArm` | a colour reading: the arm, its arithmetic, the averages, and what the Pi takes them for |
| `ColourArmProofs` | theorems about `ColourArm` |
| `MCAssembler`, `MCAlex`, `MCAlexPi`, `MCRemote`, `MCSerialLink`, `MCTlsServer`, `MCColourArm` | finite instances for TLC |

### Assembler

A byte is its position in the received stream, so one statement covers every
content. The variables are the statics of `assemble()` with two history
variables, `received` and `delivered`. One call is one step: each program calls
it from one thread. `CopyCount`, `BytesLeft` and `BytesToCopy` are the locals
of the function in the order it computes them. `SizesAssumption` says that a
chunk fits the caller's `char buffer[PACKET_SIZE]`. That is an assumption the code
does not enforce: the Pi's `serialRead()` (`serial.cpp:125`) asks `read()` for up
to `MAX_BUFFER_LEN`, 1024, bytes into that buffer, and of what happens when more
than a packet is waiting this module and its theorems say nothing. It belongs to
the other direction of the line (section 6).

The frame of the abstract layer is the output buffer when the call returned
PACKET_COMPLETE: `deserialize()` looks at it then and only then.

### Alex

`pc` is the point `loop()` has reached: `sonar`, `dist`, `ticks`, `serial`, and
the points inside a handler where something else can happen (`arm` between the
two halves of a movement command, `clear` between the two halves of
`clearCounters()`, `timed` and the pauses during a `delay()`). `left[d]` and
`right[d]` are the counters an interrupt adds to in direction `d`; a right turn
thus counts on `rightReverseTurns` = `right["RIGHT"]`, which is what the loop
looks at. `dist` holds `forwardDist` and `reverseDist`.

*Torn reads.* The compiler loads a `volatile unsigned long` from its low byte
up, and nothing disables interrupts. A read of a counter the interrupts write is
two steps: `low` remembers the value the low byte was taken from, `Torn`
combines it with the counter at the second step. Any number of interrupts may
fall between. `ByteBase` is 256 for a split after the first byte; a split
further up is the same model with `ByteBase` 2^16 or 2^24, and the theorems
hold for every `ByteBase`. A torn *store* of `newDist` or of a target needs no
model: only the loop reads them. The clearing of the counters is
grouped into ticks first and distances second, which is the one place an
interrupt inside it can be told from one before or after it.

*Numbers.* `DistOf` is the integer form of `ticks / 4 * 20.73`; it agrees with
the single-precision expression for every count up to 5000 (259 m).
`computeDeltaTicks` is exact for 0 to 800 degrees. `Power` keeps the `uint8_t` of the motor library's `setSpeed()`.
Sums of `unsigned long` are taken modulo `Word`. A number in a packet becomes a
32-bit float on its way to the motion functions (`usart.ino:131`, `double` is no
wider on this processor) and is converted back there (`robotlib.ino:60`): `Rounded`
is the nearest float of `Mantissa` values, `ToULong` the way back. What that gives
for a float of `Word` and more is undefined in the language, so it is any of
`Overflows`. Below 2^24 nothing changes. Near 2^32 floats are 256 apart:
-300 typed at the prompt arrives as 2^32 - 256, and -5 rounds to 2^32 and is one of
`Overflows`.

*Targets and guard.* `TargetAsOrdered` says where the target of a straight move
lies: at the odometer when the move began (or at 0, when `clearCounters()` missed a
tick, see `OdometerAgrees`) plus `deltaDist`, up to one low byte, as a sum of two unsigned longs, which wraps for a `deltaDist` near 2^32; and for a
distance that a float holds exactly, at the distance ordered, with nothing wrapped.
`GuardWatchesForward` is about motion the loop supervises. In a timed move
`forward()` sets `preventCollision` too, but nothing looks at it before `delay()`
ends (`usart.ino:216` says "collision not activated here"), so timed moves are
excepted.

*Folded away.* `loop()` has a branch for a robot that is stopped with a target
armed. `stop()` zeroes both deltas and a movement command sets the direction
before the loop looks again, so the branch is dead: `QuietWhenStopped` is the
proof of it.

*What it promises.* `Drive` is the firmware as the operator sees it: a course,
whether the guard watches it, whether a limit ends it, and the order being
carried out. An order is taken whole (`Take`), begun once (`Begin`), and a timed
one keeps the robot deaf until the stop that ends it (`TimeUp`); other than that
only `Stop` and, for a watched or limited course, `StopsItself` change the
course. The refinement mapping `D` of `Alex` reads the course from `dir` and the
guard from `preventCollision`; the order is the command in `cmd` while `pc` is
`arm` or `timed`, which is exactly while its handler runs; `limited` is the
history variable `limit`. So `Drives` says, of every interleaving with the
interrupts: no torn counter, target left over from a replaced move or clearing
of the counters makes the loop stop a move that has neither a limit nor a guard,
or start one nobody ordered. The mapping also shows what the promise does not
include: a guard that a forward move turned on watches the turn or the reverse
that replaces it as well (`alex.ino:218` looks at no direction).

The comment at `alex.ino:102-104` wants INT3 to call `leftISR`;
the code calls it from INT2, and the model follows the code. Which wire is on
which pin is not in the repository, so this is not listed as a finding.

### AlexPi

`keypressControl()` and the user are separate actors around the window's event
queue: the user presses, holds (key repeat) and releases keys, and may close the
window; the program polls one event at a time. In the other modes a blocking
read and the handling of what was typed are one step. `order` remembers the
last motion packet, with a bit that flips so that the same order sent again is a
step. `runaway` marks the two cases in which no release can be
expected to stop the robot: a move left over from another mode, and a move
during which one of the keys that send no stop was released.

Key names are those of `SDL_GetKeyName()`, of which only the first letter is
used: the space bar is an `S` and drives backward.

### Remote

`Remote` extends `AlexPi` with a line and the robot of `Drive`, its `order`
renamed to `task`. A step of the client that changes `order` puts that packet at
the end of `line` (`Client`). The packet at the head arrives and is handled in a
step of `Drive` (`ArriveMove`, `ArriveStop`) or is lost (`Lose`): at most once
and in order, which is what `SerialLink` shows of the real line. The steps the
robot takes by itself are `Carry`. So the composition rests on two refinements:
`Alex` implements the robot used here and `SerialLink` the line.

A distance typed in mode 1 may be 0 or less, which is no limit: `TasksOf` leaves
that open for straight moves, and a turn by an angle always has its limit. Which
packets the client sends but which ask for no movement is left out. A loss is
only allowed while no order waits to begin: beginning a motion reads nothing of
the line, so a loss before it commutes with it and every behaviour of the
properties' variables is kept.

`ended` remembers what ended the last course without a packet: its time, its
limit or the guard.

`RobotFollows` is the property a user of the client relies on, because the
client never looks at a reply: what it ordered last is what the robot does, or the
robot stands because that order was timed and its time is over, or had a distance
or an angle that ended it, or because the guard ended it. `StopReachesRobot`
follows one stop: behind whatever is on the line, and a timed move that is deaf to
it, it ends the robot's course, unless it is lost or another order follows it. No
promise is made for stops that are lost, however often they are sent: by
`StaysOutOfStep` of `SerialLink` a link out of step refuses every one of them.
`StopRefusedAtRest` is about the filter of key press mode, which compares with
the last *key* of that mode although the other modes move the robot in between:
the only key that leads out of mode 3 replaces it first.
`WheelsHaveKey` carries `StopPending` of the client over the line to the robot.

### SerialLink

One direction: commands, `sendPacket()` to `handlePacket()`. Time is counted in
slots, the time the line needs for one byte (an instance may let a slot stand
for several). In a slot one byte arrives and one of the firmware's replies
leaves. `kept` are the bytes inside the firmware: first those `readSerial()`
has taken for the frame being filled (`assembled`), then those in the ring.
A byte that finds the ring full is gone; nothing on either side notices.

The firmware is away from the port for two reasons. `unsent` counts the bytes
of its replies not on the line yet: `writeSerial()` waits until all but a
transmit ring of them have left. `away` counts the slots of a `delay()`, which
starts after the replies before it. What a handler takes is a *job*: replies,
slots of work, and what the move it starts may later do to the loop (`later`:
the `delay(1000)` at the target, or the message of the collision guard). Which
packet has which job is any choice, so the model does not tell commands apart.
Any other turn of `loop()` takes less than a slot: the longest is the 5 ms
time-out of the ultrasonic sensor, a slot is 7 ms or more in the instances.

A byte is its position in what the Pi sent, as in `Assembler`, whose framing by
count `Cut` uses. A frame that starts where a packet does has the magic number;
one that also misses nothing is a whole packet. The checksum is one byte, so a
frame with a gap may pass it by accident, and the model lets it. It is taken over
as many bytes as the frame's own `dataSize` says (`serialize.cpp:106`). A gap
before or in that field (not `Sized`) makes the sum long (`LongSum`), or endless
where the counter has 16 bits, as on the Arduino: `Hang` is that step, and `stuck`
the firmware after it, which never reads the port again. `stuck` also stands for
what follows when a sum over too many bytes is right by accident and line 113 copies
as many over the caller's packet; the effect of that copy is not modelled.

The pace of mode 4 is one packet a second for every command. `Paced` says which jobs
it leaves time for, and `NothingLost`, `EachInTurn` and `EveryPacketHandled` hold of
those only. Of the colour readings (`v`, COMMAND_COLOR), which mode 4 sends at the
same pace, it admits those for which the arm stays where it is: 0.64 s and two
replies. One centimetre of travel makes it 0.97 s, all the way 2.97 s, and bytes of
the next packet are lost. `LongJobs` has that reading beside the timed move of 850 ms.

### TlsServer

Every read and every write of `networkActive` and `tls_conn` is a step of its
own, because nothing protects them. `thread[w]` is where the worker of
connection `w` is: at its `while`, in the read, after it with or without data,
about to store `tls_conn`, about to send the command, about to reset
`tls_conn`, about to free its session. A connection's name is used again after
that, as the allocator does with the session.

Three calls are TODO comments at this commit. `createServer()` is modelled where
its comment stands, with the listener it starts. The SSL read and write leave
`len` and `c` without a value, so both may be anything; a build with the calls
filled in makes one of these choices. `c` keeps no value even then when
`tls_conn` is NULL, as it is when the answer to the server's own hello arrives.

`owed` lists the senders of the commands whose answers are on their way, `whose`
is the sender behind the answer in the UART thread's hands. `displaced` are those
whose place in `tls_conn` was taken since they set it: by another client, or by the
NULL that any ending worker writes. `silenced` are those who have sent nothing since
`networkActive` was last cleared, by another worker or by the UART thread.
`AnswersReachSender` is about what the UART thread does with an answer: it drops it
(`tls-alex-server.cpp:192`) only if the client is `silenced`, and writes it to that
client or, if the client is `displaced`, to whoever is in `tls_conn`. `NoStalePointer`
speaks of `tls_conn` itself; the copy that the UART thread has loaded may well be of
a session freed since (the hazard at `tls-alex-server.cpp:199`). `StaysOver` and
`Dismissed` say what the single flag comes to: when the last client has gone
and nobody is about to write the flag, the server accepts connections for ever
and serves none. That nobody is about to write it is needed: a worker still in
its read sets the flag again when data comes.

### ColourArm

While `sendColor()` runs nothing else does, so its steps are those between which
the arm rests: out, reading, back. `arm` is the time, in ms, that the servo was
driven out and not back; no sensor tells the program where the arm is.
`currentdist` is the unsigned difference of the code; sums and averages keep
the 16 bits of the ATmega's `int`. Distances are in quarters of a centimetre
because the way back is `linearactuatordist + 0.25`.

`Verdict` is what the Pi makes of the three averages. Its percentages are floats
there and fractions here, compared by cross-multiplication; 0 / 0 is not a
number, and a comparison with it fails in both. `print_colourf()` and
`print_colourw()` hold the same three cases.

## 3. Runs

| Run | Shows |
|---|---|
| `assembler` | framing: `TypeOK`, `Conservation`, `InOrder`, and `Refines`, that it implements `FrameStream` |
| `alex_loop` | safety of the firmware under every pair of commands and every placement of ticks, among them that targets are as ordered (`TargetAsOrdered`) and supervised forward motion is guarded (`GuardWatchesForward`); that it implements `Drive` (`Drives`) and carries out what it took (`KeepsOrders`); that a limited move whose target is armed ends (`ArmedMoveEnds`), also one that replaced another |
| `alex_clear` (violation) | CLEAR_STATS in mid-move disarms the target and the robot drives on |
| `alex_carry` (violation) | a carry inside a read of `forwardDist` ends a move early |
| `pi_modes` | four modes and their switches; a held key's release stops the robot |
| `pi_hold` (violation) | w down, u down, u up, w up: no stop is sent |
| `remote` | client, lossy line and robot: `RobotFollows`, `StopRefusedAtRest`; in key hold mode a key is behind every movement of the wheels (`WheelsHaveKey`); releasing the key stops the wheels (`ReleaseStopsRobot`); a stop that is not lost and not followed by another order stops the robot (`StopReachesRobot`) |
| `link_any` | packets at any pace: bytes are lost, a damaged length may hang the firmware, yet what is handled is in order and handled once (`Refines`); a link out of step stays so until more is lost (`StaysOutOfStep`) |
| `link_paced` | at the pace of mode 4, with the jobs it leaves time for (reports, moves up to 800 ms, a colour reading that does not move the arm; other colour readings are excluded): no byte is lost (`NothingLost`), and each packet is handled (`EveryPacketHandled`), once and before the next is sent (`EachInTurn`) |
| `link_mode4` (violation) | mode 4 with `delay_time` raised to 850 ms loses bytes, and so does a colour reading with the arm out at any `delay_time` |
| `tls_server` | `tls_conn` never points to a freed session (`NoStalePointer`); which answers are dropped and to whom the others are written (`AnswersReachSender`); `StaysOver` and `Dismissed` |
| `colour_arm` | the arm comes back, keeps its distance from an object at the shroud or beyond, the mean is reported where an `int` holds the sum, and what is called green differs in red and green |

*Bounds.* `assembler`: frames of 5 bytes, chunks of 1 to 5, 35 bytes. After a
frame the next begins with 0 to 4 leftovers, so two frames meet every
combination of counter, leftovers and chunk; seven leave room for sequences of
them. The stream ends, and so do the readings of `colour_arm`: deadlock is
checked in all runs but these two.
`alex_loop`: two packets, because a hazard needs at most a move and what
interferes with it; 4 ticks per counter with `ByteBase` 3, so that distances 0,
5, 10, 15, 20 cross the low byte at every tick and the tick counters once, and
every small limit can be exceeded by more than `ByteBase`. The
packets cover each handler, each command and no limit, small limit, a limit whose
float is below `Word` and wraps the sum with an odometer of 20 (`Word - 20`), and one
whose float is not (`Word - 5`), for which the conversion back gives 0 or saturates;
`Word` is 2048 and `Mantissa` 128, so that the floats below `Word` are 16 apart (`Word - 20` stands for a typed -300); sensor
readings are blocked, clear, and the 0 of a lost echo. `pi_modes`: one
key of each kind the program distinguishes, two waiting events, two speeds above
zero and one delay step. `remote`: the forward key and the stop in every mode,
the switches between the modes, one key in the window and its close button, one
speed; two packets on the line, so that a packet overtakes the beginning of the
one before it and either or both are lost. That all four directions behave alike
is what `RemoteProofs` adds.

`link_any`: a slot stands for 20 bytes, 7 slots a packet and 3 a ring. Damage
that goes away again needs 7 lost slots and a good packet behind them; five
packets are enough for it (the instance reaches frames that are damaged, refused
and, after a second loss, whole). Magic number and length are the first two and
the third of the 7 slots, so a gap can fall before, in and behind the length. Jobs are a hello, a move, a report and a timed
move of 300 ms. `link_paced` and `link_mode4`: a slot stands for 7 bytes, 7.3 ms,
so a packet is 20, a ring 9 and a second 137; three packets, because each one
meets the firmware as the one before left it. The moves of `link_paced` last 150
ms and 800 ms, the longest that `Paced` (section 4) admits in the program's steps of
50 ms, its colour reading is the shortest there is; the move of `link_mode4` lasts a
step more, and its colour reading is the one with the arm out all the way and the
shortest pulses. TLC's trace is the move's; with the reading alone it finds that one's.
`link_paced` also shows that the
two replies to a report leave before the next packet comes. `tls_server`: two
clients, because a worker shares nothing with another but the two globals, and
what the second can do to them a third can only repeat; one answer on its way,
because `AnswersReachSender` speaks of each answer alone. `colour_arm`: four
readings, because the drift adds up; echoes of nothing, of an object nearer than
the shroud, touching it, within reach at three distances and out of reach; pulses
whose sum fits an `int`, just fits and overflows, and colours from 2 % apart to
far apart, on both sides of the 4 % of the verdict (a word has 41000 values, which
is above every mean that fits, because TLC's own integers end at 2^31). `Clearance` and `ReportsMean`
except the readings that wrap, because there the code is wrong: without that
condition TLC refutes `Clearance` with a lost echo (the arm goes out 7 cm towards
whatever is there) and `ReportsMean` with pulses of 8 ms (a negative mean, sent as
a large unsigned number).

*Fairness.* `Alex!FairSpec` is weak fairness of the loop: no interrupt handler
loops and every `delay()` ends, so the main program goes on. Nothing is assumed
of the interrupts or the Pi. `AlexPi!FairSpec` is weak fairness of what the
program does without waiting for the terminal; the user owes nothing.
`Remote!RemoteFairSpec` is that fairness, weak fairness of the line (a byte
written arrives or is lost in the time it takes), and the robot's promise to carry
out what it took (`Drive!Live`, which `KeepsOrders` checks of `Alex` under the
fairness of its loop). Nothing is assumed of what arrives: the line may lose every
packet.
`SerialLink!FairSpec` is weak fairness of time and of a turn of the loop: the
UART's clock runs, each `delay()` and each wait for the transmit ring ends, and
nothing in `loop()` waits for input (a turn that hangs in its checksum is one of the
turns it may take). `Slot` waits for the turn, which is the
assumption that a turn fits into a slot. `TlsServer!FairSpec` is weak fairness of
each worker outside its read: the threads are scheduled, and clients, the
firmware and the listener owe nothing.

## 4. Proofs

For every value of the constants that satisfies the named assumptions
(`SizesAssumption`; `NumbersAssumption`, `PacketsAssumption`, `RangeAssumption`;
`InputsAssumption`; `LinkAssumption`; `EchoAssumption`, `PulseAssumption`, `WordAssumption`;
`ServerAssumption`):

* `AssemblerProofs!Invariance`: `TypeOK`, `Conservation` and `InOrder`. The
  three together are inductive. `Conservation` gives each buffer its place in
  the stream, which is what the copy loops need to keep `InOrder`. All of it rests
  on `MaxChunk <= PacketSize`, that a read fits the caller's buffer, which
  `serial.cpp:125` does not enforce: then `leftoverCount < PacketSize`, and leftovers
  that fill a frame by themselves do not occur; without it they do. `MaxBytes` bounds
  the model, and the proof holds for all.
* `AssemblerProofs!Refinement`: `Spec => Refines`. `FrameFilled` shows that a
  full output buffer is the next frame of the stream, `FramesStep` that every
  call is a `Feed` of the abstract layer.
* `AlexProofs!Invariance`: the six safety invariants of the loop but
  `OneAnswer`. They are not inductive: between the two steps of a read the
  counter moves. `GuardOn` drops the exception of timed moves, which set the flag as
  well. `FloatOf` keeps the float of the packet behind `deltaDist`, and `TargetsStay`
  is why a target, once armed, still is what `TargetAsOrdered` says while the
  odometer moves on: nothing but a new move or a clearing touches it. A sum with a
  distance below `Mantissa` does not wrap by `RangeAssumption`. `ReadInProgress` adds that the value the low byte came from is
  not above the counter, because only interrupts run then and they count up.
  `TornBounds` is the arithmetic: such a read returns no less than the counter
  at its beginning, and less than `ByteBase` above the counter at its end.
  There is one lemma for each kind of step.
* `AlexProofs!EachAnsweredOnce`: `OneAnswer`. Its invariant follows the packets sent
  in a turn of the loop: before the serial line is read there are messages at
  most, and the one handler that runs adds the one answer (`Single`).
* `AlexProofs!TimelyStops`: `Spec => StopsInTime`, an action property, from the
  same invariant and `TornBounds`.
* `AlexDriveProofs!DriveRefinement`: `Spec => Drives`. The difficulty is that
  the code has no "no limit": it adds 9999999 cm or 99999999 ticks and counts on
  nobody driving so far. `OutOfReach` says that the target of such a move lies at
  least that far, `ReadInProgress` that the target about to be armed is the one the
  packet asks for, `TornBounds` that no torn read reaches it; the assumption
  behind it is `RangeAssumption`, that no wheel has covered 100 km.
  `StepKinds` sorts the steps by what they do to a target, and each action of
  `Drive` has a lemma for the steps that map to it.
* `AlexPiProofs!Engaged`: `TypeOK` and `StopPending`. The invariant adds
  `DownHasUp`: behind every press in the window's queue that is not held any more
  a release waits, so a press that is looked at late is still followed by the
  event that ends it; and the queue is empty outside the window.
* `RemoteProofs!Following` and `RemoteProofs!Refusal`: `RobotFollows` and
  `StopRefusedAtRest`, for every length of the line and the queue. `LineEnds`
  says that the newest packet on the line is the last order, `Obeys` that with an
  empty line and no loss the robot has that order or has carried it out,
  `EndedAsOrdered` that what `ended` names is something the task could end by, and
  `Remembered` that the filter of key press mode remembers a stop only while that
  stop is still the last order.
* `RemoteProofs!ProgramKept` and `RobotKept`: `RemoteSpec` implies `Spec` of
  `AlexPi` and `Robot!Spec`, that of `Drive`. Nothing in the composition hinders the
  operator's program, so all that is proved of it holds there; and the robot is
  never asked for anything but an order it knows (`TaskIsOrder`), so it is the robot
  that `DriveRefinement` shows the firmware to be.
* `RemoteProofs!KeyBehindWheels`: `WheelsHaveKey`. It follows from the two halves:
  `Engaged`, which `ProgramKept` makes a fact about the composition, and the
  invariant of `Following`.
* `SerialLinkProofs!Accounted`, `ChannelRefinement` and `OutOfStepForGood`:
  `TypeOK`, `Spec => Refines` and `Spec => StaysOutOfStep`, for every size of
  packet and ring, every pace and whatever the handlers take. The invariant adds
  that the bytes kept are in the order they arrived (`Ordered`) and lie behind
  the start of the last packet handled (`Behind`): the frame that passes for a
  packet begins with the first byte of one, so that packet is a later one.
  `NoMagic` is the arithmetic of the second: as long as nothing more is lost,
  every frame of an assembler out of step begins in the same place of a packet,
  which is not its start. A firmware that hangs handles nothing more.
* `SerialLinkProofs!PacedNothingLost` and `PacedInTurn`: `NothingLost` and
  `EachInTurn`, for every behaviour of `Spec`, under one more assumption, `Paced`;
  without it `NothingLost` is false, as `link_any` and `link_mode4` show. `Paced` says
  that the Pi waits for longer than a packet takes on the line, that no job has a
  sequel, and that none keeps the firmware away for longer than the line is then
  silent and the receive ring takes to fill. For the real line (960 bytes a
  second, `sleep(1)`, packets of 140 bytes, rings of 63) that leaves a timed move
  about 840 ms, and a colour reading with its two replies 690 ms, which is enough only
  if the arm does not leave its place. TLC finds `Paced` true of the jobs of `link_paced` and false of those
  of `link_mode4`, where one slot decides: 115 slots of work lose nothing, 116 do.
  The invariant `PaceInv` tells two situations apart. In `Quiet` everything sent is
  handled, and the firmware is back by the time the ring can be full. In `UnderWay`
  one packet is on the line or in the firmware, which is `Busy` for no longer than
  the ring lasts. Both count with the slots until the Pi sends again, so the
  steps of `Slot` carry it.
* `ColourArmProofs!Returns` and `KeepsClear`: `ComesBack` and `Clearance`, for any
  echoes within the sensor's range and any number of readings. `Clearance` excepts
  readings below 7 cm and the 0 of a lost echo, where `colour_sensor.ino:71` wraps and
  the distance is not kept. The invariant adds
  where the arm is within a reading: the time it is out is that of
  `linearactuatordist`, less what the readings before took back too much, which
  `DriveBack` bounds by 42 ms each. These two do not need
  `PulseAssumption`.
* `ColourArmProofs!MeanReported` and `GreenContrasts`: `ReportsMean` and
  `GreenIsContrast`, for every set of pulses that `pulseIn()` can return.
  `TotalUnfolds` is the loop of `average_freq()` run by hand: the recursive function
  is shown to exist by its six values. A sum that an `int` holds wraps at no step
  before, because pulses are not negative, so `Int16` changes none (`Int16Fits`).
  `Contrast` is the arithmetic of the verdict; the remainders of the two means,
  less than 5 each, are where its 104 comes from.
* `TlsServerProofs!Invariance`: `TypeOK` (which only the proof checks) and
  `NoStalePointer`, for any number of clients and answers.
* `TlsServerProofs!Delivery`: `Spec => AnswersReachSender`, an action property. The
  invariant follows an answer from the command to the UART thread: `Stored` says that
  a worker about to send a command is in `tls_conn` or was displaced, `Recorded` the
  same of each sender in `owed`, `PassedOn` of `whose`; and `Silence` that while
  `networkActive` is false nobody has sent anything since it was cleared.
* `TlsServerProofs!NeverAgain`: `Spec => StaysOver`, an action property, from
  `TypeOK`: `Over` excludes every point from which the flag can be set.

Only model-checked: the liveness properties (`ArmedMoveEnds`, `KeepsOrders`,
`ReleaseStops`, `ReleaseStopsRobot`, `StopReachesRobot`, `EveryPacketHandled`,
`Dismissed`), which are out of the prover's reach. Every invariant, every action
property and every refinement that a passing run checks is proved; `PacedInTurn` is
the safety half of `EveryPacketHandled`.

## 5. What the violations mean

Each is a behaviour the repository says something else of; `PROJECT.json`
quotes the line. `alex_clear` and `pi_hold` leave a robot driving with nothing
that will stop it but another command. `alex_carry` needs a tick in the few
cycles between two loads exactly when the distance passes a multiple of 256 cm;
it is rare, and the theorem bounds its effect by one low byte. `link_mode4` is
how a session is lost: `sleep(1)` in `TimedMovement()`
does not grow with `delay_time`, and by `StaysOutOfStep` every packet after the
loss is refused until chance drops the rest of a packet; a colour reading that moves
the arm loses bytes in the same way at every `delay_time`. Three smaller ones are not
runs: a negative distance typed at the prompt is not refused but becomes a number near
2^32, whose sum with the odometer may wrap to a target that is already passed, so that
the move ends at once (`TargetAsOrdered` says what the target is); the prompt offers `c=clear stats` (`prints.cpp:5`), but `c` clears the
screen and `k` clears the statistics; and `q` in the key hold window sets
`exitFlag` while its loop looks at `quit` (`alex-pi.cpp:107`), so the program goes
on until the window is closed.

## 6. Plan

Done: all modules of section 2 and the proofs of section 4. Left, in this order:

1. That `Remote`'s line and robot are those of `SerialLink` and `Alex` as one
   refinement, with the bytes of the packets `AlexPi` sends.
2. An abstract specification of the command server, one client at a time, and
   what `TlsServer` keeps of it; the comment at `tls-alex-server.cpp:33-35` wants
   `networkActive` to prevent a second client, and it does not.
3. The other direction of the line, and what the operator is shown.

## 7. Not modelled

But for the verdict of a colour report the receive thread of the Pi only prints: `clear_to_send_command` is never
reset, because the lines that would reset it are a comment (`usart.cpp:130-132`),
so the flow control it guards does not exist. What the firmware sends waits in
the kernel's buffer, which is not modelled either. Certificates, OpenSSL's locks and
termios settings are calls into libraries. `waitForHello()`, `dbprintf()`,
`led.ino` and the code after `return` in `clearOneCounter()` are never run.
Motors and wheels are represented by the duty and by ticks that may come at any
time while a direction is commanded.
