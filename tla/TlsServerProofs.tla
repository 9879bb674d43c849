-------------------------- MODULE TlsServerProofs --------------------------
(***************************************************************************)
(* Theorems about TlsServer, for any number of connections and of answers  *)
(* on their way.                                                           *)
(***************************************************************************)
EXTENDS TlsServer, TLAPS

\* A client is in tls_conn, or was displaced, from the moment its worker is
\* about to send a command, through the time its answer is on its way, until the
\* UART thread has passed the answer on.
Stored ==
  \A w \in Conns : thread[w] = "command" => w = tls_conn \/ w \in displaced

Recorded ==
  \A i \in 1 .. Len(owed) : owed[i] \in {NULL, tls_conn} \cup displaced

PassedOn == whose \in {NULL, tls_conn} \cup displaced

\* A client that sent something set networkActive.
Silence == ~networkActive => silenced = Conns

Traced == Stored /\ Recorded /\ PassedOn /\ Silence

Inv == TypeOK /\ NoStalePointer /\ Traced

LEMMA InitInv == Init => Inv
<1> SUFFICES ASSUME Init PROVE Inv
  OBVIOUS
<1>1. TypeOK
  <2>1. networkActive \in BOOLEAN /\ _exitFlag \in BOOLEAN
    BY DEF Init
  <2>2. owed \in Seq(Conns \cup {NULL}) /\ Len(owed) <= MaxOwed
    BY ServerAssumption DEF Init
  <2> QED
    BY <2>1, <2>2 DEF Init, TypeOK
<1>2. NoStalePointer /\ Traced
  BY ServerAssumption DEF Init, NoStalePointer, Traced, Stored, Recorded, PassedOn, Silence
<1> QED
  BY <1>1, <1>2 DEF Inv

\* Whatever happens to the answers on their way, they stay among those that
\* were, with perhaps the newest one behind them.
LEMMA Queue ==
  ASSUME NEW S, NEW q \in Seq(S), NEW x \in S
  PROVE  /\ Append(q, x) \in Seq(S)
         /\ Len(Append(q, x)) = Len(q) + 1
         /\ \A i \in 1 .. Len(q) + 1 :
              Append(q, x)[i] = IF i <= Len(q) THEN q[i] ELSE x
         /\ q # <<>> => /\ Tail(q) \in Seq(S)
                        /\ Len(Tail(q)) = Len(q) - 1
                        /\ \A i \in 1 .. Len(q) - 1 : Tail(q)[i] = q[i + 1]
  OBVIOUS

LEMMA MainStep == Inv /\ (Main \/ breakHandler) => Inv'
<1> SUFFICES ASSUME Inv, Main \/ breakHandler PROVE Inv'
  OBVIOUS
<1> USE DEF threads, answers, history, Traced, Stored, PassedOn, Silence
<1>1. CASE createServer \/ Exit \/ breakHandler
  BY <1>1 DEF Inv, TypeOK, NoStalePointer, Recorded, createServer, Exit,
    breakHandler
<1>2. CASE sendHello
  <2>1. TypeOK'
    BY <1>2, ServerAssumption, Queue DEF Inv, TypeOK, sendHello
  <2>2. Recorded'
    BY <1>2, ServerAssumption, Queue DEF Inv, TypeOK, Recorded, sendHello
  <2> QED
    BY <1>2, <2>1, <2>2 DEF Inv, NoStalePointer, sendHello
<1> QED
  BY <1>1, <1>2 DEF Main

LEMMA ListenerStep == Inv /\ Listener => Inv'
  BY DEF Inv, TypeOK, NoStalePointer, Traced, Stored, Recorded, PassedOn,
    Silence, answers, history, Listener, Await, Spawn, Reject, Cleanup, Listen

\* What an answer takes off the queue, or leaves there, was in it.
LEMMA Shorter ==
  ASSUME Inv, (owed # <<>> /\ owed' = Tail(owed)) \/ owed' = owed
  PROVE  /\ owed' \in Seq(Conns \cup {NULL})
         /\ Len(owed') <= MaxOwed
         /\ \A i \in 1 .. Len(owed') : \E j \in 1 .. Len(owed) : owed'[i] = owed[j]
<1>1. CASE owed # <<>> /\ owed' = Tail(owed)
  <2>1. owed' \in Seq(Conns \cup {NULL}) /\ Len(owed') = Len(owed) - 1
    BY <1>1, Queue DEF Inv, TypeOK
  <2>2. ASSUME NEW i \in 1 .. Len(owed')
        PROVE  i + 1 \in 1 .. Len(owed) /\ owed'[i] = owed[i + 1]
    <3>1. Len(owed) \in Nat /\ i \in 1 .. Len(owed) - 1
      BY <2>1 DEF Inv, TypeOK
    <3> QED
      BY <1>1, <3>1, Queue DEF Inv, TypeOK
  <2>3. Len(owed') <= MaxOwed
    BY <2>1, ServerAssumption DEF Inv, TypeOK
  <2> QED
    BY <2>1, <2>2, <2>3
<1>2. CASE owed' = owed
  BY <1>2 DEF Inv, TypeOK
<1> QED
  BY <1>1, <1>2

LEMMA UartStep == Inv /\ Uart => Inv'
<1> SUFFICES ASSUME Inv, Uart PROVE Inv'
  OBVIOUS
<1> USE DEF threads, answers, history, Traced, Stored, PassedOn, Silence
<1>1. CASE Receive \/ Ignore
  <2>1. (owed # <<>> /\ owed' = Tail(owed)) \/ owed' = owed
    BY <1>1 DEF Receive, Ignore
  <2>2. whose' \in {NULL, tls_conn} \cup displaced
    <3>1. CASE owed # <<>> /\ whose' = Head(owed)
      <4>1. Head(owed) = owed[1] /\ 1 \in 1 .. Len(owed)
        BY <3>1 DEF Inv, TypeOK
      <4> QED
        BY <3>1, <4>1 DEF Inv, Recorded
    <3>2. CASE whose' = whose
      BY <3>2 DEF Inv
    <3> QED
      BY <1>1, <3>1, <3>2 DEF Receive, Ignore
  <2>3. TypeOK'
    <3>1. whose' \in Conns \cup {NULL}
      BY <2>2 DEF Inv, TypeOK
    <3> QED
      BY <1>1, <2>1, <3>1, Shorter DEF Inv, TypeOK, Receive, Ignore
  <2>4. Recorded'
    BY <1>1, <2>1, Shorter DEF Inv, Recorded, Receive, Ignore
  <2> QED
    BY <1>1, <2>2, <2>3, <2>4 DEF Inv, NoStalePointer, Receive, Ignore
<1>2. CASE TestActive \/ Load \/ Write
  <2>1. TypeOK'
    BY <1>2 DEF Inv, TypeOK, TestActive, Load, Write
  <2> QED
    BY <1>2, <2>1 DEF Inv, NoStalePointer, Recorded, TestActive, Load, Write
<1> QED
  BY <1>1, <1>2 DEF Uart

LEMMA WorkerStep ==
  ASSUME NEW w \in Conns, Inv, Unblocked(w) \/ Read(w)
  PROVE  Inv'
<1> USE DEF history, Traced, Stored, PassedOn, Silence
<1>1. CASE Test(w) \/ Read(w) \/ SetActive(w) \/ EXIT_THREAD(w)
  <2>1. TypeOK'
    <3>1. silenced' \in SUBSET Conns
      BY <1>1 DEF Inv, TypeOK, Test, Read, SetActive, EXIT_THREAD
    <3>2. networkActive' \in BOOLEAN
      BY <1>1 DEF Inv, TypeOK, Test, Read, SetActive, EXIT_THREAD
    <3> QED
      BY <1>1, <3>1, <3>2 DEF Inv, TypeOK, Test, Read, SetActive, EXIT_THREAD,
        Work
  <2>2. NoStalePointer' /\ Recorded' /\ Stored' /\ PassedOn' /\ Silence'
    BY <1>1 DEF Inv, TypeOK, NoStalePointer, Recorded, Test, Read,
      SetActive, EXIT_THREAD, Work
  <2> QED
    BY <2>1, <2>2 DEF Inv
<1>2. CASE Store(w)
  BY <1>2, ServerAssumption DEF Inv, TypeOK, NoStalePointer, Recorded, Store,
    Displace, Work
<1>3. CASE Reset(w)
  BY <1>3, ServerAssumption DEF Inv, TypeOK, NoStalePointer, Recorded, Reset,
    Displace, Work
<1>4. CASE handleCommand(w)
  <2>1. TypeOK'
    BY <1>4, ServerAssumption, Queue DEF Inv, TypeOK, handleCommand, Work
  <2>2. w = tls_conn \/ w \in displaced
    BY <1>4 DEF Inv, handleCommand, Work
  <2>3. Recorded'
    BY <1>4, <2>2, Queue DEF Inv, TypeOK, Recorded, handleCommand, Work
  <2>4. NoStalePointer' /\ Stored' /\ PassedOn' /\ Silence'
    BY <1>4 DEF Inv, TypeOK, NoStalePointer, handleCommand, Work
  <2> QED
    BY <2>1, <2>3, <2>4 DEF Inv
<1> QED
  BY <1>1, <1>2, <1>3, <1>4 DEF Unblocked

LEMMA StepInv == Inv /\ [Next]_vars => Inv'
<1> SUFFICES ASSUME Inv, [Next]_vars PROVE Inv'
  OBVIOUS
<1>1. CASE UNCHANGED vars
  BY <1>1 DEF vars, threads, answers, history, Inv, TypeOK, NoStalePointer,
    Traced, Stored, Recorded, PassedOn, Silence
<1>2. CASE Running
  BY <1>2, MainStep, ListenerStep, UartStep, WorkerStep DEF Running
<1> QED
  BY <1>1, <1>2 DEF Next, Done

\* No worker's session is freed while tls_conn points to it.
THEOREM Invariance == Spec => [](TypeOK /\ NoStalePointer)
<1>1. Inv => TypeOK /\ NoStalePointer
  BY DEF Inv
<1> QED
  BY InitInv, StepInv, <1>1, PTL DEF Spec

\* An answer is dropped only if the network was said to be inactive since its
\* client last sent something, and what is written goes to the client that
\* asked unless another has taken its place in tls_conn.
THEOREM Delivery == Spec => AnswersReachSender
<1> DEFINE A == whose # NULL =>
                  /\ uart = "test" /\ uart' = "read" => whose \in silenced
                  /\ uart = "load" /\ uart' = "write" =>
                       target' = whose \/ whose \in displaced
<1>1. Inv /\ [Next]_vars => A
  <2> SUFFICES ASSUME Inv, [Next]_vars, whose # NULL PROVE A
    OBVIOUS
  <2>1. whose \in Conns /\ (whose = tls_conn \/ whose \in displaced)
    BY DEF Inv, TypeOK, Traced, PassedOn
  <2>2. CASE uart = "test" /\ uart' = "read"
    <3>1. TestActive
      BY <2>2 DEF Next, Running, Done, Main, createServer, sendHello, Exit,
        breakHandler, Listener, Await, Spawn, Reject, Cleanup, Listen, Uart,
        Receive, Ignore, Load, Write, Unblocked, Test, Read, SetActive, Store,
        handleCommand, Reset, EXIT_THREAD, Work, vars, threads
    <3>2. ~networkActive
      BY <2>2, <3>1 DEF TestActive
    <3>3. silenced = Conns
      BY <3>2 DEF Inv, Traced, Silence
    <3> QED
      BY <2>1, <2>2, <3>3
  <2>3. CASE uart = "load" /\ uart' = "write"
    <3>1. Load
      BY <2>3 DEF Next, Running, Done, Main, createServer, sendHello, Exit,
        breakHandler, Listener, Await, Spawn, Reject, Cleanup, Listen, Uart,
        Receive, Ignore, TestActive, Write, Unblocked, Test, Read, SetActive,
        Store, handleCommand, Reset, EXIT_THREAD, Work, vars, threads
    <3> QED
      BY <2>1, <2>3, <3>1 DEF Load
  <2> QED
    BY <2>2, <2>3
<1>2. Inv /\ [Next]_vars => [A]_vars
  BY <1>1
<1> QED
  BY <1>2, InitInv, StepInv, PTL DEF Spec, AnswersReachSender

\* When the last client has gone nobody is served again, whatever the order in
\* which workers and the UART thread test and set networkActive.
THEOREM NeverAgain == Spec => StaysOver
<1>1. TypeOK /\ [Next]_vars => (Over => Over')
  <2> SUFFICES ASSUME TypeOK, [Next]_vars, Over PROVE Over'
    OBVIOUS
  <2> USE DEF threads
  <2>1. CASE UNCHANGED vars
    BY <2>1 DEF vars, Over
  <2>2. CASE Main \/ breakHandler
    BY <2>2 DEF Over, TypeOK, Main, createServer, sendHello, Exit, breakHandler
  <2>3. CASE Listener
    BY <2>3 DEF Over, TypeOK, Listener, Await, Spawn, Reject, Cleanup, Listen
  <2>4. CASE Uart
    BY <2>4 DEF Over, TypeOK, Uart, Receive, Ignore, TestActive, Load, Write
  <2>5. ASSUME NEW w \in Conns, Unblocked(w) \/ Read(w) PROVE Over'
    BY <2>5 DEF Over, TypeOK, Unblocked, Test, Read, SetActive, Store,
      handleCommand, Reset, EXIT_THREAD, Work
  <2> QED
    BY <2>1, <2>2, <2>3, <2>4, <2>5 DEF Next, Running, Done
<1>2. Spec => []TypeOK
  BY Invariance, PTL
<1> QED
  BY <1>1, <1>2, PTL DEF Spec, StaysOver
=============================================================================
