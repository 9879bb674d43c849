----------------------------- MODULE TlsServer -----------------------------
(***************************************************************************)
(* The TLS command server (server/tls-alex-server.cpp) on the listener of  *)
(* its library (make_tls_server.cpp).  Four kinds of threads share two     *)
(* plain globals, networkActive and tls_conn: main(), the listener, one    *)
(* worker for each connection, and the UART thread, which passes on what   *)
(* the firmware answers.                                                   *)
(*                                                                         *)
(* Three calls are TODO comments at this commit.  createServer() is        *)
(* modelled at its place in main(), as test_tls_server.cpp calls it.  The  *)
(* results of the SSL read and the SSL write, len and c, are variables     *)
(* without a value when they are tested, so each may be anything; any read *)
(* or write that is put there returns one of these.                        *)
(***************************************************************************)
EXTENDS Naturals, Sequences

CONSTANTS
  Conns,   \* connections; the SSL object is allocated again after SSL_free()
  NULL,    \* no connection
  MaxOwed  \* bound of the model: answers on their way from the firmware

ASSUME ServerAssumption == NULL \notin Conns /\ MaxOwed \in Nat

VARIABLES
  main,      \* "start", "hello", "loop" or "done"
  listener,  \* "off", "while", "accept" or "ended"
  thread,    \* of each connection: where its worker is, "none" if there is none
  uart,      \* "read", "test", "load" or "write"
  target,    \* the connection sendNetworkData() writes to
  networkActive,
  tls_conn,
  _exitFlag,
  owed,      \* who sent the commands whose answers are on their way, in order
  whose,     \* who sent the command whose answer the UART thread is passing
             \* on, NULL if it does or nobody did
  displaced, \* history: whose place in tls_conn was taken since they set it
  silenced   \* history: who has sent nothing since networkActive was last
             \* cleared

threads == <<main, listener, thread, uart>>
answers == <<owed, whose>>
history == <<displaced, silenced>>
vars == <<threads, target, networkActive, tls_conn, _exitFlag, answers,
          history>>

\* serThread is created before networkActive is set.
Init ==
  /\ main = "start" /\ listener = "off" /\ uart = "read"
  /\ thread = [w \in Conns |-> "none"]
  /\ target = NULL
  /\ networkActive = FALSE
  /\ tls_conn = NULL
  /\ _exitFlag = FALSE
  /\ owed = <<>> /\ whose = NULL
  /\ displaced = {} /\ silenced = Conns

------------------------------------------------------------------------------
(***************************************************************************)
(* main() and the signal handlers that createServer() installs.            *)
(***************************************************************************)
createServer ==
  /\ main = "start"
  /\ main' = "hello"
  /\ networkActive' = TRUE
  /\ listener' = "while"
  /\ UNCHANGED <<thread, uart, target, tls_conn, _exitFlag, answers, history>>

\* Nobody is behind the answer to the hello.
sendHello ==
  /\ main = "hello"
  /\ main' = "loop"
  /\ \/ Len(owed) < MaxOwed /\ owed' = Append(owed, NULL)
     \/ UNCHANGED owed
  /\ UNCHANGED <<listener, thread, uart, target, networkActive, tls_conn,
                 _exitFlag, whose, history>>

breakHandler ==
  /\ main \in {"hello", "loop"}
  /\ _exitFlag' = TRUE
  /\ UNCHANGED <<threads, target, networkActive, tls_conn, answers, history>>

\* The return from main() ends every thread.
Exit ==
  /\ main = "loop"
  /\ _exitFlag
  /\ main' = "done"
  /\ UNCHANGED <<listener, thread, uart, target, networkActive, tls_conn,
                 _exitFlag, answers, history>>

------------------------------------------------------------------------------
(***************************************************************************)
(* _tls_listener().                                                        *)
(***************************************************************************)
Listen(from, to) ==
  /\ listener = from
  /\ listener' = to
  /\ UNCHANGED <<main, uart, target, networkActive, tls_conn, _exitFlag,
                 answers, history>>

\* The handshake is this thread's, too: the next client waits for it.
Await == ~_exitFlag /\ Listen("while", "accept") /\ UNCHANGED thread

\* connectSSL() returns a session, whose certificate is valid if it is asked for.
Spawn(w) ==
  /\ thread[w] = "none"
  /\ Listen("accept", "while")
  /\ thread' = [thread EXCEPT ![w] = "while"]

\* No session: accept() or the handshake failed, or the certificate did.
Reject == Listen("accept", "while") /\ UNCHANGED thread

Cleanup == _exitFlag /\ Listen("while", "ended") /\ UNCHANGED thread

------------------------------------------------------------------------------
(***************************************************************************)
(* worker().                                                               *)
(***************************************************************************)
Work(w, from, to) ==
  /\ thread[w] = from
  /\ thread' = [thread EXCEPT ![w] = to]
  /\ UNCHANGED <<main, listener, uart, target, _exitFlag, whose>>

\* Mutant: the worker does not look at networkActive.
TestNothing(w) ==
  /\ Work(w, "while", "read")
  /\ UNCHANGED <<networkActive, tls_conn, owed, history>>

\* Mutant: the worker waits for the network to be active.
TestWaiting(w) ==
  /\ networkActive
  /\ Work(w, "while", "read")
  /\ UNCHANGED <<networkActive, tls_conn, owed, history>>

Test(w) ==
  /\ Work(w, "while", IF networkActive THEN "read" ELSE "reset")
  /\ UNCHANGED <<networkActive, tls_conn, owed, history>>

\* It may stay in the read as long as the client likes.
Read(w) ==
  /\ Work(w, "read", "data") \/ Work(w, "read", "closed")
  /\ UNCHANGED <<networkActive, tls_conn, owed, history>>

SetActive(w) ==
  /\ \/ /\ Work(w, "data", "store")
        /\ networkActive' = TRUE
        /\ silenced' = silenced \ {w}
     \/ /\ Work(w, "closed", "while")
        /\ networkActive' = FALSE
        /\ silenced' = Conns
  /\ UNCHANGED <<tls_conn, owed, displaced>>

\* tls_conn gets another value.
Displace(conn) ==
  /\ tls_conn' = conn
  /\ displaced' = (displaced \cup ({tls_conn} \ {NULL})) \ {conn}
  /\ UNCHANGED silenced

\* Mutant: tls_conn is not set.
StoreNothing(w) ==
  /\ Work(w, "store", "command")
  /\ UNCHANGED <<networkActive, tls_conn, owed, history>>

Store(w) ==
  /\ Work(w, "store", "command")
  /\ Displace(w)
  /\ UNCHANGED <<networkActive, owed>>

\* A command packet for the firmware, which answers it unless the line loses it;
\* or nothing, if this is no command packet or no command.
handleCommand(w) ==
  /\ Work(w, "command", "while")
  /\ \/ Len(owed) < MaxOwed /\ owed' = Append(owed, w)
     \/ UNCHANGED owed
  /\ UNCHANGED <<networkActive, tls_conn, history>>

\* Mutant: the session is freed with tls_conn as it is.
ResetNothing(w) ==
  /\ Work(w, "reset", "exit")
  /\ UNCHANGED <<networkActive, tls_conn, owed, history>>

\* "Reset tls_conn to NULL", whoever is there.
Reset(w) ==
  /\ Work(w, "reset", "exit")
  /\ Displace(NULL)
  /\ UNCHANGED <<networkActive, owed>>

EXIT_THREAD(w) ==
  /\ Work(w, "exit", "none")
  /\ UNCHANGED <<networkActive, tls_conn, owed, history>>

------------------------------------------------------------------------------
(***************************************************************************)
(* uartReceiveThread().                                                    *)
(***************************************************************************)
\* The four kinds of packets that go to a client.  The firmware answers the
\* oldest command, and may have more to say of it; or says something of its own.
Receive ==
  /\ uart = "read"
  /\ uart' = "test"
  /\ \/ owed # <<>> /\ owed' \in {Tail(owed), owed} /\ whose' = Head(owed)
     \/ UNCHANGED answers
  /\ UNCHANGED <<main, listener, thread, target, networkActive, tls_conn,
                 _exitFlag, history>>

\* handleError(), and the packets nobody wants.
Ignore ==
  /\ uart = "read"
  /\ \/ owed # <<>> /\ owed' = Tail(owed)
     \/ UNCHANGED owed
  /\ UNCHANGED <<threads, target, networkActive, tls_conn, _exitFlag, whose,
                 history>>

\* sendNetworkData().
TestActive ==
  /\ uart = "test"
  /\ IF networkActive THEN uart' = "load" /\ UNCHANGED whose
                      ELSE uart' = "read" /\ whose' = NULL
  /\ UNCHANGED <<main, listener, thread, target, networkActive, tls_conn,
                 _exitFlag, owed, history>>

Load ==
  /\ uart = "load"
  /\ uart' = "write"
  /\ target' = tls_conn
  /\ UNCHANGED <<main, listener, thread, networkActive, tls_conn, _exitFlag,
                 answers, history>>

\* c says how much was written, or nothing if there was no connection.
Write ==
  /\ uart = "write"
  /\ uart' = "read"
  /\ target' = NULL /\ whose' = NULL
  /\ networkActive' \in BOOLEAN
  /\ silenced' = IF networkActive' THEN silenced ELSE Conns
  /\ UNCHANGED <<main, listener, thread, tls_conn, _exitFlag, owed, displaced>>

------------------------------------------------------------------------------
Main == createServer \/ sendHello \/ Exit

Listener == Await \/ (\E w \in Conns : Spawn(w)) \/ Reject \/ Cleanup

\* The steps of a worker that wait for nobody.
Unblocked(w) ==
  \/ Test(w) \/ SetActive(w) \/ Store(w)
  \/ handleCommand(w) \/ Reset(w) \/ EXIT_THREAD(w)

Uart == Receive \/ Ignore \/ TestActive \/ Load \/ Write

Running ==
  /\ main # "done"
  /\ \/ Main \/ breakHandler \/ Listener \/ Uart
     \/ \E w \in Conns : Unblocked(w) \/ Read(w)

\* After "done" the process is gone.
Done == main = "done" /\ UNCHANGED vars

Next == Running \/ Done

Spec == Init /\ [][Next]_vars

\* The threads are scheduled; clients and the firmware owe nothing.
FairSpec ==
  /\ Spec
  /\ \A w \in Conns : WF_vars(main # "done" /\ Unblocked(w))

------------------------------------------------------------------------------
(***************************************************************************)
(* Properties.                                                             *)
(***************************************************************************)
TypeOK ==
  /\ main \in {"start", "hello", "loop", "done"}
  /\ listener \in {"off", "while", "accept", "ended"}
  /\ thread \in [Conns -> {"none", "while", "read", "data", "closed", "store",
                          "command", "reset", "exit"}]
  /\ uart \in {"read", "test", "load", "write"}
  /\ target \in Conns \cup {NULL} /\ tls_conn \in Conns \cup {NULL}
  /\ networkActive \in BOOLEAN /\ _exitFlag \in BOOLEAN
  /\ owed \in Seq(Conns \cup {NULL}) /\ Len(owed) <= MaxOwed
  /\ whose \in Conns \cup {NULL}
  /\ displaced \subseteq Conns /\ silenced \subseteq Conns

\* What tls_conn points to has not been freed: a worker takes its session out
\* of tls_conn before EXIT_THREAD(), whichever others set it.
NoStalePointer ==
  \A w \in Conns : tls_conn = w => thread[w] \notin {"none", "exit"}

\* "handleNetworkData should already have set tls_conn" (tls-alex-server.cpp:201):
\* an answer is dropped only if networkActive was cleared, by whomever, since
\* its client last sent something; and it is written to that client, unless
\* since then another client has sent something or a worker has ended.  A
\* client whose connection is allocated where an earlier one was freed counts
\* as that one: the code cannot tell them apart either.
AnswersReachSender ==
  [][whose # NULL =>
       /\ uart = "test" /\ uart' = "read" => whose \in silenced
       /\ uart = "load" /\ uart' = "write" =>
            target' = whose \/ whose \in displaced]_vars

\* The network is inactive and nobody is about to say otherwise.
Over ==
  /\ main # "start"
  /\ ~networkActive
  /\ uart \notin {"load", "write"}
  /\ \A w \in Conns : thread[w] \notin {"read", "data", "store", "command"}

\* networkActive is set by main() once and by clients being served: when the
\* last of them has gone, no client is ever served again.
StaysOver == [][Over => Over']_vars

\* Who connects then is dismissed.
Dismissed ==
  \A w \in Conns :
    (Over /\ thread[w] = "while") ~> (thread[w] = "none" \/ main = "done")
=============================================================================
