------------------------------ MODULE WsClient ------------------------------
(***************************************************************************)
(* internal/ws/client.go: the CTI WebSocket client, with the goroutines it *)
(* starts, the goroutines that send through it and the executor that       *)
(* connects and disconnects it.  ARIEventClient of                         *)
(* internal/asterisk/ari_events.go is the same code without SendMessage:   *)
(* the instance with no senders.                                           *)
(*                                                                         *)
(* Every successful Connect starts a reader (readMessages) and one more    *)
(* handleReconnect; goroutine <<"reader", k>> and <<"handler", k>> are     *)
(* those of the k-th connection.  They share reconnectChan, which holds    *)
(* one token, and c.mutex, a sync.RWMutex.                                 *)
(*                                                                         *)
(* The body of a method that holds c.mutex for writing is one step, taken  *)
(* when the lock is obtained.  The readers look at c.conn without the      *)
(* lock; what they can see between two of those steps is the same.         *)
(***************************************************************************)
EXTENDS Naturals

CONSTANTS
  MaxConns,       \* bound on the number of connections ever made
  Senders,        \* goroutines that call SendMessage
  CloseMayFail,   \* closing a broken socket may return an error (TLS)
  WritesMayStall  \* a peer may stop reading: writes have no deadline

ASSUME WsAssumption ==
  /\ MaxConns \in Nat \ {0}
  /\ CloseMayFail \in BOOLEAN
  /\ WritesMayStall \in BOOLEAN

Conns == 1..MaxConns

Main == <<"main", 0>>
Reader(k) == <<"reader", k>>
Handler(k) == <<"handler", k>>
Sender(s) == <<"sender", s>>

Readers == {Reader(k) : k \in Conns}
Handlers == {Handler(k) : k \in Conns}
Procs == {Main} \cup Readers \cup Handlers \cup {Sender(s) : s \in Senders}

Nobody == <<"nobody", 0>>

VARIABLES
  connected,   \* c.connected
  conn,        \* c.conn: the number of the connection, 0 for nil
  socket,      \* the state of each connection
  token,       \* reconnectChan holds a token
  cancelled,   \* c.ctx is cancelled and closeChan closed
  writer,      \* who holds c.mutex for writing or is next to, or Nobody
  rlocks,      \* who holds it for reading
  reading,     \* [Conns -> the connection reader k called ReadMessage on]
  pc,          \* where each goroutine is
  crashed      \* a goroutine has panicked

wsVars == <<connected, conn, socket, token, cancelled, writer, rlocks, reading, pc, crashed>>

lockVars == <<writer, rlocks>>
clientVars == <<connected, conn, socket, token, cancelled>>

WsInit ==
  /\ connected = FALSE
  /\ conn = 0
  /\ socket = [k \in Conns |-> "unused"]
  /\ token = FALSE
  /\ cancelled = FALSE
  /\ writer = Nobody
  /\ rlocks = {}
  /\ reading = [k \in Conns |-> 0]
  /\ pc = [p \in Procs |-> IF p = Main THEN "connect" ELSE "idle"]
  /\ crashed = FALSE

Goto(p, label) == pc' = [pc EXCEPT ![p] = label]

----------------------------------------------------------------------------
(* sync.RWMutex.  A writer first shuts out later readers and writers, then *)
(* waits for the readers that are inside.                                  *)

\* The pcs at which a goroutine has called c.mutex.Lock.
LockPcs == {"connect", "trigger", "deferred", "disconnect"}

AskLock(p) ==
  /\ pc[p] \in LockPcs
  /\ writer = Nobody
  /\ writer' = p
  /\ UNCHANGED <<clientVars, rlocks, reading, pc, crashed>>

HasLock(p) == writer = p /\ rlocks = {}

Unlock == writer' = Nobody /\ UNCHANGED rlocks

----------------------------------------------------------------------------
(* Connect, called by the executor and by the reconnect handlers. *)

\* Mutant of AfterConnect: Start only logs that Connect failed.
AfterConnectStarts(p, succeeded) ==
  IF p = Main THEN "running" ELSE IF succeeded THEN "waiting" ELSE "retry"

AfterConnect(p, succeeded) ==
  IF succeeded THEN IF p = Main THEN "running" ELSE "waiting"
               ELSE IF p = Main THEN "exit" ELSE "retry"

DialSucceeds(p, k) ==
  /\ pc[p] = "connect"
  /\ HasLock(p)
  /\ ~connected
  /\ socket[k] = "unused"
  /\ \A j \in 1..(k - 1) : socket[j] # "unused"
  /\ socket' = [socket EXCEPT ![k] = "open"]
  /\ conn' = k
  /\ connected' = TRUE
  /\ pc' = [pc EXCEPT ![p] = AfterConnect(p, TRUE),
                      ![Reader(k)] = "top",
                      ![Handler(k)] = "waiting"]
  /\ Unlock
  /\ UNCHANGED <<token, cancelled, reading, crashed>>

\* Mutant of NoNewConnection: a handler gives up after one attempt.
NoSecondAttempt(p) ==
  /\ pc[p] = "connect"
  /\ HasLock(p)
  /\ Goto(p, AfterConnect(p, connected \/ p # Main))
  /\ Unlock
  /\ UNCHANGED <<clientVars, reading, crashed>>

\* The dial fails, or there is a connection already.
NoNewConnection(p) ==
  /\ pc[p] = "connect"
  /\ HasLock(p)
  /\ Goto(p, AfterConnect(p, connected))
  /\ Unlock
  /\ UNCHANGED <<clientVars, reading, crashed>>

----------------------------------------------------------------------------
(* Disconnect, called by Executor.Stop. *)

Stop ==
  /\ pc[Main] = "running"
  /\ Goto(Main, "disconnect")
  /\ UNCHANGED <<clientVars, lockVars, reading, crashed>>

\* Mutant of Disconnect: it cancels also while a reconnection is under way.
DisconnectAlways ==
  /\ pc[Main] = "disconnect"
  /\ HasLock(Main)
  /\ cancelled' = TRUE
  /\ socket' = IF conn # 0 THEN [socket EXCEPT ![conn] = "closed"] ELSE socket
  /\ conn' = 0
  /\ connected' = FALSE
  /\ Goto(Main, "stopped")
  /\ Unlock
  /\ UNCHANGED <<token, reading, crashed>>

\* Mutant of Disconnect: the connection is forgotten, not closed.
DisconnectWithoutClose ==
  /\ pc[Main] = "disconnect"
  /\ HasLock(Main)
  /\ IF connected
     THEN cancelled' = TRUE /\ conn' = 0 /\ connected' = FALSE
     ELSE UNCHANGED <<cancelled, conn, connected>>
  /\ Goto(Main, "stopped")
  /\ Unlock
  /\ UNCHANGED <<socket, token, reading, crashed>>

\* A client that is not connected at this moment is left as it is.
Disconnect ==
  /\ pc[Main] = "disconnect"
  /\ HasLock(Main)
  /\ IF connected
     THEN /\ cancelled' = TRUE
          /\ IF conn # 0
             THEN /\ socket' = [socket EXCEPT ![conn] = "closed"]
                  /\ conn' = 0
                  /\ connected' = FALSE
             ELSE UNCHANGED <<socket, conn, connected>>
     ELSE UNCHANGED <<cancelled, socket, conn, connected>>
  /\ Goto(Main, "stopped")
  /\ Unlock
  /\ UNCHANGED <<token, reading, crashed>>

----------------------------------------------------------------------------
(* triggerReconnect, called by a reader and by a sender. *)

\* Mutant of AfterTrigger: the reader goes on reading.
AfterTriggerContinues(p) == IF p \in Readers THEN "top" ELSE "idle"

AfterTrigger(p) == IF p \in Readers THEN "deferred" ELSE "idle"

\* conn.Close fails: connected is cleared, and nobody is told.
CloseFails(p) ==
  /\ CloseMayFail
  /\ connected /\ conn # 0
  /\ socket[conn] # "open"
  /\ connected' = FALSE
  /\ socket' = [socket EXCEPT ![conn] = "closed"]
  /\ UNCHANGED <<conn, token>>

\* Mutant of TearDown: the connection is not closed.
TearDownLeaks ==
  /\ connected
  /\ connected' = FALSE
  /\ conn' = 0
  /\ token' = TRUE
  /\ UNCHANGED socket

\* Mutant of TearDown: no handler is woken.
TearDownSilent ==
  /\ connected
  /\ connected' = FALSE
  /\ socket' = IF conn # 0 THEN [socket EXCEPT ![conn] = "closed"] ELSE socket
  /\ conn' = 0
  /\ UNCHANGED token

\* The token is dropped when reconnectChan already holds one.
TearDown ==
  /\ connected
  /\ connected' = FALSE
  /\ socket' = IF conn # 0 THEN [socket EXCEPT ![conn] = "closed"] ELSE socket
  /\ conn' = 0
  /\ token' = TRUE

TriggerReconnect(p) ==
  /\ pc[p] = "trigger"
  /\ HasLock(p)
  /\ \/ CloseFails(p)
     \/ TearDown
     \/ ~connected /\ UNCHANGED <<connected, conn, socket, token>>
  /\ Goto(p, AfterTrigger(p))
  /\ Unlock
  /\ UNCHANGED <<cancelled, reading, crashed>>

----------------------------------------------------------------------------
(* readMessages *)

\* Mutant of ReaderTop: it takes the read lock and never gives it back.
ReaderTopLocks(k) ==
  /\ pc[Reader(k)] = "top"
  /\ writer = Nobody
  /\ rlocks' = rlocks \cup {Reader(k)}
  /\ Goto(Reader(k), IF cancelled \/ conn = 0 THEN "deferred" ELSE "read")
  /\ UNCHANGED <<clientVars, writer, reading, crashed>>

\* The context and c.conn are looked at before every read.
ReaderTop(k) ==
  /\ pc[Reader(k)] = "top"
  /\ Goto(Reader(k), IF cancelled \/ conn = 0 THEN "deferred" ELSE "read")
  /\ UNCHANGED <<clientVars, lockVars, reading, crashed>>

\* c.conn is read again: it may be nil by now, or another connection.
ReadMessage(k) ==
  /\ pc[Reader(k)] = "read"
  /\ IF conn = 0
     THEN crashed' = TRUE /\ UNCHANGED <<reading, pc>>
     ELSE /\ reading' = [reading EXCEPT ![k] = conn]
          /\ Goto(Reader(k), "reading")
          /\ UNCHANGED crashed
  /\ UNCHANGED <<clientVars, lockVars>>

\* A message arrives.  It is dispatched to a goroutine of its own, or cannot be
\* parsed.
MessageRead(k) ==
  /\ pc[Reader(k)] = "reading"
  /\ socket[reading[k]] = "open"
  /\ reading' = [reading EXCEPT ![k] = 0]
  /\ Goto(Reader(k), "top")
  /\ UNCHANGED <<clientVars, lockVars, crashed>>

ReadFails(k) ==
  /\ pc[Reader(k)] = "reading"
  /\ socket[reading[k]] # "open"
  /\ reading' = [reading EXCEPT ![k] = 0]
  /\ Goto(Reader(k), "trigger")
  /\ UNCHANGED <<clientVars, lockVars, crashed>>

\* Mutant of ReaderReturns: the deferred function does not unlock.
ReaderReturnsLocked(k) ==
  /\ pc[Reader(k)] = "deferred"
  /\ HasLock(Reader(k))
  /\ connected' = FALSE
  /\ Goto(Reader(k), "done")
  /\ UNCHANGED <<conn, socket, token, cancelled, lockVars, reading, crashed>>

\* Mutant of ReaderReturns: it wakes a handler as well.
ReaderReturnsWakes(k) ==
  /\ pc[Reader(k)] = "deferred"
  /\ HasLock(Reader(k))
  /\ connected' = FALSE
  /\ token' = TRUE
  /\ Goto(Reader(k), "done")
  /\ Unlock
  /\ UNCHANGED <<conn, socket, cancelled, reading, crashed>>

\* The deferred function clears connected, whatever happened meanwhile.
ReaderReturns(k) ==
  /\ pc[Reader(k)] = "deferred"
  /\ HasLock(Reader(k))
  /\ connected' = FALSE
  /\ Goto(Reader(k), "done")
  /\ Unlock
  /\ UNCHANGED <<conn, socket, token, cancelled, reading, crashed>>

----------------------------------------------------------------------------
(* handleReconnect *)

HandlerReturns(k) ==
  /\ pc[Handler(k)] \in {"waiting", "retry"}
  /\ cancelled
  /\ Goto(Handler(k), "done")
  /\ UNCHANGED <<clientVars, lockVars, reading, crashed>>

\* With the context cancelled as well, the select may still take the token.
TakeToken(k) ==
  /\ pc[Handler(k)] = "waiting"
  /\ token
  /\ token' = FALSE
  /\ Goto(Handler(k), "retry")
  /\ UNCHANGED <<connected, conn, socket, cancelled, lockVars, reading, crashed>>

\* The backoff is over, or it is the first attempt.
Retry(k) ==
  /\ pc[Handler(k)] = "retry"
  /\ ~cancelled
  /\ Goto(Handler(k), "connect")
  /\ UNCHANGED <<clientVars, lockVars, reading, crashed>>

----------------------------------------------------------------------------
(* SendMessage *)

SendMessage(s) ==
  /\ pc[Sender(s)] = "idle"
  /\ writer = Nobody
  /\ connected /\ conn # 0
  /\ rlocks' = rlocks \cup {Sender(s)}
  /\ Goto(Sender(s), "write")
  /\ UNCHANGED <<clientVars, writer, reading, crashed>>

WriteSucceeds(s) ==
  /\ pc[Sender(s)] = "write"
  /\ socket[conn] # "closed"
  /\ rlocks' = rlocks \ {Sender(s)}
  /\ Goto(Sender(s), "idle")
  /\ UNCHANGED <<clientVars, writer, reading, crashed>>

\* The peer has stopped reading, and this write will never go through.  (One
\* that goes through late is WriteSucceeds.)  The read lock stays held.
WriteStalls(s) ==
  /\ WritesMayStall
  /\ pc[Sender(s)] = "write"
  /\ socket[conn] = "open"
  /\ Goto(Sender(s), "stalled")
  /\ UNCHANGED <<clientVars, lockVars, reading, crashed>>

\* Inside WriteMessage.
Writing(s) == pc[Sender(s)] \in {"write", "stalled"}

\* Mutant of WriteFails: the read lock is released first.
WriteFailsUnlocks(s) ==
  /\ Writing(s)
  /\ socket[conn] # "open"
  /\ rlocks' = rlocks \ {Sender(s)}
  /\ Goto(Sender(s), "trigger")
  /\ UNCHANGED <<clientVars, writer, reading, crashed>>

\* triggerReconnect asks for the write lock; the read lock is still held.
WriteFails(s) ==
  /\ Writing(s)
  /\ socket[conn] # "open"
  /\ Goto(Sender(s), "trigger")
  /\ UNCHANGED <<clientVars, lockVars, reading, crashed>>

\* Two goroutines write to the connection at once, which gorilla/websocket
\* answers with a panic when it notices.
WritesCollide(s) ==
  /\ Writing(s)
  /\ \E t \in Senders \ {s} : Writing(t)
  /\ crashed' = TRUE
  /\ UNCHANGED <<clientVars, lockVars, reading, pc>>

----------------------------------------------------------------------------
(* The network, and the whole. *)

Break(k) ==
  /\ socket[k] = "open"
  /\ socket' = [socket EXCEPT ![k] = "broken"]
  /\ UNCHANGED <<connected, conn, token, cancelled, lockVars, reading, pc, crashed>>

ReaderStep(k) ==
  ReaderTop(k) \/ ReadMessage(k) \/ ReadFails(k) \/ ReaderReturns(k)

HandlerStep(k) == HandlerReturns(k) \/ TakeToken(k) \/ Retry(k)

SenderStep(s) == WriteSucceeds(s) \/ WriteStalls(s) \/ WriteFails(s) \/ WritesCollide(s)

ConnectStep(p) ==
  NoNewConnection(p) \/ \E k \in Conns : DialSucceeds(p, k)

\* What a goroutine does next; a panic ends the process.
Run(p) ==
  /\ ~crashed
  /\ \/ AskLock(p)
     \/ ConnectStep(p)
     \/ TriggerReconnect(p)
     \/ p = Main /\ Disconnect
     \/ \E k \in Conns : p = Reader(k) /\ ReaderStep(k)
     \/ \E k \in Conns : p = Handler(k) /\ HandlerStep(k)
     \/ \E s \in Senders : p = Sender(s) /\ SenderStep(s)

WsNext ==
  \/ \E p \in Procs : Run(p)
  \/ /\ ~crashed
     /\ \/ Stop
        \/ \E s \in Senders : SendMessage(s)
        \/ \E k \in Conns : MessageRead(k) \/ Break(k)

WsSpec == WsInit /\ [][WsNext]_wsVars

\* Goroutines run and Go's RWMutex starves nobody; a read from or a write to a
\* socket that is broken or closed returns.  No message need ever arrive, and a
\* write to an open socket need not return: it may stall.  A server that keeps
\* being dialled is reached in the end: the second conjunct, which only the
\* properties about reconnecting need.
Fairness ==
  /\ \A p \in Procs : SF_wsVars(Run(p))
  /\ SF_wsVars(~crashed /\ \E p \in Handlers, k \in Conns : DialSucceeds(p, k))

FairWsSpec == WsSpec /\ Fairness

----------------------------------------------------------------------------
(* Safety. *)

\* Every variable has its type.
WsTypeOK ==
  /\ connected \in BOOLEAN
  /\ conn \in 0..MaxConns
  /\ socket \in [Conns -> {"unused", "open", "broken", "closed"}]
  /\ token \in BOOLEAN
  /\ cancelled \in BOOLEAN
  /\ writer \in Procs \cup {Nobody}
  /\ rlocks \subseteq {Sender(s) : s \in Senders}
  /\ reading \in [Conns -> 0..MaxConns]
  /\ pc \in [Procs -> LockPcs \cup {"idle", "running", "exit", "stopped", "top", "read",
                                    "reading", "done", "waiting", "retry", "write",
                                    "stalled"}]
  /\ crashed \in BOOLEAN

Dialling(k) == pc[Handler(k)] \in {"retry", "connect"}

\* Although every connection adds a reconnect handler that outlives it, at most
\* one reconnection is under way, counting the one waiting in reconnectChan,
\* and none while the client has a connection.
OneReconnection ==
  /\ \A j, k \in Conns : Dialling(j) /\ Dialling(k) => j = k
  /\ token => \A k \in Conns : ~Dialling(k)
  /\ token \/ (\E k \in Conns : Dialling(k)) => conn = 0 /\ ~connected

\* No connection is dropped without being closed: one that is not closed is
\* the current one.
NoSocketLeak == \A k \in Conns : socket[k] \in {"open", "broken"} => conn = k

\* A connection has one reader, its own, although a reader takes c.conn anew
\* for every message.
OneReaderPerConnection ==
  \A k \in Conns : pc[Reader(k)] = "reading" => reading[k] = k

\* A client without a connection that was not told to stop is being
\* reconnected, or has a token waiting that says so: no wakeup is lost.
NoLostWakeup ==
  conn = 0 /\ ~cancelled /\ pc[Main] \notin {"connect", "exit"} =>
    token \/ \E k \in Conns : Dialling(k)

\* Once Disconnect has cancelled the client nothing revives it.
DisconnectIsFinal == cancelled => conn = 0 /\ ~connected

Colliding ==
  \E s, t \in Senders : s # t /\ Writing(s) /\ Writing(t)

\* readMessages uses c.conn without the lock, yet only Disconnect can make it
\* nil under a reader: reconnecting, however often, panics no goroutine.  The
\* panics there are come with Disconnect or with concurrent writes.
PanicsExplained == crashed => cancelled \/ Colliding

----------------------------------------------------------------------------
(* Liveness. *)

\* A sender holds the read lock and will never give it back, because it waits
\* for the write lock or its write has stalled: nobody has the lock again.
LockedForGood ==
  \E s \in Senders : Sender(s) \in rlocks /\ pc[Sender(s)] \in {"trigger", "stalled"}

\* After Disconnect cancelled the client, every goroutine it ever started,
\* the surplus reconnect handlers included, returns (or a panic has ended the
\* process, which PanicsExplained is about).
ShutdownDrains ==
  cancelled ~> (crashed \/ \A p \in Readers \cup Handlers : pc[p] \in {"idle", "done"})

\* A connection that was torn down is replaced, however many attempts that
\* takes, as long as the server answers in the end.  (MaxConns bounds the
\* connections: one must be left.)
TornDownIsReplaced ==
  (conn = 0 /\ pc[Main] = "running" /\ socket[MaxConns] = "unused")
    ~> (conn # 0 \/ cancelled \/ crashed)

\* "Disconnect from WebSocket clients": Executor.Stop gets past Disconnect.
StopReturns == (pc[Main] = "disconnect") ~> (pc[Main] = "stopped" \/ crashed)

\* Only a sender can keep Stop from returning: one that waits for itself, or
\* whose write has stalled.  No reader, handler or dial holds the lock for
\* good.  Without senders this is StopReturns.
StopHangsOnlyOnSender ==
  (pc[Main] = "disconnect") ~> (pc[Main] = "stopped" \/ crashed \/ LockedForGood)

----------------------------------------------------------------------------
(* What the executor sees of the client. *)

\* The executor's Connect has not succeeded yet.
Unconnected == pc[Main] \in {"connect", "exit"}

LineState ==
  CASE LockedForGood                               -> "stuck"
    [] ~LockedForGood /\ cancelled                 -> "off"
    [] ~LockedForGood /\ ~cancelled /\ Unconnected -> "new"
    [] OTHER -> IF connected THEN "up" ELSE IF conn # 0 THEN "mute" ELSE "down"

Line == INSTANCE LineClient WITH line <- LineState, HasSenders <- Senders # {}

\* The goroutines, the lock and the sockets amount to a LineClient: a client is
\* connected once, is torn down and connected again in turn, and is never
\* revived when it is off, mute or stuck.
ImplementsLine == Line!LineSpec

----------------------------------------------------------------------------
(* What comments in the source say, and the code does not keep. *)

\* "Successfully reconnected to CTI WebSocket": a client that has an open
\* connection knows it is connected.
OpenMeansConnected == \A k \in Conns : conn = k /\ socket[k] = "open" => connected
============================================================================
