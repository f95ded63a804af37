--------------------------- MODULE WsClientProofs ---------------------------
(***************************************************************************)
(* Proofs about WsClient, for any number of connections and any set of     *)
(* senders, with or without failing closes.                                *)
(*                                                                         *)
(* The argument: a token, a goroutine that dials or is about to, and a     *)
(* live connection exclude each other (OneDialler).  So a dial never       *)
(* replaces a connection, and Disconnect, which acts only on a connected   *)
(* client, never meets a dial.  A connection is torn down by its own       *)
(* reader and nobody else (ReaderBound): a sender that tries holds the     *)
(* read lock it waits for (SendersLocked).                                 *)
(***************************************************************************)
EXTENDS WsClient, TLAPS

\* A goroutine that dials, waits for the lock to dial, or backs off.
Dials(p) == pc[p] \in {"retry", "connect"}

OneDialler ==
  /\ \A p, q \in Procs : Dials(p) /\ Dials(q) => p = q
  /\ token => \A p \in Procs : ~Dials(p)
  /\ token \/ (\E p \in Procs : Dials(p)) => conn = 0 /\ ~connected /\ ~cancelled

\* Only Connect's callers dial, only readers and senders trigger.
Roles ==
  /\ \A p \in Procs : Dials(p) => p = Main \/ p \in Handlers
  /\ \A p \in Procs : pc[p] = "trigger" => p \in Readers \/ \E s \in Senders : p = Sender(s)

SendersLocked ==
  \A s \in Senders : Writing(s) \/ pc[Sender(s)] = "trigger" => Sender(s) \in rlocks

ReaderBound ==
  \A k \in Conns : pc[Reader(k)] \in {"top", "read", "reading", "trigger"} => conn = k \/ cancelled

ConnectedHasConn == connected => conn # 0

WsInv ==
  /\ WsTypeOK
  /\ Roles
  /\ SendersLocked
  /\ OneDialler
  /\ ConnectedHasConn
  /\ ReaderBound
  /\ NoSocketLeak
  /\ OneReaderPerConnection
  /\ DisconnectIsFinal
  /\ NoLostWakeup

\* Goroutines of different kinds or numbers are different.
LEMMA ProcFacts ==
  /\ Main \in Procs /\ Nobody \notin Procs
  /\ \A k \in Conns : Reader(k) \in Procs /\ Handler(k) \in Procs
  /\ \A s \in Senders : Sender(s) \in Procs
  /\ Readers = {Reader(k) : k \in Conns}
  /\ Handlers = {Handler(k) : k \in Conns}
  /\ Procs = {Main} \cup Readers \cup Handlers \cup {Sender(s) : s \in Senders}
  /\ \A j, k : Reader(j) = Reader(k) => j = k
  /\ \A j, k : Handler(j) = Handler(k) => j = k
  /\ \A j, k : Sender(j) = Sender(k) => j = k
  /\ \A j, k : Reader(j) # Handler(k) /\ Reader(j) # Sender(k) /\ Handler(j) # Sender(k)
  /\ \A j : Reader(j) # Main /\ Handler(j) # Main /\ Sender(j) # Main
  BY DEF Procs, Readers, Handlers, Main, Nobody, Reader, Handler, Sender

\* A connection has a number, and the number is not that of nil.
LEMMA ConnFacts == \A k \in Conns : k \in Nat /\ k # 0 /\ k \in 0..MaxConns
  BY WsAssumption DEF Conns

\* A client that has not connected yet satisfies the invariant.
LEMMA InitWsInv == WsInit => WsInv
  <1> SUFFICES ASSUME WsInit PROVE WsInv
    OBVIOUS
  <1>1. WsTypeOK
    <2>1. /\ 0 \in 0..MaxConns
          /\ reading \in [Conns -> 0..MaxConns]
      BY WsAssumption DEF WsInit
    <2>2. pc \in [Procs -> {"connect", "idle"}]
      BY DEF WsInit
    <2> QED
      BY <2>1, <2>2 DEF WsInit, WsTypeOK, LockPcs
  <1>2. \A p \in Procs : pc[p] = IF p = Main THEN "connect" ELSE "idle"
    BY DEF WsInit
  <1>3. Roles /\ SendersLocked /\ OneDialler /\ ReaderBound /\ OneReaderPerConnection
    BY <1>2, ProcFacts
    DEF WsInit, Roles, SendersLocked, OneDialler, Dials, ReaderBound, OneReaderPerConnection,
        Writing
  <1>4. ConnectedHasConn /\ NoSocketLeak /\ DisconnectIsFinal /\ NoLostWakeup
    BY <1>2, ProcFacts
    DEF WsInit, ConnectedHasConn, NoSocketLeak, DisconnectIsFinal, NoLostWakeup
  <1> QED
    BY <1>1, <1>3, <1>4 DEF WsInv

\* A step that changes nothing but the pc of p, the lock, or who has crashed
\* is judged by the pc alone; the lemmas below give the other steps.
LEMMA AskLockStep ==
  ASSUME WsInv, NEW p \in Procs, AskLock(p)
  PROVE  WsInv'
  BY DEF WsInv, AskLock, WsTypeOK, Roles, SendersLocked, OneDialler, Dials, ConnectedHasConn,
         ReaderBound, NoSocketLeak, OneReaderPerConnection, DisconnectIsFinal, NoLostWakeup,
         Dialling, clientVars, Writing

\* Connect keeps the invariant: whoever dials finds no connection, so the new
\* socket is the only one open, and its reader and handler are new.
LEMMA DialSucceedsStep ==
  ASSUME WsInv, NEW p \in Procs, NEW k \in Conns, DialSucceeds(p, k)
  PROVE  WsInv'
  <1>1. /\ Dials(p) /\ (p = Main \/ p \in Handlers)
        /\ conn = 0 /\ ~cancelled /\ ~token
        /\ \A q \in Procs : Dials(q) => q = p
    BY DEF DialSucceeds, WsInv, Roles, OneDialler, Dials
  <1>2. /\ conn' = k /\ connected' /\ UNCHANGED <<token, cancelled, rlocks, reading, crashed>>
        /\ socket' = [socket EXCEPT ![k] = "open"]
        /\ writer' = Nobody
        /\ \A q \in Procs : pc'[q] = IF q = Reader(k) THEN "top"
                                     ELSE IF q = Handler(k) THEN "waiting"
                                     ELSE IF q = p THEN (IF p = Main THEN "running" ELSE "waiting")
                                     ELSE pc[q]
    BY ProcFacts, <1>1 DEF DialSucceeds, Unlock, AfterConnect, WsInv, WsTypeOK
  <1>3. k \in Nat /\ k # 0 /\ k \in 0..MaxConns
    BY ConnFacts
  <1>4. WsTypeOK'
    BY <1>1, <1>2, <1>3, ProcFacts DEF WsInv, WsTypeOK, LockPcs, DialSucceeds, AfterConnect
  <1>5. \A q \in Procs : ~Dials(q)'
    BY <1>1, <1>2 DEF Dials
  <1>6. Roles' /\ OneDialler'
    BY <1>1, <1>2, <1>5, ProcFacts DEF WsInv, Roles, OneDialler, Dials
  <1>7. SendersLocked'
    BY <1>1, <1>2, ProcFacts DEF WsInv, SendersLocked, Writing
  <1>8. ConnectedHasConn' /\ DisconnectIsFinal' /\ NoLostWakeup'
    BY <1>1, <1>2, <1>3 DEF ConnectedHasConn, DisconnectIsFinal, NoLostWakeup
  <1>9. NoSocketLeak'
    BY <1>1, <1>2, <1>3, ConnFacts DEF WsInv, WsTypeOK, NoSocketLeak
  <1>10. ReaderBound'
    BY <1>1, <1>2, ConnFacts, ProcFacts DEF WsInv, ReaderBound
  <1>11. OneReaderPerConnection'
    BY <1>1, <1>2, ProcFacts DEF WsInv, OneReaderPerConnection
  <1> QED
    BY <1>4, <1>6, <1>7, <1>8, <1>9, <1>10, <1>11 DEF WsInv

\* A handler goes on retrying; the executor's first dial fails for good.
LEMMA NoNewConnectionStep ==
  ASSUME WsInv, NEW p \in Procs, NoNewConnection(p)
  PROVE  WsInv'
  <1>1. /\ Dials(p) /\ (p = Main \/ p \in Handlers) /\ ~connected
        /\ conn = 0 /\ ~cancelled /\ ~token
    BY DEF NoNewConnection, WsInv, Roles, OneDialler, Dials
  <1>2. /\ UNCHANGED <<connected, conn, socket, token, cancelled, rlocks, reading, crashed>>
        /\ writer' = Nobody
        /\ \A q \in Procs : pc'[q] = IF q = p THEN (IF p = Main THEN "exit" ELSE "retry")
                                     ELSE pc[q]
    BY <1>1 DEF NoNewConnection, Unlock, AfterConnect, Goto, clientVars, WsInv, WsTypeOK
  <1>3. WsTypeOK'
    BY <1>1, <1>2 DEF WsInv, WsTypeOK, LockPcs, NoNewConnection, AfterConnect, Goto
  <1>4. Roles' /\ OneDialler'
    BY <1>1, <1>2 DEF WsInv, Roles, OneDialler, Dials
  <1>5. SendersLocked' /\ ReaderBound' /\ OneReaderPerConnection'
    BY <1>1, <1>2, ProcFacts DEF WsInv, SendersLocked, ReaderBound, OneReaderPerConnection, Writing
  <1>6. ConnectedHasConn' /\ DisconnectIsFinal' /\ NoSocketLeak'
    BY <1>2 DEF WsInv, ConnectedHasConn, DisconnectIsFinal, NoSocketLeak
  <1>7. NoLostWakeup'
    BY <1>1, <1>2, ProcFacts DEF WsInv, NoLostWakeup, Dialling, Dials
  <1> QED
    BY <1>3, <1>4, <1>5, <1>6, <1>7 DEF WsInv

\* The executor stops, and disconnects the client if it is connected.
LEMMA StopStep ==
  ASSUME WsInv, Stop \/ Disconnect
  PROVE  WsInv'
  <1>1. /\ UNCHANGED <<token, rlocks, reading, crashed>>
        /\ writer' \in Procs \cup {Nobody}
        /\ pc[Main] \in {"running", "disconnect"}
        /\ \A q \in Procs : pc'[q] = IF q = Main THEN pc'[Main] ELSE pc[q]
        /\ pc'[Main] \in {"disconnect", "stopped"}
        /\ \/ UNCHANGED <<connected, conn, socket, cancelled>>
           \/ /\ connected /\ conn # 0
              /\ cancelled' = TRUE /\ conn' = 0 /\ connected' = FALSE
              /\ socket' = [socket EXCEPT ![conn] = "closed"]
    BY ProcFacts
    DEF Stop, Disconnect, Unlock, Goto, clientVars, lockVars, WsInv, WsTypeOK, ConnectedHasConn
  <1>2. \A q \in Procs : Dials(q)' <=> Dials(q)
    BY <1>1, ProcFacts DEF Dials
  <1>3. WsTypeOK'
    <2>1. pc' \in [Procs -> LockPcs \cup {"idle", "running", "exit", "stopped", "top", "read",
                                          "reading", "done", "waiting", "retry", "write",
                                          "stalled"}]
      BY DEF WsInv, WsTypeOK, Stop, Disconnect, Goto, LockPcs
    <2>2. conn' \in 0..MaxConns
      BY <1>1, WsAssumption DEF WsInv, WsTypeOK
    <2> QED
      BY <1>1, <2>1, <2>2 DEF WsInv, WsTypeOK
  <1>4. Roles' /\ SendersLocked'
    BY <1>1, ProcFacts DEF WsInv, Roles, SendersLocked, Dials, Writing
  <1>5. OneDialler'
    BY <1>1, <1>2 DEF WsInv, OneDialler
  <1>6. ReaderBound' /\ OneReaderPerConnection'
    BY <1>1, ProcFacts DEF WsInv, ReaderBound, OneReaderPerConnection
  <1>7. ConnectedHasConn' /\ DisconnectIsFinal'
    BY <1>1 DEF WsInv, ConnectedHasConn, DisconnectIsFinal
  <1>8. NoSocketLeak'
    BY <1>1, ConnFacts DEF WsInv, WsTypeOK, NoSocketLeak
  <1>9. NoLostWakeup'
    BY <1>1, ProcFacts DEF WsInv, NoLostWakeup, Dialling
  <1> QED
    BY <1>3, <1>4, <1>5, <1>6, <1>7, <1>8, <1>9 DEF WsInv

\* A sender never gets the lock; a reader tears down its own connection.
LEMMA TriggerReconnectStep ==
  ASSUME WsInv, NEW p \in Procs, TriggerReconnect(p)
  PROVE  WsInv'
  <1>1. PICK k \in Conns : p = Reader(k)
    BY ProcFacts DEF TriggerReconnect, HasLock, WsInv, Roles, SendersLocked, Writing
  <1>2. /\ UNCHANGED <<cancelled, rlocks, reading, crashed>>
        /\ writer' = Nobody
        /\ pc[p] = "trigger"
        /\ \A q \in Procs : pc'[q] = IF q = p THEN "deferred" ELSE pc[q]
    BY <1>1, ProcFacts DEF TriggerReconnect, Unlock, AfterTrigger, Goto, WsInv, WsTypeOK
  <1>3. /\ connected' = FALSE
        /\ \/ conn' = conn /\ token' = token /\ (socket' = socket \/ socket' = [socket EXCEPT ![conn] = "closed"])
           \/ /\ conn' = 0 /\ token' = TRUE
              /\ connected /\ conn # 0
              /\ socket' = [socket EXCEPT ![conn] = "closed"]
    BY DEF TriggerReconnect, CloseFails, TearDown, WsInv, WsTypeOK, ConnectedHasConn
  <1>4. \A q \in Procs : Dials(q)' <=> Dials(q)
    BY <1>2 DEF Dials
  <1>5. WsTypeOK'
    <2>1. pc' \in [Procs -> LockPcs \cup {"idle", "running", "exit", "stopped", "top", "read",
                                          "reading", "done", "waiting", "retry", "write",
                                          "stalled"}]
      BY <1>1, ProcFacts DEF WsInv, WsTypeOK, TriggerReconnect, Goto, LockPcs, AfterTrigger
    <2>2. conn' \in 0..MaxConns
      BY <1>3, WsAssumption DEF WsInv, WsTypeOK
    <2>3. socket' \in [Conns -> {"unused", "open", "broken", "closed"}]
      BY <1>3 DEF WsInv, WsTypeOK
    <2> QED
      BY <1>2, <1>3, <2>1, <2>2, <2>3 DEF WsInv, WsTypeOK
  <1>6. Roles'
    BY <1>1, <1>2, <1>4 DEF WsInv, Roles
  <1>7. SendersLocked'
    BY <1>1, <1>2, ProcFacts DEF WsInv, SendersLocked, Writing
  <1>8. connected => ~cancelled
    BY DEF WsInv, DisconnectIsFinal
  <1>9. OneDialler'
    BY <1>2, <1>3, <1>4, <1>8 DEF WsInv, OneDialler
  <1>10. ReaderBound'
    <2>1. ASSUME NEW j \in Conns, pc'[Reader(j)] \in {"top", "read", "reading", "trigger"}
          PROVE  conn' = j \/ cancelled'
      <3>1. j # k /\ (conn = j \/ cancelled)
        BY <1>1, <1>2, <2>1, ProcFacts DEF WsInv, ReaderBound
      <3>2. conn = k \/ cancelled
        BY <1>1, <1>2, ProcFacts DEF WsInv, ReaderBound
      <3> QED
        BY <1>2, <3>1, <3>2
    <2> QED
      BY <2>1 DEF ReaderBound
  <1>11. OneReaderPerConnection'
    BY <1>1, <1>2, ProcFacts DEF WsInv, OneReaderPerConnection
  <1>12. ConnectedHasConn' /\ DisconnectIsFinal'
    BY <1>2, <1>3, <1>8 DEF WsInv, ConnectedHasConn, DisconnectIsFinal
  <1>13. NoSocketLeak'
    BY <1>3, ConnFacts DEF WsInv, WsTypeOK, NoSocketLeak
  <1>14. NoLostWakeup'
    BY <1>1, <1>2, <1>3, ProcFacts DEF WsInv, NoLostWakeup, Dialling
  <1> QED
    BY <1>5, <1>6, <1>7, <1>9, <1>10, <1>11, <1>12, <1>13, <1>14 DEF WsInv

\* What c.conn can be for a reader that is about to use it: its own connection,
\* or nil once the client is cancelled.
LEMMA ReaderStepInv ==
  ASSUME WsInv, NEW k \in Conns, ReaderStep(k) \/ MessageRead(k)
  PROVE  WsInv'
  <1>1. /\ UNCHANGED <<conn, socket, token, cancelled, rlocks>>
        /\ writer' \in {writer, Nobody}
        /\ connected' = connected \/ connected' = FALSE
        /\ pc[Reader(k)] \in {"top", "read", "reading", "deferred"}
        /\ pc'[Reader(k)] \in {"top", "read", "reading", "trigger", "deferred", "done"}
        /\ pc[Reader(k)] = "deferred" => pc'[Reader(k)] = "done"
        /\ \A q \in Procs : q # Reader(k) => pc'[q] = pc[q]
    BY ProcFacts
    DEF ReaderStep, ReaderTop, ReadMessage, MessageRead, ReadFails, ReaderReturns, Unlock, Goto,
        clientVars, lockVars, WsInv, WsTypeOK
  <1>2. WsTypeOK'
    <2>1. crashed' \in BOOLEAN
      BY DEF ReaderStep, ReaderTop, ReadMessage, MessageRead, ReadFails, ReaderReturns,
             WsInv, WsTypeOK
    <2>2. reading' \in [Conns -> 0..MaxConns]
      BY WsAssumption
      DEF ReaderStep, ReaderTop, ReadMessage, MessageRead, ReadFails, ReaderReturns,
          WsInv, WsTypeOK
    <2>3. pc' \in [Procs -> LockPcs \cup {"idle", "running", "exit", "stopped", "top", "read",
                                          "reading", "done", "waiting", "retry", "write",
                                          "stalled"}]
      BY DEF ReaderStep, ReaderTop, ReadMessage, MessageRead, ReadFails, ReaderReturns, Goto,
             WsInv, WsTypeOK, LockPcs
    <2> QED
      BY <1>1, <2>1, <2>2, <2>3 DEF WsInv, WsTypeOK
  <1>3. \A q \in Procs : Dials(q)' <=> Dials(q)
    BY <1>1 DEF Dials
  <1>4. Roles' /\ SendersLocked'
    BY <1>1, <1>3, ProcFacts DEF WsInv, Roles, SendersLocked, Writing
  <1>5. OneDialler' /\ ConnectedHasConn' /\ DisconnectIsFinal' /\ NoSocketLeak'
    BY <1>1, <1>3 DEF WsInv, OneDialler, ConnectedHasConn, DisconnectIsFinal, NoSocketLeak
  <1>6. ReaderBound'
    BY <1>1, ProcFacts DEF WsInv, ReaderBound
  <1>7. OneReaderPerConnection'
    <2>1. pc'[Reader(k)] = "reading" => reading'[k] = k
      BY ConnFacts, ProcFacts
      DEF ReaderStep, ReaderTop, ReadMessage, MessageRead, ReadFails, ReaderReturns, Goto,
          WsInv, WsTypeOK, ReaderBound, DisconnectIsFinal
    <2>2. \A j \in Conns : j # k => reading'[j] = reading[j] /\ pc'[Reader(j)] = pc[Reader(j)]
      BY ProcFacts
      DEF ReaderStep, ReaderTop, ReadMessage, MessageRead, ReadFails, ReaderReturns, Goto,
          WsInv, WsTypeOK
    <2> QED
      BY <2>1, <2>2 DEF WsInv, OneReaderPerConnection
  <1>8. NoLostWakeup'
    BY <1>1, ProcFacts DEF WsInv, NoLostWakeup, Dialling
  <1> QED
    BY <1>2, <1>4, <1>5, <1>6, <1>7, <1>8 DEF WsInv

\* A handler returns, turns the token into a dial, or dials again.
LEMMA HandlerStepInv ==
  ASSUME WsInv, NEW k \in Conns, HandlerStep(k)
  PROVE  WsInv'
  <1>1. /\ UNCHANGED <<connected, conn, socket, cancelled, writer, rlocks, reading, crashed>>
        /\ \A q \in Procs : q # Handler(k) => pc'[q] = pc[q]
        /\ \/ cancelled /\ pc'[Handler(k)] = "done" /\ token' = token
           \/ /\ token /\ token' = FALSE
              /\ pc[Handler(k)] = "waiting" /\ pc'[Handler(k)] = "retry"
           \/ /\ pc[Handler(k)] = "retry" /\ pc'[Handler(k)] = "connect"
              /\ token' = token
    BY ProcFacts
    DEF HandlerStep, HandlerReturns, TakeToken, Retry, Goto, clientVars, lockVars, WsInv, WsTypeOK
  <1>2. WsTypeOK'
    <2>1. pc' \in [Procs -> LockPcs \cup {"idle", "running", "exit", "stopped", "top", "read",
                                          "reading", "done", "waiting", "retry", "write",
                                          "stalled"}]
      BY DEF HandlerStep, HandlerReturns, TakeToken, Retry, Goto, WsInv, WsTypeOK, LockPcs
    <2> QED
      BY <1>1, <2>1 DEF WsInv, WsTypeOK
  <1>3. Roles' /\ SendersLocked'
    BY <1>1, ProcFacts DEF WsInv, Roles, SendersLocked, Dials, Writing
  <1>4. OneDialler'
    BY <1>1, ProcFacts DEF WsInv, OneDialler, Dials
  <1>5. ConnectedHasConn' /\ DisconnectIsFinal' /\ NoSocketLeak'
    BY <1>1 DEF WsInv, ConnectedHasConn, DisconnectIsFinal, NoSocketLeak
  <1>6. ReaderBound' /\ OneReaderPerConnection'
    BY <1>1, ProcFacts DEF WsInv, ReaderBound, OneReaderPerConnection
  <1>7. NoLostWakeup'
    BY <1>1, ProcFacts DEF WsInv, NoLostWakeup, Dialling
  <1> QED
    BY <1>2, <1>3, <1>4, <1>5, <1>6, <1>7 DEF WsInv

\* A sender keeps its read lock from the write to the end of the call.
LEMMA SenderStepInv ==
  ASSUME WsInv, NEW s \in Senders, SendMessage(s) \/ SenderStep(s)
  PROVE  WsInv'
  <1>1. /\ UNCHANGED <<connected, conn, socket, token, cancelled, writer, reading>>
        /\ pc'[Sender(s)] \in {"idle", "write", "stalled", "trigger"}
        /\ pc'[Sender(s)] \in {"write", "stalled", "trigger"} => Sender(s) \in rlocks'
        /\ rlocks' \ {Sender(s)} = rlocks \ {Sender(s)}
        /\ rlocks' \subseteq {Sender(t) : t \in Senders}
        /\ \A q \in Procs : q # Sender(s) => pc'[q] = pc[q]
    BY ProcFacts
    DEF SendMessage, SenderStep, WriteSucceeds, WriteStalls, WriteFails, WritesCollide, Writing, Goto,
        clientVars, lockVars, WsInv, WsTypeOK, SendersLocked
  <1>2. ~Dials(Sender(s))
    BY ProcFacts DEF WsInv, Roles
  <1>3. WsTypeOK'
    <2>1. pc' \in [Procs -> LockPcs \cup {"idle", "running", "exit", "stopped", "top", "read",
                                          "reading", "done", "waiting", "retry", "write",
                                          "stalled"}]
      BY DEF SendMessage, SenderStep, WriteSucceeds, WriteStalls, WriteFails, WritesCollide, Writing,
             Goto, WsInv, WsTypeOK, LockPcs
    <2>2. crashed' \in BOOLEAN
      BY DEF SendMessage, SenderStep, WriteSucceeds, WriteStalls, WriteFails, WritesCollide, WsInv,
             WsTypeOK
    <2> QED
      BY <1>1, <2>1, <2>2 DEF WsInv, WsTypeOK
  <1>4. \A q \in Procs : Dials(q)' <=> Dials(q)
    BY <1>1, <1>2 DEF Dials
  <1>5. Roles'
    BY <1>1, <1>4 DEF WsInv, Roles
  <1>6. SendersLocked'
    BY <1>1, ProcFacts DEF WsInv, SendersLocked, Writing
  <1>7. OneDialler' /\ ConnectedHasConn' /\ DisconnectIsFinal' /\ NoSocketLeak'
    BY <1>1, <1>4 DEF WsInv, OneDialler, ConnectedHasConn, DisconnectIsFinal, NoSocketLeak
  <1>8. ReaderBound' /\ OneReaderPerConnection'
    BY <1>1, ProcFacts DEF WsInv, ReaderBound, OneReaderPerConnection
  <1>9. NoLostWakeup'
    BY <1>1, ProcFacts DEF WsInv, NoLostWakeup, Dialling
  <1> QED
    BY <1>3, <1>5, <1>6, <1>7, <1>8, <1>9 DEF WsInv

\* A connection breaks.
LEMMA BreakStep ==
  ASSUME WsInv, NEW k \in Conns, Break(k)
  PROVE  WsInv'
  <1>1. /\ UNCHANGED <<connected, conn, token, cancelled, writer, rlocks, reading, pc, crashed>>
        /\ socket[k] = "open"
        /\ socket' = [socket EXCEPT ![k] = "broken"]
    BY DEF Break, lockVars
  <1>2. WsTypeOK' /\ NoSocketLeak'
    BY <1>1 DEF WsInv, WsTypeOK, NoSocketLeak
  <1>3. /\ Roles' /\ SendersLocked' /\ OneDialler' /\ ConnectedHasConn' /\ ReaderBound'
        /\ OneReaderPerConnection' /\ DisconnectIsFinal' /\ NoLostWakeup'
    BY <1>1
    DEF WsInv, Roles, SendersLocked, OneDialler, Dials, ConnectedHasConn, ReaderBound,
        OneReaderPerConnection, DisconnectIsFinal, NoLostWakeup, Dialling, Writing
  <1> QED
    BY <1>2, <1>3 DEF WsInv

\* Every step of every goroutine, and every fault of the network, keeps the
\* invariant.
LEMMA WsNextInv ==
  ASSUME WsInv, [WsNext]_wsVars
  PROVE  WsInv'
  <1>1. CASE UNCHANGED wsVars
    BY <1>1
    DEF wsVars, WsInv, WsTypeOK, Roles, SendersLocked, OneDialler, Dials, ConnectedHasConn,
        ReaderBound, NoSocketLeak, OneReaderPerConnection, DisconnectIsFinal, NoLostWakeup,
        Dialling, Writing
  <1>2. ASSUME NEW p \in Procs, Run(p)
        PROVE  WsInv'
    <2>1. CASE AskLock(p)
      BY <2>1, AskLockStep
    <2>2. CASE ConnectStep(p)
      BY <2>2, NoNewConnectionStep, DialSucceedsStep DEF ConnectStep
    <2>3. CASE TriggerReconnect(p)
      BY <2>3, TriggerReconnectStep
    <2>4. CASE p = Main /\ Disconnect
      BY <2>4, StopStep
    <2>5. ASSUME NEW k \in Conns, ReaderStep(k) PROVE WsInv'
      BY <2>5, ReaderStepInv
    <2>6. ASSUME NEW k \in Conns, HandlerStep(k) PROVE WsInv'
      BY <2>6, HandlerStepInv
    <2>7. ASSUME NEW s \in Senders, SenderStep(s) PROVE WsInv'
      BY <2>7, SenderStepInv
    <2> QED
      BY <1>2, <2>1, <2>2, <2>3, <2>4, <2>5, <2>6, <2>7 DEF Run
  <1>3. CASE Stop
    BY <1>3, StopStep
  <1>4. ASSUME NEW s \in Senders, SendMessage(s) PROVE WsInv'
    BY <1>4, SenderStepInv
  <1>5. ASSUME NEW k \in Conns, Break(k) PROVE WsInv'
    BY <1>5, BreakStep
  <1>6. ASSUME NEW k \in Conns, MessageRead(k) PROVE WsInv'
    BY <1>6, ReaderStepInv
  <1> QED
    BY <1>1, <1>2, <1>3, <1>4, <1>5, <1>6 DEF WsNext

\* The invariant holds in every state of the client.
THEOREM WsInvariance == WsSpec => []WsInv
  <1>1. WsInv /\ [WsNext]_wsVars => WsInv'
    BY WsNextInv
  <1> QED
    BY InitWsInv, <1>1, PTL DEF WsSpec

\* The client never leaves its type.
THEOREM WsTypeCorrect == WsSpec => []WsTypeOK
  <1>1. WsInv => WsTypeOK
    BY DEF WsInv
  <1> QED
    BY WsInvariance, <1>1, PTL

\* However many reconnect handlers have piled up, one reconnection at most is
\* under way, and none while there is a connection.
THEOREM OneReconnectionAtATime == WsSpec => []OneReconnection
  <1>1. WsInv => OneReconnection
    <2>1. \A j, k \in Conns : Dialling(j) /\ Dialling(k) /\ WsInv => j = k
      BY ProcFacts DEF WsInv, OneDialler, Dials, Dialling
    <2>2. WsInv => \A k \in Conns : Dialling(k) => Dials(Handler(k)) /\ Handler(k) \in Procs
      BY ProcFacts DEF Dials, Dialling
    <2> QED
      BY <2>1, <2>2 DEF WsInv, OneDialler, OneReconnection
  <1> QED
    BY WsInvariance, <1>1, PTL

\* Every connection but the current one has been closed.
THEOREM SocketsClosed == WsSpec => []NoSocketLeak
  <1>1. WsInv => NoSocketLeak
    BY DEF WsInv
  <1> QED
    BY WsInvariance, <1>1, PTL

\* gorilla/websocket allows one reader per connection, and gets one.
THEOREM OneReader == WsSpec => []OneReaderPerConnection
  <1>1. WsInv => OneReaderPerConnection
    BY DEF WsInv
  <1> QED
    BY WsInvariance, <1>1, PTL

\* A Disconnect that cancelled the client has the last word.
THEOREM DisconnectFinal == WsSpec => []DisconnectIsFinal
  <1>1. WsInv => DisconnectIsFinal
    BY DEF WsInv
  <1> QED
    BY WsInvariance, <1>1, PTL

\* A torn-down connection has always somebody told to replace it.
THEOREM WakeupKept == WsSpec => []NoLostWakeup
  <1>1. WsInv => NoLostWakeup
    BY DEF WsInv
  <1> QED
    BY WsInvariance, <1>1, PTL

\* A step that panics is a reader's use of a nil c.conn, which after a
\* Disconnect only is nil for a reader, or a write beside another write.
LEMMA PanicStep ==
  ASSUME WsInv, PanicsExplained, [WsNext]_wsVars
  PROVE  PanicsExplained'
  <1>1. CASE UNCHANGED wsVars
    BY <1>1 DEF wsVars, PanicsExplained, Colliding, Writing
  <1>2. CASE WsNext
    <2>1. ~crashed
      BY <1>2 DEF WsNext, Run
    <2>2. ASSUME NEW k \in Conns, ReaderStep(k) PROVE crashed' = crashed \/ cancelled'
      BY <2>2, ConnFacts
      DEF ReaderStep, ReaderTop, ReadMessage, ReadFails, ReaderReturns, clientVars,
          WsInv, ReaderBound
    <2>3. ASSUME NEW k \in Conns, HandlerStep(k) PROVE crashed' = crashed
      BY <2>3 DEF HandlerStep, HandlerReturns, TakeToken, Retry
    <2>4. ASSUME NEW s \in Senders, SenderStep(s) PROVE crashed' = crashed \/ Colliding'
      BY <2>4 DEF SenderStep, WriteSucceeds, WriteStalls, WriteFails, WritesCollide, Writing, Colliding
    <2>5. ASSUME NEW p \in Procs, Run(p) PROVE crashed' = crashed \/ cancelled' \/ Colliding'
      <3>1. CASE AskLock(p) \/ TriggerReconnect(p) \/ Disconnect
        BY <3>1 DEF AskLock, TriggerReconnect, Disconnect
      <3>2. CASE ConnectStep(p)
        BY <3>2 DEF ConnectStep, NoNewConnection, DialSucceeds
      <3> QED
        BY <2>2, <2>3, <2>4, <2>5, <3>1, <3>2 DEF Run
    <2>6. Stop => crashed' = crashed
      BY DEF Stop
    <2>7. \A s \in Senders : SendMessage(s) => crashed' = crashed
      BY DEF SendMessage
    <2>8. \A k \in Conns : Break(k) \/ MessageRead(k) => crashed' = crashed
      BY DEF Break, MessageRead
    <2> QED
      BY <1>2, <2>1, <2>5, <2>6, <2>7, <2>8 DEF WsNext, PanicsExplained
  <1> QED
    BY <1>1, <1>2

\* No sequence of reconnections, breaks and failing closes makes a goroutine
\* panic: it takes a Disconnect or two concurrent writes.
THEOREM PanicsAreExplained == WsSpec => []PanicsExplained
  <1>1. WsInit => PanicsExplained
    BY DEF WsInit, PanicsExplained
  <1>2. WsInv /\ WsInv' /\ PanicsExplained /\ [WsNext]_wsVars => PanicsExplained'
    BY PanicStep
  <1> QED
    BY WsInvariance, <1>1, <1>2, PTL DEF WsSpec
=============================================================================
