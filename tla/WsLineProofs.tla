---------------------------- MODULE WsLineProofs ----------------------------
(***************************************************************************)
(* WsClient implements LineClient, for any number of connections and any   *)
(* set of senders.                                                         *)
(*                                                                         *)
(* To the invariant of WsClientProofs the argument adds that nothing runs  *)
(* before the executor has connected (Fresh), and that a sender that       *)
(* writes writes to a connected client (WritersConnected): what it saw     *)
(* under the read lock no writer can change before it lets go.             *)
(***************************************************************************)
EXTENDS WsClientProofs

Fresh ==
  Unconnected => /\ conn = 0 /\ ~token /\ ~cancelled
                 /\ \A p \in Procs \ {Main} : pc[p] = "idle"

WritersConnected == \A s \in Senders : Writing(s) => connected

LineInv == WsInv /\ Fresh /\ WritersConnected

\* The client starts unconnected.
LEMMA InitLineInv == WsInit => LineInv /\ LineState = "new"
  <1> SUFFICES ASSUME WsInit PROVE LineInv /\ LineState = "new"
    OBVIOUS
  <1>1. \A p \in Procs : pc[p] = IF p = Main THEN "connect" ELSE "idle"
    BY DEF WsInit
  <1>2. ~LockedForGood
    BY DEF WsInit, LockedForGood
  <1>3. Unconnected
    BY <1>1, ProcFacts DEF Unconnected
  <1>4. LineState = "new"
    BY <1>2, <1>3 DEF LineState, WsInit
  <1>5. Fresh /\ WritersConnected
    BY <1>1, ProcFacts DEF WsInit, Fresh, WritersConnected, Writing
  <1> QED
    BY <1>4, <1>5, InitWsInv DEF LineInv

Seen == [Line!LineNext]_LineState

\* A step that leaves what the executor sees is a stutter of the line.
LEMMA Stutters ==
  ASSUME UNCHANGED <<connected, conn, cancelled>>,
         LockedForGood' <=> LockedForGood, Unconnected' <=> Unconnected
  PROVE  UNCHANGED LineState
  BY DEF LineState

\* The executor's first Connect, or a handler's.
LEMMA DialLine ==
  ASSUME LineInv, NEW p \in Procs, NEW k \in Conns, DialSucceeds(p, k)
  PROVE  Seen /\ Fresh' /\ WritersConnected'
  <1>1. /\ Dials(p) /\ (p = Main \/ p \in Handlers)
        /\ conn = 0 /\ ~cancelled /\ ~connected
    BY DEF DialSucceeds, LineInv, WsInv, Roles, OneDialler, Dials
  <1>2. \A q \in Procs : pc'[q] = IF q = Reader(k) THEN "top"
                                  ELSE IF q = Handler(k) THEN "waiting"
                                  ELSE IF q = p THEN (IF p = Main THEN "running" ELSE "waiting")
                                  ELSE pc[q]
    BY ProcFacts, <1>1 DEF DialSucceeds, AfterConnect, LineInv, WsInv, WsTypeOK
  <1>3. rlocks = {} /\ rlocks' = {} /\ connected' /\ ~cancelled' /\ ~LockedForGood /\ ~LockedForGood'
    BY <1>1 DEF DialSucceeds, HasLock, Unlock, LockedForGood
  <1>4. Unconnected => p = Main
    BY <1>1, ProcFacts DEF Dials, Unconnected, LineInv, Fresh
  <1>5. ~Unconnected'
    BY <1>2, <1>4, ProcFacts DEF Unconnected
  <1>6. LineState' = "up"
    BY <1>3, <1>5 DEF LineState
  <1>7. p = Main => LineState = "new"
    <2>1. p = Main => Unconnected
      BY DEF DialSucceeds, Unconnected
    <2> QED
      BY <2>1, <1>1, <1>3 DEF LineState
  <1>8. p # Main => LineState = "down"
    BY <1>1, <1>3, <1>4 DEF LineState
  <1>9. Seen
    BY <1>6, <1>7, <1>8 DEF Seen, Line!LineNext, Line!Connect, Line!Reconnect
  <1> QED
    BY <1>3, <1>5, <1>9 DEF Fresh, WritersConnected, Writing

\* The executor gives up; a handler goes on.
LEMMA NoNewConnectionLine ==
  ASSUME LineInv, NEW p \in Procs, NoNewConnection(p)
  PROVE  Seen /\ Fresh' /\ WritersConnected'
  <1>1. /\ Dials(p) /\ (p = Main \/ p \in Handlers) /\ ~connected
        /\ UNCHANGED <<connected, conn, cancelled, token, rlocks>>
    BY DEF NoNewConnection, LineInv, WsInv, Roles, OneDialler, Dials, clientVars, Unlock
  <1>2. \A q \in Procs : pc'[q] = IF q = p THEN (IF p = Main THEN "exit" ELSE "retry") ELSE pc[q]
    BY <1>1 DEF NoNewConnection, Goto, AfterConnect, LineInv, WsInv, WsTypeOK
  <1>3. Unconnected' = Unconnected
    BY <1>1, <1>2, ProcFacts DEF Unconnected, NoNewConnection
  <1>4. LockedForGood' = LockedForGood
    BY <1>1, <1>2, ProcFacts DEF LockedForGood
  <1>5. Fresh'
    BY <1>1, <1>2, <1>3, ProcFacts DEF LineInv, Fresh, Dials
  <1>6. WritersConnected'
    BY <1>1, <1>2, ProcFacts DEF LineInv, WritersConnected, Writing
  <1> QED
    BY <1>1, <1>3, <1>4, <1>5, <1>6, Stutters DEF Seen

\* Stop only calls Disconnect.
LEMMA StopLine ==
  ASSUME LineInv, Stop
  PROVE  Seen /\ Fresh' /\ WritersConnected'
  <1>1. \A q \in Procs : pc'[q] = IF q = Main THEN "disconnect" ELSE pc[q]
    BY DEF Stop, Goto, LineInv, WsInv, WsTypeOK
  <1>2. pc[Main] = "running" /\ UNCHANGED <<connected, conn, cancelled, token, rlocks>>
    BY DEF Stop, clientVars, lockVars
  <1>3. ~Unconnected /\ ~Unconnected'
    BY <1>1, <1>2, ProcFacts DEF Unconnected
  <1>4. LockedForGood' = LockedForGood
    BY <1>1, <1>2, ProcFacts DEF LockedForGood
  <1>5. WritersConnected'
    BY <1>1, <1>2, ProcFacts DEF LineInv, WritersConnected, Writing
  <1> QED
    BY <1>2, <1>3, <1>4, <1>5, Stutters DEF Seen, Fresh

\* Disconnect turns a connected client off, and leaves any other.
LEMMA DisconnectLine ==
  ASSUME LineInv, Disconnect
  PROVE  Seen /\ Fresh' /\ WritersConnected'
  <1>1. \A q \in Procs : pc'[q] = IF q = Main THEN "stopped" ELSE pc[q]
    BY DEF Disconnect, Goto, LineInv, WsInv, WsTypeOK
  <1>2. ~Unconnected /\ ~Unconnected'
    BY <1>1, ProcFacts DEF Unconnected, Disconnect
  <1>3. rlocks = {} /\ rlocks' = {} /\ ~LockedForGood /\ ~LockedForGood'
    BY DEF Disconnect, HasLock, Unlock, LockedForGood
  <1>4. WritersConnected'
    BY <1>1, <1>3, ProcFacts DEF LineInv, WsInv, SendersLocked, WritersConnected, Writing
  <1>5. CASE connected
    <2>1. LineState = "up"
      BY <1>2, <1>3, <1>5 DEF LineState, LineInv, WsInv, DisconnectIsFinal
    <2>2. cancelled'
      BY <1>5 DEF Disconnect
    <2>3. LineState' = "off"
      BY <1>3, <2>2 DEF LineState
    <2> QED
      BY <2>1, <2>3, <1>2, <1>4 DEF Seen, Line!LineNext, Line!Disconnect, Fresh
  <1>6. CASE ~connected
    <2>1. UNCHANGED <<connected, conn, cancelled>>
      BY <1>6 DEF Disconnect
    <2> QED
      BY <2>1, <1>2, <1>3, <1>4, Stutters DEF Seen, Fresh
  <1> QED
    BY <1>5, <1>6

\* A broken connection is torn down, or cannot be closed.
LEMMA TriggerLine ==
  ASSUME LineInv, NEW p \in Procs, TriggerReconnect(p)
  PROVE  Seen /\ Fresh' /\ WritersConnected'
  <1>1. p # Main /\ AfterTrigger(p) \in {"deferred", "idle"}
    BY ProcFacts DEF TriggerReconnect, LineInv, WsInv, Roles, AfterTrigger
  <1>2. \A q \in Procs : pc'[q] = IF q = p THEN AfterTrigger(p) ELSE pc[q]
    BY DEF TriggerReconnect, Goto, LineInv, WsInv, WsTypeOK
  <1>3. ~Unconnected /\ ~Unconnected'
    BY <1>1, <1>2, ProcFacts DEF Unconnected, LineInv, Fresh, TriggerReconnect
  <1>4. /\ rlocks = {} /\ rlocks' = {} /\ ~LockedForGood /\ ~LockedForGood'
        /\ UNCHANGED cancelled
    BY DEF TriggerReconnect, HasLock, Unlock, LockedForGood
  <1>5. WritersConnected'
    BY <1>1, <1>2, <1>4, ProcFacts DEF LineInv, WsInv, SendersLocked, WritersConnected, Writing
  <1>6. connected => LineState = "up" /\ ~cancelled
    BY <1>3, <1>4 DEF LineState, LineInv, WsInv, DisconnectIsFinal
  <1>7. CASE CloseFails(p)
    <2>1. connected /\ ~connected' /\ conn' # 0
      BY <1>7 DEF CloseFails
    <2>2. LineState' = "mute"
      BY <2>1, <1>3, <1>4, <1>6 DEF LineState
    <2> QED
      BY <2>1, <2>2, <1>3, <1>5, <1>6 DEF Seen, Line!LineNext, Line!FallMute, Fresh
  <1>8. CASE TearDown
    <2>1. connected /\ ~connected' /\ conn' = 0
      BY <1>8 DEF TearDown
    <2>2. LineState' = "down"
      BY <2>1, <1>3, <1>4, <1>6 DEF LineState
    <2> QED
      BY <2>1, <2>2, <1>3, <1>5, <1>6 DEF Seen, Line!LineNext, Line!TearDown, Fresh
  <1>9. CASE ~connected /\ UNCHANGED <<connected, conn, socket, token>>
    BY <1>9, <1>3, <1>4, <1>5, Stutters DEF Seen, Fresh
  <1> QED
    BY <1>7, <1>8, <1>9 DEF TriggerReconnect

\* A goroutine that was running moves on, neither to nor from a write or a
\* wait for the lock under the read lock: nothing is seen of it.
LEMMA QuietStep ==
  ASSUME LineInv, NEW p \in Procs \ {Main}, NEW label,
         Goto(p, label), pc[p] # "idle",
         p \in Readers \cup Handlers,
         UNCHANGED <<connected, conn, cancelled, rlocks>>
  PROVE  Seen /\ Fresh' /\ WritersConnected'
  <1>1. \A q \in Procs : pc'[q] = IF q = p THEN label ELSE pc[q]
    BY DEF Goto, LineInv, WsInv, WsTypeOK
  <1>2. Unconnected' = Unconnected /\ ~Unconnected
    BY <1>1, ProcFacts DEF Unconnected, LineInv, Fresh
  <1>3. \A s \in Senders : pc'[Sender(s)] = pc[Sender(s)]
    BY <1>1, ProcFacts
  <1>4. LockedForGood' = LockedForGood
    BY <1>3 DEF LockedForGood
  <1>5. WritersConnected'
    BY <1>3 DEF LineInv, WritersConnected, Writing
  <1> QED
    BY <1>2, <1>4, <1>5, Stutters DEF Fresh, Seen

\* Only the deferred function of a reader is seen: it mutes a client that has
\* been connected again.
LEMMA ReaderLine ==
  ASSUME LineInv, NEW k \in Conns, ReaderStep(k) \/ MessageRead(k)
  PROVE  Seen /\ Fresh' /\ WritersConnected'
  <1> DEFINE p == Reader(k)
  <1>1. p \in Procs \ {Main} /\ p \in Readers \cup Handlers
    BY ProcFacts
  <1>2. CASE ReaderReturns(k)
    <2>1. \A q \in Procs : pc'[q] = IF q = p THEN "done" ELSE pc[q]
      BY <1>2 DEF ReaderReturns, Goto, LineInv, WsInv, WsTypeOK
    <2>2. /\ rlocks = {} /\ rlocks' = {} /\ ~LockedForGood /\ ~LockedForGood'
          /\ UNCHANGED <<cancelled, conn>> /\ ~connected'
      BY <1>2 DEF ReaderReturns, HasLock, Unlock, LockedForGood
    <2>3. ~Unconnected /\ ~Unconnected'
      BY <2>1, <1>1, <1>2, ProcFacts DEF Unconnected, LineInv, Fresh, ReaderReturns
    <2>4. WritersConnected'
      BY <2>1, <2>2, ProcFacts DEF LineInv, WsInv, SendersLocked, WritersConnected, Writing
    <2>5. CASE connected
      <3>1. conn # 0 /\ ~cancelled
        BY <2>5 DEF LineInv, WsInv, ConnectedHasConn, DisconnectIsFinal
      <3>2. LineState = "up" /\ LineState' = "mute"
        BY <2>5, <3>1, <2>2, <2>3 DEF LineState
      <3> QED
        BY <3>2, <2>3, <2>4 DEF Seen, Line!LineNext, Line!FallMute, Fresh
    <2>6. CASE ~connected
      <3>1. UNCHANGED LineState
        BY <2>6, <2>2, <2>3 DEF LineState
      <3> QED
        BY <3>1, <2>3, <2>4 DEF Seen, Fresh
    <2> QED
      BY <2>5, <2>6
  <1>3. CASE ReadMessage(k) /\ conn = 0
    <2>1. UNCHANGED <<connected, conn, cancelled, rlocks, pc, token>>
      BY <1>3 DEF ReadMessage, clientVars, lockVars
    <2>2. LockedForGood' = LockedForGood /\ Unconnected' = Unconnected
      BY <2>1 DEF LockedForGood, Unconnected
    <2> QED
      BY <2>1, <2>2, Stutters DEF Seen, LineInv, Fresh, WritersConnected, Writing
  <1>4. CASE ReaderTop(k)
    <2>1. Goto(p, IF cancelled \/ conn = 0 THEN "deferred" ELSE "read")
      BY <1>4 DEF ReaderTop
    <2> QED
      BY <2>1, <1>1, <1>4, QuietStep DEF ReaderTop, clientVars, lockVars
  <1>5. CASE ReadMessage(k) /\ conn # 0
    <2>1. Goto(p, "reading")
      BY <1>5 DEF ReadMessage
    <2> QED
      BY <2>1, <1>1, <1>5, QuietStep DEF ReadMessage, clientVars, lockVars
  <1>6. CASE ReadFails(k)
    <2>1. Goto(p, "trigger")
      BY <1>6 DEF ReadFails
    <2> QED
      BY <2>1, <1>1, <1>6, QuietStep DEF ReadFails, clientVars, lockVars
  <1>7. CASE MessageRead(k)
    <2>1. Goto(p, "top")
      BY <1>7 DEF MessageRead
    <2> QED
      BY <2>1, <1>1, <1>7, QuietStep DEF MessageRead, clientVars, lockVars
  <1> QED
    BY <1>2, <1>3, <1>4, <1>5, <1>6, <1>7 DEF ReaderStep

\* Nothing is seen of a handler before it has connected.
LEMMA HandlerLine ==
  ASSUME LineInv, NEW k \in Conns, HandlerStep(k)
  PROVE  Seen /\ Fresh' /\ WritersConnected'
  <1> DEFINE p == Handler(k)
  <1>1. p \in Procs \ {Main} /\ p \in Readers \cup Handlers
    BY ProcFacts
  <1>2. CASE HandlerReturns(k)
    <2>1. Goto(p, "done")
      BY <1>2 DEF HandlerReturns
    <2> QED
      BY <2>1, <1>1, <1>2, QuietStep DEF HandlerReturns, clientVars, lockVars
  <1>3. CASE TakeToken(k)
    <2>1. Goto(p, "retry")
      BY <1>3 DEF TakeToken
    <2> QED
      BY <2>1, <1>1, <1>3, QuietStep DEF TakeToken, lockVars
  <1>4. CASE Retry(k)
    <2>1. Goto(p, "connect")
      BY <1>4 DEF Retry
    <2> QED
      BY <2>1, <1>1, <1>4, QuietStep DEF Retry, clientVars, lockVars
  <1> QED
    BY <1>2, <1>3, <1>4 DEF HandlerStep

\* A sender is seen when its write fails or stalls: the client is stuck.
LEMMA SenderLine ==
  ASSUME LineInv, NEW s \in Senders, SenderStep(s) \/ SendMessage(s)
  PROVE  Seen /\ Fresh' /\ WritersConnected'
  <1> DEFINE p == Sender(s)
  <1>1. p \in Procs \ {Main} /\ \A t \in Senders : Sender(t) = p => t = s
    BY ProcFacts
  <1>2. UNCHANGED <<connected, conn, cancelled, token>>
    BY DEF SenderStep, SendMessage, WriteSucceeds, WriteStalls, WriteFails, WritesCollide, clientVars
  <1>3. CASE WritesCollide(s)
    <2>1. UNCHANGED <<rlocks, pc>>
      BY <1>3 DEF WritesCollide, lockVars
    <2>2. LockedForGood' = LockedForGood /\ Unconnected' = Unconnected
      BY <2>1 DEF LockedForGood, Unconnected
    <2> QED
      BY <1>2, <2>1, <2>2, Stutters DEF Seen, LineInv, Fresh, WritersConnected, Writing
  <1>4. CASE WriteFails(s) \/ WriteStalls(s)
    <2>. DEFINE next == IF WriteFails(s) THEN "trigger" ELSE "stalled"
    <2>1. \A q \in Procs : pc'[q] = IF q = p THEN next ELSE pc[q]
      BY <1>4 DEF WriteFails, WriteStalls, Goto, LineInv, WsInv, WsTypeOK
    <2>2. /\ Writing(s) /\ pc[p] \in {"write", "stalled"}
          /\ p \in rlocks /\ rlocks' = rlocks /\ connected /\ ~cancelled
      BY <1>4 DEF WriteFails, WriteStalls, Writing, lockVars, LineInv, WsInv, SendersLocked,
                  WritersConnected, DisconnectIsFinal
    <2>3. LockedForGood'
      BY <2>1, <2>2, <1>1 DEF LockedForGood
    <2>4. ~Unconnected /\ ~Unconnected'
      BY <2>1, <2>2, <1>1, ProcFacts DEF Unconnected, LineInv, Fresh
    <2>5. LineState' = "stuck" /\ LineState \in {"stuck", "up"}
      BY <2>2, <2>3, <2>4 DEF LineState
    <2>6. WritersConnected'
      BY <1>2, <2>2 DEF WritersConnected
    <2>7. Senders # {}
      OBVIOUS
    <2> QED
      BY <2>4, <2>5, <2>6, <2>7 DEF Seen, Line!LineNext, Line!FallStuck, Fresh
  <1>5. CASE WriteSucceeds(s)
    <2>1. \A q \in Procs : pc'[q] = IF q = p THEN "idle" ELSE pc[q]
      BY <1>5 DEF WriteSucceeds, Goto, LineInv, WsInv, WsTypeOK
    <2>2. pc[p] = "write" /\ rlocks' = rlocks \ {p}
      BY <1>5 DEF WriteSucceeds
    <2>3. LockedForGood' = LockedForGood
      BY <2>1, <2>2, <1>1, ProcFacts DEF LockedForGood
    <2>4. ~Unconnected /\ ~Unconnected'
      BY <2>1, <2>2, <1>1, ProcFacts DEF Unconnected, LineInv, Fresh
    <2>5. WritersConnected'
      BY <1>2, <2>1, ProcFacts DEF LineInv, WritersConnected, Writing
    <2> QED
      BY <1>2, <2>3, <2>4, <2>5, Stutters DEF Seen, Fresh
  <1>6. CASE SendMessage(s)
    <2>1. \A q \in Procs : pc'[q] = IF q = p THEN "write" ELSE pc[q]
      BY <1>6 DEF SendMessage, Goto, LineInv, WsInv, WsTypeOK
    <2>2. pc[p] = "idle" /\ connected /\ conn # 0 /\ rlocks' = rlocks \cup {p}
      BY <1>6 DEF SendMessage
    <2>3. LockedForGood' = LockedForGood
      BY <2>1, <2>2, <1>1, ProcFacts DEF LockedForGood
    <2>4. ~Unconnected
      BY <2>2 DEF LineInv, Fresh
    <2>5. ~Unconnected'
      BY <2>1, <2>4, <1>1, ProcFacts DEF Unconnected
    <2>6. WritersConnected'
      BY <1>2, <2>2 DEF WritersConnected
    <2> QED
      BY <1>2, <2>3, <2>4, <2>5, <2>6, Stutters DEF Seen, Fresh
  <1> QED
    BY <1>3, <1>4, <1>5, <1>6 DEF SenderStep

\* Every step of the client is a step of the line, or none.
LEMMA LineStep ==
  ASSUME LineInv, [WsNext]_wsVars
  PROVE  Seen /\ LineInv'
  <1>1. ASSUME UNCHANGED <<connected, conn, cancelled, token, rlocks, pc>>
        PROVE  Seen /\ Fresh' /\ WritersConnected'
    <2>1. LockedForGood' = LockedForGood /\ Unconnected' = Unconnected
      BY <1>1 DEF LockedForGood, Unconnected
    <2> QED
      BY <1>1, <2>1, Stutters DEF Seen, LineInv, Fresh, WritersConnected, Writing
  <1>2. ASSUME UNCHANGED wsVars
        PROVE  Seen /\ Fresh' /\ WritersConnected'
    BY <1>1, <1>2 DEF wsVars
  <1>3. ASSUME NEW p \in Procs, Run(p)
        PROVE  Seen /\ Fresh' /\ WritersConnected'
    <2>1. CASE AskLock(p)
      BY <2>1, <1>1 DEF AskLock, clientVars
    <2> QED
      BY <1>3, <2>1, DialLine, NoNewConnectionLine, TriggerLine, DisconnectLine, ReaderLine,
         HandlerLine, SenderLine DEF Run, ConnectStep
  <1>4. ASSUME NEW k \in Conns, Break(k)
        PROVE  Seen /\ Fresh' /\ WritersConnected'
    BY <1>1, <1>4 DEF Break, lockVars
  <1>5. Seen /\ Fresh' /\ WritersConnected'
    BY <1>2, <1>3, <1>4, StopLine, SenderLine, ReaderLine DEF WsNext
  <1>6. WsInv'
    BY WsNextInv DEF LineInv
  <1> QED
    BY <1>5, <1>6 DEF LineInv

\* What Service builds on: goroutines, lock and sockets amount to a LineClient.
THEOREM ClientImplementsLine == WsSpec => ImplementsLine
  <1>1. WsInit => LineInv
    BY InitLineInv
  <1>2. LineInv /\ [WsNext]_wsVars => LineInv'
    BY LineStep
  <1>3. WsInit => Line!LineInit
    BY InitLineInv DEF Line!LineInit
  <1>4. LineInv /\ [WsNext]_wsVars => [Line!LineNext]_LineState
    BY LineStep DEF Seen
  <1> QED
    BY <1>1, <1>2, <1>3, <1>4, PTL DEF WsSpec, ImplementsLine, Line!LineSpec
=============================================================================
