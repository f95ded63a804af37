------------------------------ MODULE CallFlow ------------------------------
(***************************************************************************)
(* The life of calls in the running emulator: the goroutines that execute  *)
(* CTI commands (internal/cti/handlers.go) and ARI channel events          *)
(* (internal/asterisk/ari_events.go) over the StateManager, with the CTI   *)
(* peer and Asterisk as the environment.                                   *)
(*                                                                         *)
(* The dispatchers start one goroutine per message and per event, so       *)
(* commands and events take effect in any order.  A goroutine of Handlers  *)
(* runs one command after another; goroutine <<ch, e>> handles event e of  *)
(* channel ch.  A command reads CurrentAgentID and takes its first access  *)
(* to the managers in one step; had another command changed CurrentAgentID *)
(* in between, it would act as if its message had named the old agent.     *)
(*                                                                         *)
(* Commands that read only (lineAnswerCall, lineSetupTransfer,             *)
(* lineCompleteSPYcalls) and commands that are refused only send a reply;  *)
(* replies other than the success of a call are left out.  What a send     *)
(* returns changes nothing (an error is logged), so `sent' records what    *)
(* was handed to SendMessage.  A send may also never return, in which case *)
(* its goroutine stays where it sends.  WsClient models the connection.    *)
(***************************************************************************)
EXTENDS StateManager, Sequences, FiniteSets, Functions

CONSTANTS
  Handlers,     \* CTI command goroutines running at the same time
  EventTypes,   \* ARI events Asterisk may emit
  Commands      \* the line commands the peer sends

ASSUME FlowAssumption ==
  /\ EventTypes \subseteq {"Created", "Ring", "Up", "Down", "Destroyed"}
  /\ Commands \subseteq {"lineMakeCall", "lineMakeOutboundCall"}
  /\ Procs = Handlers \cup (Channels \X EventTypes)
  /\ Handlers \cap (Channels \X EventTypes) = {}

VARIABLES
  currentAgent,   \* HandlerContext.CurrentAgentID
  channel,        \* Asterisk: the phase of each channel and the call it carries
  sent            \* [CallIDs -> the names of the CTI messages about the call]

flowVars == <<smVars, currentAgent, channel, sent>>

EventProcs == Channels \X EventTypes

Idle == [pc |-> "idle", agent |-> None, call |-> None, end |-> None]

Done == [Idle EXCEPT !.pc = "done"]

FlowInit ==
  /\ CMInit
  /\ AMInit
  /\ smLock = None
  /\ proc = [p \in Procs |-> Idle]
  /\ currentAgent = None
  /\ channel = [ch \in Channels |-> [phase |-> "free", call |-> None]]
  /\ sent = [c \in CallIDs |-> <<>>]

Finish(p) == proc' = [proc EXCEPT ![p] = Idle]

Send(c, name) == sent' = [sent EXCEPT ![c] = Append(@, name)]

----------------------------------------------------------------------------
(* Commands that concern the agent.  A message names an agent the peer has *)
(* heard of, or leaves the agentId empty.                                  *)

MsgAgentIDs == {a \in AgentIDs : AgentExists(a)} \cup {None}

GetAgentID(msgAgentID) == IF msgAgentID # None THEN msgAgentID ELSE currentAgent

AgentRegister(p, a) ==
  /\ At(p, "idle")
  /\ CreateAgent(a)
  /\ proc' = [proc EXCEPT ![p].pc = "registered", ![p].agent = a]
  /\ UNCHANGED <<cmVars, smLock, currentAgent, channel, sent>>

\* CurrentAgentID is written after the registry's lock is released.
SetCurrentAgent(p) ==
  /\ At(p, "registered")
  /\ currentAgent' = proc[p].agent
  /\ Finish(p)
  /\ UNCHANGED <<cmVars, agents, smLock, channel, sent>>

AgentLogin(p, m) ==
  /\ At(p, "idle")
  /\ UpdateAgentState(GetAgentID(m), "LOGGED_IN")
  /\ UNCHANGED <<cmVars, smLock, proc, currentAgent, channel, sent>>

AgentChangeState(p, m, state) ==
  /\ At(p, "idle")
  /\ state \in {"READY", "BUSY"}
  /\ UpdateAgentState(GetAgentID(m), state)
  /\ UNCHANGED <<cmVars, smLock, proc, currentAgent, channel, sent>>

\* The UpdateAgentState of a command overlaps the unprotected write of q.
OverlappingWrite(q) ==
  /\ \E p \in Handlers : At(p, "idle")
  /\ SetBusy(q, "TORN") \/ FreeAgent(q, "TORN")
  /\ UNCHANGED <<currentAgent, channel, sent>>

\* The goroutine goes on with CleanupAgent.
AgentLogout(p, m) ==
  /\ At(p, "idle")
  /\ GetAgentID(m) # None
  /\ proc' = [proc EXCEPT ![p].pc = "cleanCalls", ![p].agent = GetAgentID(m)]
  /\ UNCHANGED <<cmVars, agents, smLock, currentAgent, channel, sent>>

----------------------------------------------------------------------------
(* lineMakeCall and lineMakeOutboundCall.  The two handlers are the same   *)
(* up to the return of StartCall.                                          *)

\* The bound on the number of calls: a goroutine that goes for StartCall has
\* a uuid left to draw.
UuidLeft ==
  Cardinality({c \in CallIDs : call[c].state = "UNUSED"}) >
    Cardinality({p \in Handlers : proc[p].pc \in StartPcs \ {"setBusy"}})

\* IsAgentReady is tested under the read lock, then StartCall starts over.
MakeCall(p, m) ==
  LET a == GetAgentID(m) IN
  /\ At(p, "idle")
  /\ UuidLeft
  /\ smLock = None
  /\ IsAgentReady(a)
  /\ proc' = [proc EXCEPT ![p].pc = "checkAgent", ![p].agent = a]
  /\ UNCHANGED <<cmVars, agents, smLock, currentAgent, channel, sent>>

\* StartCall failed: an error reply.
Rejected(p) ==
  /\ At(p, "rejected")
  /\ Finish(p)
  /\ UNCHANGED <<cmVars, agents, smLock, currentAgent, channel, sent>>

\* Mutant of PlaceFails: the failure is announced without EndCall.
PlaceFailsReportsOnly(p) ==
  /\ At(p, "process")
  /\ Commands # {}
  /\ proc' = [proc EXCEPT ![p].pc = "report", ![p].end = "FAILED"]
  /\ UNCHANGED <<cmVars, agents, smLock, currentAgent, channel, sent>>

\* The SIP server is not running or the INVITE cannot be sent; or Asterisk
\* refuses the originate request.
PlaceFails(p) ==
  /\ At(p, "process")
  /\ Commands # {}
  /\ proc' = [proc EXCEPT ![p].pc = "endCall", ![p].end = "FAILED"]
  /\ UNCHANGED <<cmVars, agents, smLock, currentAgent, channel, sent>>

\* Asterisk takes a channel of its own for the call.
NewChannel(ch, c) ==
  /\ channel[ch].phase = "free"
  /\ channel' = [channel EXCEPT ![ch] = [phase |-> "new", call |-> c]]

\* processCallSync: the INVITE is a datagram, which Asterisk may never get.
\* No channel id comes back, and none is stored.
EmulateIncomingCall(p) ==
  /\ At(p, "process")
  /\ "lineMakeCall" \in Commands
  /\ Goto(p, "dial")
  /\ UNCHANGED channel \/ \E ch \in Channels : NewChannel(ch, proc[p].call)
  /\ UNCHANGED <<cmVars, agents, smLock, currentAgent, sent>>

\* Mutant of Originate: the channel is bound before the answer is checked.
OriginateBinds(p, ch) ==
  /\ At(p, "process")
  /\ "lineMakeOutboundCall" \in Commands
  /\ NewChannel(ch, proc[p].call)
  /\ SetCallChannel(proc[p].call, ch)
  /\ Goto(p, "originate")
  /\ UNCHANGED <<agents, smLock, currentAgent, sent>>

\* processOutboundCallSync: the request reaches Asterisk.
Originate(p, ch) ==
  /\ At(p, "process")
  /\ "lineMakeOutboundCall" \in Commands
  /\ NewChannel(ch, proc[p].call)
  /\ Goto(p, "originate")
  /\ UNCHANGED <<cmVars, agents, smLock, currentAgent, sent>>

\* Mutant of OriginateReply: answers are not matched with their requests.
OriginateReplyUnmatched(p, ch) ==
  /\ At(p, "originate")
  /\ channel[ch].phase # "free"
  /\ SetCallChannel(proc[p].call, ch)
  /\ Goto(p, "dial")
  /\ UNCHANGED <<agents, smLock, currentAgent, channel, sent>>

\* The answer names the channel, which is bound to the call.
OriginateReply(p, ch) ==
  /\ At(p, "originate")
  /\ channel[ch].call = proc[p].call
  /\ SetCallChannel(proc[p].call, ch)
  /\ Goto(p, "dial")
  /\ UNCHANGED <<agents, smLock, currentAgent, channel, sent>>

\* The answer is a 200 without an id, which is not looked at: nothing is bound.
OriginateReplyNoId(p) ==
  /\ At(p, "originate")
  /\ SetCallChannel(proc[p].call, None)
  /\ Goto(p, "dial")
  /\ UNCHANGED <<agents, smLock, currentAgent, channel, sent>>

\* The answer is lost or late (30 s): the channel lives, the call fails.
OriginateFails(p) ==
  /\ At(p, "originate")
  /\ proc' = [proc EXCEPT ![p].pc = "endCall", ![p].end = "FAILED"]
  /\ UNCHANGED <<cmVars, agents, smLock, currentAgent, channel, sent>>

Dial(p) ==
  /\ At(p, "dial")
  /\ UpdateCallState(proc[p].call, "DIALING")
  /\ Goto(p, "started")
  /\ UNCHANGED <<agents, smLock, currentAgent, channel, sent>>

SendStarted(p) ==
  /\ At(p, "started")
  /\ Send(proc[p].call, "callStarted")
  /\ Goto(p, "success")
  /\ UNCHANGED <<cmVars, agents, smLock, currentAgent, channel>>

\* A command without a refId gets no success.
SendSuccess(p) ==
  /\ At(p, "success")
  /\ IF call[proc[p].call].refID # None
     THEN Send(proc[p].call, "success")
     ELSE UNCHANGED sent
  /\ Finish(p)
  /\ UNCHANGED <<cmVars, agents, smLock, currentAgent, channel>>

----------------------------------------------------------------------------
(* ARI events.  The channel's binding, once made, does not change, so the  *)
(* lookup and the update that follows it are one step.                     *)

Phases == <<"free", "new", "Created", "Ring", "Up", "Down", "Destroyed">>

Rank(phase) == CHOOSE i \in DOMAIN Phases : Phases[i] = phase

\* Asterisk moves a channel on and reports it.  Phases may be skipped, which
\* is also what a lost event looks like.
ChannelEvent(ch, e) ==
  /\ channel[ch].phase # "free"
  /\ Rank(channel[ch].phase) < Rank(e)
  /\ channel' = [channel EXCEPT ![ch].phase = e]
  /\ proc' = [proc EXCEPT ![<<ch, e>>].pc = "spawned"]
  /\ UNCHANGED <<cmVars, agents, smLock, currentAgent, sent>>

\* Mutant of CallOf: an event is matched by the number it carries, which
\* Asterisk knows before the channel is bound.
CallOfByNumber(p) == channel[p[1]].call

\* The call GetCallByChannel finds for the event of goroutine p.
CallOf(p) == callsByChannel[p[1]]

Spawned(p, e) == p[2] = e /\ At(p, "spawned")

NoCallFound(p) ==
  /\ At(p, "spawned")
  /\ CallOf(p) = None
  /\ proc' = [proc EXCEPT ![p] = Done]
  /\ UNCHANGED <<cmVars, agents, smLock, currentAgent, channel, sent>>

HandleChannelCreated(p) ==
  /\ Spawned(p, "Created")
  /\ CallOf(p) # None
  /\ UpdateCallState(CallOf(p), "DIALING")
  /\ proc' = [proc EXCEPT ![p] = Done]
  /\ UNCHANGED <<agents, smLock, currentAgent, channel, sent>>

\* Mutant of HandleRing: Asterisk's name of the state is stored.
HandleRingRaw(p) ==
  /\ Spawned(p, "Ring")
  /\ CallOf(p) # None
  /\ UpdateCallState(CallOf(p), "Ring")
  /\ proc' = [proc EXCEPT ![p] = Done]
  /\ UNCHANGED <<agents, smLock, currentAgent, channel, sent>>

HandleRing(p) ==
  /\ Spawned(p, "Ring")
  /\ CallOf(p) # None
  /\ UpdateCallState(CallOf(p), "RINGING")
  /\ proc' = [proc EXCEPT ![p] = Done]
  /\ UNCHANGED <<agents, smLock, currentAgent, channel, sent>>

\* Mutant of HandleUp: the peer is told without the state being updated.
HandleUpReportsOnly(p) ==
  /\ Spawned(p, "Up")
  /\ CallOf(p) # None
  /\ proc' = [proc EXCEPT ![p].pc = "report", ![p].call = CallOf(p)]
  /\ UNCHANGED <<cmVars, agents, smLock, currentAgent, channel, sent>>

HandleUp(p) ==
  /\ Spawned(p, "Up")
  /\ CallOf(p) # None
  /\ UpdateCallState(CallOf(p), "IN_PROGRESS")
  /\ proc' = [proc EXCEPT ![p].pc = "report", ![p].call = CallOf(p)]
  /\ UNCHANGED <<agents, smLock, currentAgent, channel, sent>>

\* The call ends without EndCall: its agent stays as it is.
HandleDown(p) ==
  /\ Spawned(p, "Down")
  /\ CallOf(p) # None
  /\ UpdateCallState(CallOf(p), "ENDED")
  /\ proc' = [proc EXCEPT ![p] = [@ EXCEPT !.pc = "report", !.call = CallOf(p), !.end = "ENDED"]]
  /\ UNCHANGED <<agents, smLock, currentAgent, channel, sent>>

\* The outcome is decided here, before EndCall takes the lock.
HandleChannelDestroyed(p) ==
  LET c == CallOf(p) IN
  /\ Spawned(p, "Destroyed")
  /\ c # None
  /\ proc' = [proc EXCEPT ![p] =
       [@ EXCEPT !.pc = "endCall", !.call = c,
                 !.end = IF call[c].state = "IN_PROGRESS" THEN "ENDED" ELSE "FAILED"]]
  /\ UNCHANGED <<cmVars, agents, smLock, currentAgent, channel, sent>>

\* SendCallConnectedEvent, SendCallEndedEvent or SendCallFailedEvent: the last
\* step of a goroutine that connected or ended a call.
MessageNames == {"callStarted", "success", "callConnected", "callEnded", "callFailed"}

Outcome(end) ==
  CASE end = None     -> "callConnected"
    [] end = "ENDED"  -> "callEnded"
    [] end = "FAILED" -> "callFailed"

Report(p) ==
  /\ At(p, "report")
  /\ Send(proc[p].call, Outcome(proc[p].end))
  /\ proc' = [proc EXCEPT ![p] = IF p \in Handlers THEN Idle ELSE Done]
  /\ UNCHANGED <<cmVars, agents, smLock, currentAgent, channel>>

----------------------------------------------------------------------------
(* The steps a goroutine takes on its own, and the environment's. *)

HandlerStep(p) ==
  \/ SetCurrentAgent(p)
  \/ Rejected(p)
  \/ PlaceFails(p)
  \/ EmulateIncomingCall(p)
  \/ \E ch \in Channels : Originate(p, ch) \/ OriginateReply(p, ch)
  \/ OriginateReplyNoId(p)
  \/ OriginateFails(p)
  \/ Dial(p)
  \/ SendStarted(p)
  \/ SendSuccess(p)

EventStep(p) ==
  \/ NoCallFound(p)
  \/ HandleChannelCreated(p)
  \/ HandleRing(p)
  \/ HandleUp(p)
  \/ HandleDown(p)
  \/ HandleChannelDestroyed(p)

StateManagerStep(p) ==
  /\ StartCallStep(p) \/ EndCallStep(p) \/ CleanupStep(p)
  /\ UNCHANGED <<currentAgent, channel, sent>>

\* What goroutine p does next, once it runs.
ProcStep(p) ==
  \/ StateManagerStep(p)
  \/ Report(p)
  \/ p \in Handlers /\ HandlerStep(p)
  \/ p \in EventProcs /\ EventStep(p)

Command(p) ==
  \/ \E a \in AgentIDs : AgentRegister(p, a)
  \/ \E m \in MsgAgentIDs :
       \/ AgentLogin(p, m)
       \/ \E s \in {"READY", "BUSY"} : AgentChangeState(p, m, s)
       \/ AgentLogout(p, m)
       \/ MakeCall(p, m)

FlowNext ==
  \/ \E p \in Procs : ProcStep(p) \/ OverlappingWrite(p)
  \/ \E p \in Handlers : Command(p)
  \/ \E ch \in Channels, e \in EventTypes : ChannelEvent(ch, e)

FlowSpec == FlowInit /\ [][FlowNext]_flowVars

\* The goroutine is inside SendMessage, with an error reply or one of the
\* messages of `sent'.
Sending(p) == proc[p].pc \in {"rejected", "started", "success", "report"}

\* Goroutines run, Go's mutexes do not starve a waiter, and the originate
\* request has a timeout.  Nothing is assumed of the peer or of Asterisk, nor
\* that SendMessage returns: it may block for good (see WsClient).
Fairness == \A p \in Procs : SF_flowVars(~Sending(p) /\ ProcStep(p))

FairFlowSpec == FlowSpec /\ Fairness

----------------------------------------------------------------------------
(* Safety. *)

\* Every variable has its type.
FlowTypeOK ==
  /\ CMTypeOK
  /\ AMTypeOK
  /\ smLock \in Procs \cup {None}
  /\ proc \in [Procs -> Local]
  /\ currentAgent \in AgentIDs \cup {None}
  /\ channel \in [Channels -> [phase : Range(Phases), call : CallIDs \cup {None}]]
  /\ \A c \in CallIDs : Range(sent[c]) \subseteq MessageNames

\* A channel id is stored in a call only if Asterisk took that channel for
\* that call, and from then on the channel leads back to the call: concurrent
\* originate requests never swap or lose each other's binding.  Only events
\* of a bound channel can have put a call in progress.
BindingSound ==
  \A c \in CallIDs :
    /\ call[c].channel # None => /\ channel[call[c].channel].call = c
                                 /\ callsByChannel[call[c].channel] = c
    /\ call[c].startedAt # 0 => call[c].channel # None

\* EndCall is never run for one call by two goroutines at the same time: the
\* command handler ends a call it could not place, which no event can find,
\* and the destruction of its channel ends every other call.
OneEnder ==
  \A p \in Procs : proc[p].pc \in EndPcs =>
    /\ p \in Handlers <=> call[proc[p].call].channel = None
    /\ \A q \in Procs : proc[q].pc \in EndPcs /\ proc[q].call = proc[p].call => q = p

Told(c, name) == name \in Range(sent[c])

Precedes(c, first, then) ==
  \A j \in DOMAIN sent[c] :
    sent[c][j] = then => \E i \in 1..(j - 1) : sent[c][i] = first

\* What the peer is told has happened: an outcome is announced only for a call
\* whose end is recorded, a connection only for one whose start is, and the
\* success of a command comes after the start of its call.
TruthfulReports ==
  \A c \in CallIDs :
    /\ Told(c, "callEnded") \/ Told(c, "callFailed") => call[c].endedAt # 0
    /\ Told(c, "callConnected") => call[c].startedAt # 0
    /\ Precedes(c, "callStarted", "success")

----------------------------------------------------------------------------
(* Liveness. *)

AtRest(p) == proc[p].pc \in {"idle", "done"}

\* Every command that was accepted and every event that was dispatched runs
\* to its end or up to a message it hands to SendMessage, whatever becomes of
\* the others' sends: no return path keeps sm.mutex, no goroutine waits for
\* the peer elsewhere, and a blocked send blocks no other goroutine.
GoroutinesFinish == \A p \in Procs : ~AtRest(p) ~> AtRest(p) \/ Sending(p)

\* The outcome of call c has been handed to SendMessage.
OutcomeSent(c) ==
  \/ Told(c, "callEnded") \/ Told(c, "callFailed")
  \/ \E p \in Procs : At(p, "report") /\ proc[p].call = c /\ proc[p].end # None

\* A call that a handler sets out to end, or whose bound channel is reported
\* destroyed, gets an outcome announced, whatever commands run meanwhile.
EveryEndIsTold ==
  \A c \in CallIDs :
    (\/ \E p \in Procs : At(p, "endCall") /\ proc[p].call = c
     \/ \E p \in EventProcs : Spawned(p, "Destroyed") /\ CallOf(p) = c)
      ~> OutcomeSent(c)

\* A goroutine that sets out to end a call finds or leaves its agent not BUSY.
EveryEndFreesAgent ==
  \A p \in Procs, a \in AgentIDs :
    (At(p, "endCall") /\ call[proc[p].call].agentID = a) ~> (agents[a].state # "BUSY")

----------------------------------------------------------------------------
(* The lease the domain package promises. *)

\* The agent's READY state has been seen by a StartCall that has not returned
\* yet, or it is there to be seen by the next one.
MayOpenCall(a) ==
  \/ agents[a].state = "READY"
  \/ \E p \in Procs : proc[p].agent = a /\ proc[p].pc \in StartPcs \ {"checkAgent"}

\* The agent of a call, from the moment StartCall has written both of them.
Opener(c) ==
  IF \E p \in Procs : At(p, "setBusy") /\ proc[p].call = c THEN None ELSE call[c].agentID

Lease == INSTANCE ReadyLease WITH
  Agents    <- AgentIDs,
  Calls     <- CallIDs,
  ready     <- {a \in AgentIDs : MayOpenCall(a)},
  owner     <- [c \in CallIDs |-> Opener(c)],
  closed    <- {c \in CallIDs : call[c].endedAt # 0},
  announced <- {c \in CallIDs : Told(c, "callEnded") \/ Told(c, "callFailed")}

\* Through every interleaving of commands and events, one READY of an agent
\* opens at most one call, a call is closed once, and its outcome is announced
\* only afterwards: CallFlow implements ReadyLease.
ReadyLeaseSpec == Lease!LeaseSpec

----------------------------------------------------------------------------
(* What comments in the source say of the flow, and the code does not keep. *)

\* "1. First send callStarted event": no other event of a placed call comes
\* before its callStarted.
StartedComesFirst ==
  \A c \in CallIDs : /\ Precedes(c, "callStarted", "callConnected")
                     /\ Precedes(c, "callStarted", "callEnded")

\* "Determine if call ended normally or failed": a call has one outcome.
OneOutcome == \A c \in CallIDs : ~(Told(c, "callEnded") /\ Told(c, "callFailed"))

\* "waiting for Asterisk to process the incoming call": when Asterisk has
\* destroyed the channel it took for a call and reported it, the call ends.
DestroyedChannelEndsCall ==
  \A ch \in Channels, c \in CallIDs :
    (channel[ch] = [phase |-> "Destroyed", call |-> c]) ~> (call[c].endedAt # 0)
============================================================================
