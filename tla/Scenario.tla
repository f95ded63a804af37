------------------------------ MODULE Scenario ------------------------------
(***************************************************************************)
(* The call scenarios of internal/scenario/executor.go and the two API     *)
(* requests of internal/api/handlers.go that run them, as a client of      *)
(* CallFlow.                                                               *)
(*                                                                         *)
(* A scenario sends commands to the CTI peer and never waits for a reply:  *)
(* it pauses.  The peer gives the commands back to the emulator, whose     *)
(* dispatcher starts a goroutine for each, so what a scenario sent in      *)
(* order may take effect in any order, and commands of requests that run   *)
(* at the same time meet: every one but the last acts on CurrentAgentID.   *)
(*                                                                         *)
(* Not every behaviour is like that.  `calm' ones are those the pauses     *)
(* were written for: a command has done its work before the next is sent,  *)
(* and requests come one at a time.  An outbound call may be made with an  *)
(* agent that had calls before, so in a calm behaviour of that kind an     *)
(* event, too, is handled before anything else begins.                     *)
(***************************************************************************)
EXTENDS CallFlow

CONSTANTS
  Requests,   \* API requests that make a call
  Kinds       \* which scenarios they run

ASSUME KindsAreScenarios == Kinds \subseteq {"basic", "outbound"}

VARIABLES
  kind,     \* the scenario of the requests of this behaviour
  calm,     \* the pauses suffice, and requests come one at a time
  scene,    \* [Requests -> the step of its scenario, or its answer]
  chosen,   \* [Requests -> the agent for lineMakeOutboundCall, and who chose it]
  inbox     \* commands on their way through the peer

scenarioVars == <<flowVars, kind, calm, scene, chosen, inbox>>

Answered == {"ok", "error"}

SetupNames == {"agentRegister", "agentLogin", "agentChangeState"}

\* The pcs of a scenario that is about to send a command are their names.
ScenePcs == {"idle", "ensure", "choose", "makeCall"} \cup SetupNames \cup Answered

ScenarioInit ==
  /\ FlowInit
  /\ kind \in Kinds
  /\ calm \in BOOLEAN
  /\ scene = [r \in Requests |-> "idle"]
  /\ chosen = [r \in Requests |-> [agent |-> None, byClient |-> FALSE]]
  /\ inbox = {}

AtScene(r, pc) == scene[r] = pc

GotoScene(r, pc) == scene' = [scene EXCEPT ![r] = pc]

\* Every command that was sent has done its work, and so has every event that
\* may matter to the next.
Settled ==
  /\ inbox = {}
  /\ \A p \in Handlers : At(p, "idle")
  /\ kind = "outbound" => \A p \in EventProcs : AtRest(p)

----------------------------------------------------------------------------
(* The requests. *)

\* handleMakeCall runs RunBasicScenario, handleMakeOutboundCall
\* RunOutboundCallScenario; its agent_id is one the client was told, or empty.
Request(r, m) ==
  /\ AtScene(r, "idle")
  /\ calm => Settled /\ \A q \in Requests : scene[q] \in {"idle"} \cup Answered
  /\ chosen' = [chosen EXCEPT ![r] = [agent |-> m, byClient |-> m # None]]
  /\ \/ kind = "basic" /\ m = None /\ GotoScene(r, "agentRegister")
     \/ kind = "outbound" /\ GotoScene(r, IF m = None THEN "ensure" ELSE "makeCall")
  /\ UNCHANGED <<flowVars, kind, calm, inbox>>

\* Mutant of EnsureAgentReady: it makes the agent READY itself.
EnsureAgentReadyItself(r) ==
  /\ AtScene(r, "ensure")
  /\ \E a \in AgentIDs :
       /\ agents[a].state = "UNUSED"
       /\ agents' = [agents EXCEPT ![a].state = "READY"]
  /\ GotoScene(r, "makeCall")
  /\ UNCHANGED <<cmVars, smLock, proc, currentAgent, channel, sent, kind, calm, chosen, inbox>>

\* Any READY agent will do: it need not be the one the call will be made with.
EnsureAgentReady(r) ==
  /\ AtScene(r, "ensure")
  /\ GotoScene(r, IF \E a \in AgentIDs : agents[a].state = "READY"
                  THEN "choose" ELSE "agentRegister")
  /\ UNCHANGED <<flowVars, kind, calm, chosen, inbox>>

\* The first agent of a range over the registry: any agent, in any state.
GetCurrentAgentID(r) ==
  /\ AtScene(r, "choose")
  /\ \E a \in AgentIDs \cup {None} :
       /\ IF a = None THEN \A b \in AgentIDs : ~AgentExists(b) ELSE AgentExists(a)
       /\ chosen' = [chosen EXCEPT ![r].agent = a]
  /\ GotoScene(r, "makeCall")
  /\ UNCHANGED <<flowVars, kind, calm, inbox>>

\* Mutant of AfterSending: the agent is not made READY.
AfterSendingNotReady(pc) ==
  CASE pc = "agentRegister" -> "agentLogin"
    [] pc = "agentLogin"    -> IF kind = "basic" THEN "makeCall" ELSE "choose"
    [] pc = "makeCall"      -> "ok"

\* Mutant of AfterSending: the call is asked for before the agent is READY.
AfterSendingCallFirst(pc) ==
  CASE pc = "agentRegister"    -> "agentLogin"
    [] pc = "agentLogin"       -> IF kind = "basic" THEN "makeCall" ELSE "choose"
    [] pc = "makeCall"         -> "agentChangeState"
    [] pc = "agentChangeState" -> "ok"

AfterSending(pc) ==
  CASE pc = "agentRegister"    -> "agentLogin"
    [] pc = "agentLogin"       -> "agentChangeState"
    [] pc = "agentChangeState" -> IF kind = "basic" THEN "makeCall" ELSE "choose"
    [] pc = "makeCall"         -> "ok"

\* SendMessage, after the pause.
SendCommand(r) ==
  /\ scene[r] \in SetupNames \cup {"makeCall"}
  /\ calm => Settled
  /\ inbox' = inbox \cup {[request |-> r, name |-> scene[r], agent |-> chosen[r].agent]}
  /\ GotoScene(r, AfterSending(scene[r]))
  /\ UNCHANGED <<flowVars, kind, calm, chosen>>

\* The client is not connected: the scenario stops here, and the request is
\* answered with an error.  What was sent before stays sent.
SendFails(r) ==
  /\ scene[r] \in SetupNames \cup {"makeCall"}
  /\ GotoScene(r, "error")
  /\ UNCHANGED <<flowVars, kind, calm, chosen, inbox>>

----------------------------------------------------------------------------
(* The peer gives a command back, and a goroutine handles it. *)

\* The command handler of CallFlow that takes the message.  Setup commands
\* carry no agentId.
Handle(p, msg) ==
  \/ msg.name = "agentRegister" /\ \E a \in AgentIDs : AgentRegister(p, a)
  \/ msg.name = "agentLogin" /\ AgentLogin(p, None)
  \/ msg.name = "agentChangeState" /\ AgentChangeState(p, None, "READY")
  \/ msg.name = "makeCall" /\ MakeCall(p, msg.agent)

\* The handler replies with an error: there is no such agent, or for a call it
\* is not READY.
Refuse(p, msg) ==
  /\ At(p, "idle")
  /\ \/ msg.name \in {"agentLogin", "agentChangeState"} /\ ~AgentExists(GetAgentID(None))
     \/ msg.name = "makeCall" /\ smLock = None /\ ~IsAgentReady(GetAgentID(msg.agent))
  /\ UNCHANGED flowVars

Deliver(p, msg) ==
  /\ Handle(p, msg) \/ Refuse(p, msg)
  /\ inbox' = inbox \ {msg}
  /\ UNCHANGED <<kind, calm, scene, chosen>>

\* lineMakeCall goes through the SIP server, lineMakeOutboundCall to Asterisk.
PlacedAsAsked(p) ==
  At(p, "process") => proc'[p].pc # (IF kind = "basic" THEN "originate" ELSE "dial")

\* Goroutines, and Asterisk, go on meanwhile.
FlowProceeds ==
  /\ \/ \E p \in Procs : (ProcStep(p) \/ OverlappingWrite(p)) /\ PlacedAsAsked(p)
     \/ /\ calm /\ kind = "outbound" => Settled
        /\ \E ch \in Channels, e \in EventTypes : ChannelEvent(ch, e)
  /\ UNCHANGED <<kind, calm, scene, chosen, inbox>>

ScenarioNext ==
  \/ \E r \in Requests :
       \/ \E m \in MsgAgentIDs : Request(r, m)
       \/ EnsureAgentReady(r)
       \/ GetCurrentAgentID(r)
       \/ SendCommand(r)
       \/ SendFails(r)
  \/ \E p \in Handlers, msg \in inbox : Deliver(p, msg)
  \/ FlowProceeds

ScenarioSpec == ScenarioInit /\ [][ScenarioNext]_scenarioVars

----------------------------------------------------------------------------
(* Properties. *)

\* The scenarios touch agents and calls through the commands of the handlers
\* only: CallFlow's properties are theirs.
ImplementsFlow == FlowSpec

CallsMade == {c \in CallIDs : call[c].state # "UNUSED"}

\* ensureAgentReady sees that some agent is READY, and getCurrentAgentID then
\* returns some agent: they are the same one only if there is no other.
AgentIsClear ==
  \/ kind = "basic"
  \/ /\ Cardinality({a \in AgentIDs : AgentExists(a)}) = 1
     /\ \A r \in Requests : ~chosen[r].byClient

\* "Call initiated successfully": where the pauses suffice, every request that
\* was told so has had its call started once all commands have been handled.
\* (For an outbound call that is so only while one agent is registered.)
SuccessMeansCall ==
  calm /\ Settled /\ AgentIsClear =>
    Cardinality(CallsMade) >= Cardinality({r \in Requests : AtScene(r, "ok")})

\* A request that is told it failed starts no call, now or later, however slow
\* the peer and however many requests run at once: it can be made again.
FailureStartsNoCall ==
  Cardinality(CallsMade) <= Cardinality({r \in Requests : AtScene(r, "ok")})
============================================================================
