----------------------------- MODULE CalmProofs -----------------------------
(***************************************************************************)
(* What a success means where the pauses of a scenario suffice, for any    *)
(* sets of requests, agents, calls, channels, goroutines and events.       *)
(*                                                                         *)
(* The argument: in a calm behaviour one thing happens at a time (Turns),  *)
(* so the agent a scenario registers has no call when the scenario calls   *)
(* with it (NewAgents), and an agent that becomes READY again has only     *)
(* calls that nothing will move any more (OldCalls).  The agent a makeCall *)
(* command names is then READY and stays so until StartCall has made its   *)
(* call (Choices), and the count of ScenarioProofs loses no command.       *)
(***************************************************************************)
EXTENDS ScenarioProofs

----------------------------------------------------------------------------
(* One thing at a time. *)

Active(r) == scene[r] \notin {"idle"} \cup Answered

\* The command a request that is about to take step pc may wait for.
Awaited(pc) ==
  CASE pc = "agentLogin"             -> {"agentRegister"}
    [] pc = "agentChangeState"       -> {"agentLogin"}
    [] pc \in {"choose", "makeCall"} -> {"agentChangeState"}
    [] OTHER                         -> {}

HandlersIdle == \A p \in Handlers : At(p, "idle")

EventsAtRest == \A p \in EventProcs : AtRest(p)

CommandsInTurn ==
  /\ \A m, n \in inbox : m = n
  /\ \A p, q \in Handlers : ~At(p, "idle") /\ ~At(q, "idle") => p = q
  /\ inbox # {} => HandlersIdle

EventsInTurn ==
  /\ \A p, q \in EventProcs : ~AtRest(p) /\ ~AtRest(q) => p = q
  /\ \A p \in EventProcs : ~AtRest(p) => channel[p[1]].phase = p[2]
  /\ inbox # {} \/ ~HandlersIdle => EventsAtRest

RequestsInTurn ==
  /\ \A q, r \in Requests : Active(q) /\ Active(r) => q = r
  /\ \A r \in Requests : Active(r) =>
       /\ \A msg \in inbox : msg.name \in Awaited(scene[r])
       /\ \A p \in Handlers : At(p, "idle") \/ (At(p, "registered") /\ AtScene(r, "agentLogin"))

\* No scenario logs an agent out, and those of one kind take their steps.
ScenesFit ==
  /\ kind \in {"basic", "outbound"}
  /\ \A p \in Procs : proc[p].pc \notin CleanPcs
  /\ \A r \in Requests :
       /\ kind = "basic" => scene[r] \notin {"ensure", "choose"} /\ chosen[r].agent = None
       /\ kind = "outbound" /\ scene[r] \in {"ensure", "choose"} \cup SetupNames
            => ~chosen[r].byClient

Turns ==
  /\ CommandsInTurn
  /\ kind = "outbound" => EventsInTurn
  /\ RequestsInTurn
  /\ ScenesFit

\* A goroutine that is alone at work.
OnlyBusy(p) ==
  IF p \in Handlers
  THEN /\ inbox = {} /\ \A q \in Handlers \ {p} : At(q, "idle")
       /\ kind = "outbound" => EventsAtRest
       /\ \A r \in Requests : Active(r) => At(p, "registered") /\ AtScene(r, "agentLogin")
  ELSE kind = "outbound" =>
         /\ inbox = {} /\ HandlersIdle
         /\ \A q \in EventProcs \ {p} : AtRest(q)
         /\ channel[p[1]].phase = p[2]

\* While a goroutine is at work, nothing else is.
LEMMA Alone1 ==
  ASSUME FlowInv, Turns, NEW p \in Procs, ~AtRest(p)
  PROVE  OnlyBusy(p)
  <1>1. p \in Handlers \/ p \in EventProcs
    BY ProcKinds
  <1>2. ~At(p, "idle")
    BY DEF AtRest, At
  <1>3. CASE p \in Handlers
    BY <1>2, <1>3 DEF Turns, CommandsInTurn, EventsInTurn, RequestsInTurn, HandlersIdle, OnlyBusy
  <1>4. CASE p \notin Handlers
    BY <1>1, <1>4 DEF Turns, EventsInTurn, EventsAtRest, OnlyBusy
  <1> QED
    BY <1>3, <1>4

\* While a command is on its way, nothing is at work.
LEMMA Alone2 ==
  ASSUME Turns, NEW msg \in inbox
  PROVE  /\ inbox = {msg} /\ HandlersIdle /\ (kind = "outbound" => EventsAtRest)
         /\ \A r \in Requests : Active(r) => msg.name \in Awaited(scene[r])
  BY DEF Turns, CommandsInTurn, EventsInTurn, RequestsInTurn

\* A goroutine takes a step.
LEMMA ProcTurns ==
  ASSUME FlowInv, Turns, NEW p \in Procs, ProcStep(p) \/ OverlappingWrite(p),
         UNCHANGED <<kind, scene, chosen, inbox>>
  PROVE  Turns'
  <1>1. Walks(p)
    BY ProcMoves
  <1>2. ~AtRest(p) /\ OnlyBusy(p)
    BY <1>1, Alone1 DEF Walks, GoesOn, AtRest, StartPcs
  <1>3. ScenesFit'
    BY <1>1 DEF Walks, Others, GoesOn, CleanPcs, Turns, ScenesFit, StartPcs
  <1>4. CASE p \in Handlers
    <2>1. p \notin EventProcs /\ EventProcs \subseteq Procs /\ Handlers \subseteq Procs
      BY <1>4, ProcKinds
    <2>2. /\ \A q \in EventProcs : proc'[q] = proc[q]
          /\ \A q \in Handlers \ {p} : proc'[q] = proc[q]
      BY <1>1, <2>1 DEF Walks, Others, StartPcs
    <2>3. CommandsInTurn'
      BY <1>2, <1>4, <2>2 DEF OnlyBusy, CommandsInTurn, At
    <2>4. kind = "outbound" => EventsInTurn'
      BY <1>2, <1>4, <2>2 DEF OnlyBusy, EventsAtRest, EventsInTurn, AtRest
    <2>5. RequestsInTurn'
      <3>1. \A r \in Requests : Active(r) => proc'[p].pc = "idle"
        BY <1>1, <1>2, <1>4 DEF OnlyBusy, Walks, GoesOn, At, StartPcs
      <3> QED
        BY <1>2, <1>4, <2>2, <3>1
        DEF OnlyBusy, Turns, RequestsInTurn, Active, At, AtScene
    <2> QED
      BY <1>3, <2>3, <2>4, <2>5 DEF Turns
  <1>5. CASE p \notin Handlers
    <2>1. p \in EventProcs /\ EventProcs \subseteq Procs /\ Handlers \subseteq Procs
      BY <1>5, ProcKinds
    <2>2. /\ \A q \in Handlers : proc'[q] = proc[q]
          /\ \A q \in EventProcs \ {p} : proc'[q] = proc[q]
      BY <1>1, <1>5, <2>1 DEF Walks, Others, StartPcs
    <2>3. channel' = channel
      BY <1>5
      DEF ProcStep, StateManagerStep, OverlappingWrite, Report, EventStep, NoCallFound,
          HandleChannelCreated, HandleRing, HandleUp, HandleDown, HandleChannelDestroyed
    <2>4. CommandsInTurn' /\ RequestsInTurn'
      BY <2>2
      DEF Turns, CommandsInTurn, RequestsInTurn, HandlersIdle, Active, At, AtScene
    <2>5. kind = "outbound" => EventsInTurn'
      BY <1>2, <1>5, <2>1, <2>2, <2>3
      DEF OnlyBusy, HandlersIdle, EventsAtRest, EventsInTurn, AtRest, At
    <2> QED
      BY <1>3, <2>4, <2>5 DEF Turns
  <1> QED
    BY <1>4, <1>5

\* Asterisk reports an event.
LEMMA ChannelTurns ==
  ASSUME FlowInv, Turns, NEW ch \in Channels, NEW e \in EventTypes, ChannelEvent(ch, e),
         kind = "outbound" => Settled,
         UNCHANGED <<kind, scene, chosen, inbox>>
  PROVE  Turns'
  <1> DEFINE p == <<ch, e>>
  <1>1. /\ p \in Procs /\ p \in EventProcs /\ p \notin Handlers
        /\ p[1] = ch /\ p[2] = e
    BY ProcKinds
  <1> HIDE DEF p
  <1>2. Moved(p, "spawned", proc[p].agent, proc[p].call)
    BY <1>1, Fields DEF ChannelEvent, p
  <1>3. /\ \A q \in Handlers : proc'[q] = proc[q]
        /\ \A q \in EventProcs \ {p} : proc'[q] = proc[q]
    BY <1>1, <1>2, ProcKinds DEF Moved, Others
  <1>4. channel'[ch].phase = e
    BY DEF ChannelEvent, FlowInv, FlowTypes
  <1>5. CommandsInTurn' /\ RequestsInTurn'
    BY <1>3
    DEF Turns, CommandsInTurn, RequestsInTurn, HandlersIdle, Active, At, AtScene
  <1>6. kind = "outbound" => EventsInTurn'
    BY <1>1, <1>3, <1>4 DEF Settled, HandlersIdle, EventsAtRest, EventsInTurn, AtRest, At
  <1>7. ScenesFit'
    BY <1>2 DEF Moved, Others, CleanPcs, Turns, ScenesFit
  <1> QED
    BY <1>5, <1>6, <1>7 DEF Turns

\* A command is handled or refused.
LEMMA DeliverTurns ==
  ASSUME SceneInv, Turns, NEW p \in Handlers, NEW msg \in inbox, Deliver(p, msg)
  PROVE  Turns'
  <1>1. FlowInv /\ p \in Procs /\ p \notin EventProcs /\ EventProcs \subseteq Procs /\ Handlers \subseteq Procs
    BY ProcKinds DEF SceneInv
  <1>2. /\ inbox = {msg} /\ HandlersIdle /\ (kind = "outbound" => EventsAtRest)
        /\ \A r \in Requests : Active(r) => msg.name \in Awaited(scene[r])
    BY Alone2
  <1>3. inbox' = {} /\ UNCHANGED <<kind, scene, chosen>>
    BY <1>2 DEF Deliver
  <1>4. /\ Others(p)
        /\ \/ proc'[p].pc = "idle"
           \/ proc'[p].pc = "registered" /\ msg.name = "agentRegister"
           \/ proc'[p].pc = "checkAgent" /\ msg.name = "makeCall"
    <2>1. proc[p].pc = "idle"
      BY <1>2 DEF HandlersIdle, At
    <2>2. CASE proc' = proc
      BY <2>1, <2>2 DEF Others
    <2>3. ASSUME NEW a \in AgentIDs, AgentRegister(p, a)
          PROVE  Moved(p, "registered", a, proc[p].call)
      BY <1>1, <2>3, Fields DEF AgentRegister
    <2>4. ASSUME NEW m, MakeCall(p, m)
          PROVE  Moved(p, "checkAgent", GetAgentID(m), proc[p].call)
      BY <1>1, <2>4, Fields DEF MakeCall
    <2> QED
      BY <2>2, <2>3, <2>4
      DEF Deliver, Handle, Refuse, AgentLogin, AgentChangeState, flowVars, smVars, Moved
  <1>5. /\ \A q \in EventProcs : proc'[q] = proc[q]
        /\ \A q \in Handlers \ {p} : proc'[q] = proc[q]
    BY <1>1, <1>4 DEF Others
  <1>6. CommandsInTurn'
    BY <1>2, <1>3, <1>5 DEF CommandsInTurn, HandlersIdle, At
  <1>7. kind' = "outbound" => EventsInTurn'
    BY <1>2, <1>3, <1>5 DEF EventsInTurn, EventsAtRest, AtRest
  <1>8. RequestsInTurn'
    <2>1. \A r \in Requests : Active(r) =>
            \/ proc'[p].pc = "idle"
            \/ proc'[p].pc = "registered" /\ AtScene(r, "agentLogin")
      BY <1>2, <1>4 DEF Awaited, AtScene
    <2> QED
      BY <1>2, <1>3, <1>5, <2>1
      DEF Turns, RequestsInTurn, HandlersIdle, Active, At, AtScene
  <1>9. ScenesFit'
    <2>1. \A q \in Procs : proc'[q].pc \notin CleanPcs
      BY <1>4 DEF Others, Turns, ScenesFit, CleanPcs
    <2> QED
      BY <1>3, <2>1 DEF Turns, ScenesFit
  <1> QED
    BY <1>6, <1>7, <1>8, <1>9 DEF Turns

\* A request takes a step.
LEMMA RequestTurns ==
  ASSUME SceneInv, scene \in [Requests -> ScenePcs], calm, Turns,
         NEW r \in Requests, NEW m \in MsgAgentIDs,
         \/ Request(r, m) \/ EnsureAgentReady(r) \/ GetCurrentAgentID(r)
         \/ SendCommand(r) \/ SendFails(r)
  PROVE  Turns'
  <1>1. UNCHANGED <<flowVars, kind>>
    BY DEF Request, EnsureAgentReady, GetCurrentAgentID, SendCommand, SendFails
  <1>2. \A p : proc'[p] = proc[p]
    BY <1>1 DEF flowVars, smVars
  <1>3. \A p, pc : At(p, pc)' <=> At(p, pc)
    BY <1>2 DEF At
  <1>4. (HandlersIdle' <=> HandlersIdle) /\ (EventsAtRest' <=> EventsAtRest)
    BY <1>2 DEF HandlersIdle, EventsAtRest, At, AtRest
  <1>5. \A q \in Requests \ {r} : scene'[q] = scene[q] /\ chosen'[q] = chosen[q]
    BY DEF SceneInv, Request, EnsureAgentReady, GetCurrentAgentID, SendCommand, SendFails, GotoScene
  <1>6. scene[r] \in ScenePcs /\ chosen[r] \in [agent : MsgAgentIDs, byClient : BOOLEAN]
    BY DEF SceneInv
  <1>7. CASE inbox' = inbox
    <2>1. CommandsInTurn' /\ (kind = "outbound" => EventsInTurn')
      BY <1>1, <1>2, <1>3, <1>4, <1>7
      DEF Turns, CommandsInTurn, EventsInTurn, AtRest, flowVars, smVars
    <2>2. \/ SendFails(r) /\ scene'[r] = "error"
          \/ /\ Settled /\ \A q \in Requests : ~Active(q)
             /\ scene'[r] \in {"agentRegister", "ensure", "makeCall"}
          \/ scene[r] = "ensure" /\ scene'[r] \in {"agentRegister", "choose"}
          \/ scene[r] = "choose" /\ scene'[r] = "makeCall"
      <3>1. SendCommand(r) => inbox' # inbox
        BY DEF SendCommand, Settled
      <3> QED
        BY <1>7, <3>1
        DEF Request, EnsureAgentReady, GetCurrentAgentID, SendFails, GotoScene, AtScene, Active
    <2>3. RequestsInTurn'
      <3>1. CASE SendFails(r) /\ scene'[r] = "error"
        BY <1>2, <1>5, <1>7, <3>1
        DEF Turns, RequestsInTurn, Active, Answered, At, AtScene
      <3>2. CASE /\ Settled /\ \A q \in Requests : ~Active(q)
                 /\ scene'[r] \in {"agentRegister", "ensure", "makeCall"}
        BY <1>3, <1>5, <1>7, <3>2 DEF RequestsInTurn, Active, Settled
      <3>3. CASE scene[r] = "ensure" /\ scene'[r] \in {"agentRegister", "choose"}
        <4>1. Active(r) /\ Awaited(scene[r]) = {} /\ ~AtScene(r, "agentLogin")
          BY <3>3 DEF Active, Answered, Awaited, AtScene
        <4>2. inbox = {} /\ HandlersIdle /\ \A q \in Requests \ {r} : ~Active(q)
          BY <4>1 DEF Turns, RequestsInTurn, HandlersIdle
        <4> QED
          BY <1>3, <1>5, <1>7, <4>2 DEF RequestsInTurn, Active, HandlersIdle
      <3>4. CASE scene[r] = "choose" /\ scene'[r] = "makeCall"
        <4>1. Active(r) /\ Awaited(scene[r]) = Awaited(scene'[r]) /\ ~AtScene(r, "agentLogin")
          BY <3>4 DEF Active, Answered, Awaited, AtScene
        <4>2. HandlersIdle /\ \A q \in Requests \ {r} : ~Active(q)
          BY <4>1 DEF Turns, RequestsInTurn, HandlersIdle
        <4>3. \A msg \in inbox : msg.name \in Awaited(scene'[r])
          BY <4>1 DEF Turns, RequestsInTurn
        <4> QED
          BY <1>3, <1>5, <1>7, <4>2, <4>3 DEF RequestsInTurn, Active, HandlersIdle
      <3> QED
        BY <2>2, <3>1, <3>2, <3>3, <3>4
    <2>4. ScenesFit'
      <3>1. \/ kind = "basic" /\ scene'[r] \notin {"ensure", "choose"} /\ chosen'[r].agent = None
            \/ kind = "outbound" /\ scene'[r] \notin {"ensure", "choose"} \cup SetupNames
            \/ kind = "outbound" /\ ~chosen'[r].byClient
        <4>1. CASE Request(r, m)
          BY <4>1 DEF SceneInv, Request, GotoScene, SetupNames
        <4>2. CASE EnsureAgentReady(r)
          BY <1>6, <4>2 DEF EnsureAgentReady, AtScene, Turns, ScenesFit
        <4>3. CASE GetCurrentAgentID(r)
          BY <1>6, <4>3
          DEF GetCurrentAgentID, AtScene, GotoScene, Turns, ScenesFit, SetupNames
        <4>4. CASE SendFails(r)
          BY <1>6, <4>4 DEF SendFails, GotoScene, Turns, ScenesFit, SetupNames
        <4>5. ~SendCommand(r)
          BY <1>7 DEF SendCommand, Settled
        <4> QED
          BY <4>1, <4>2, <4>3, <4>4, <4>5
      <3> QED
        BY <1>1, <1>2, <1>5, <3>1 DEF Turns, ScenesFit
    <2> QED
      BY <1>1, <2>1, <2>3, <2>4 DEF Turns
  <1>8. CASE SendCommand(r)
    <2> DEFINE msg == [request |-> r, name |-> scene[r], agent |-> chosen[r].agent]
    <2>1. /\ Settled /\ inbox' = {msg} /\ chosen' = chosen
          /\ scene[r] \in SetupNames \cup {"makeCall"}
          /\ scene'[r] = AfterSending(scene[r])
      BY <1>8 DEF SendCommand, Settled, GotoScene
    <2>2. /\ scene[r] = "makeCall" => scene'[r] = "ok"
          /\ scene[r] # "makeCall" => scene[r] \in Awaited(scene'[r])
          /\ kind = "basic" => scene'[r] \notin {"ensure", "choose"}
          /\ scene'[r] \in SetupNames \cup {"choose"} => scene[r] \in SetupNames
      BY <2>1 DEF AfterSending, Awaited, SetupNames
    <2>3. CommandsInTurn'
      BY <1>3, <2>1 DEF Settled, CommandsInTurn, HandlersIdle
    <2>4. kind = "outbound" => EventsInTurn'
      BY <1>2, <2>1 DEF Settled, EventsInTurn, EventsAtRest, AtRest
    <2>5. RequestsInTurn'
      <3>1. Active(r) /\ \A q \in Requests \ {r} : ~Active(q)
        BY <2>1 DEF Turns, RequestsInTurn, Active, Answered, SetupNames
      <3>2. Active(r)' => msg.name \in Awaited(scene'[r])
        BY <2>2 DEF Active, Answered
      <3> QED
        BY <1>3, <1>5, <2>1, <3>1, <3>2 DEF RequestsInTurn, Active, Settled
    <2>6. ScenesFit'
      BY <1>1, <1>2, <1>5, <2>1, <2>2 DEF Turns, ScenesFit
    <2> QED
      BY <1>1, <2>3, <2>4, <2>5, <2>6 DEF Turns
  <1> QED
    BY <1>7, <1>8 DEF Request, EnsureAgentReady, GetCurrentAgentID, SendFails

\* Every step of a calm behaviour keeps the turns.
LEMMA TurnsKept ==
  ASSUME SceneInv, scene \in [Requests -> ScenePcs], calm, Turns,
         [ScenarioNext]_scenarioVars
  PROVE  Turns'
  <1>1. FlowInv /\ None \in MsgAgentIDs
    BY DEF SceneInv, MsgAgentIDs
  <1>2. CASE FlowProceeds
    BY <1>1, <1>2, ProcTurns, ChannelTurns DEF FlowProceeds
  <1>3. CASE UNCHANGED scenarioVars
    BY <1>3
    DEF scenarioVars, flowVars, smVars, Turns, CommandsInTurn, EventsInTurn, RequestsInTurn,
        ScenesFit, HandlersIdle, EventsAtRest, Active, At, AtRest, AtScene
  <1> QED
    BY <1>1, <1>2, <1>3, RequestTurns, DeliverTurns DEF ScenarioNext

----------------------------------------------------------------------------
(* What a step of a goroutine does to the calls and the agents. *)

\* A call is made for the agent of the goroutine, or no call changes hands.
CallsAfter(p) ==
  IF At(p, "create")
  THEN \E c \in CallIDs \ calls :
         /\ calls' = calls \cup {c} /\ \A d \in calls : call'[d] = call[d]
         /\ call'[c].agentID = proc[p].agent /\ call'[c].channel = None
         /\ callsByAgent' = [callsByAgent EXCEPT ![proc[p].agent] = c]
         /\ proc'[p].call = c
  ELSE /\ calls' = calls /\ callsByAgent' = callsByAgent
       /\ \A d \in CallIDs : call'[d].agentID = call[d].agentID

\* An agent is written by the last step of StartCall or EndCall.
AgentsAfter(p) ==
  IF At(p, "setBusy")
  THEN /\ \A a \in AgentIDs : a # proc[p].agent => agents'[a] = agents[a]
       /\ agents'[proc[p].agent].state \in {"BUSY", "TORN"}
  ELSE IF At(p, "freeAgent")
  THEN /\ \A a \in AgentIDs : a # call[proc[p].call].agentID => agents'[a] = agents[a]
       /\ agents'[call[proc[p].call].agentID].state \in {"READY", "TORN"}
  ELSE agents' = agents

CurrentAfter(p) == currentAgent' = IF At(p, "registered") THEN proc[p].agent ELSE currentAgent

\* The effects of a goroutine's step that is not a logout's.
LEMMA Effects ==
  ASSUME FlowInv, NEW p \in Procs, proc[p].pc \notin CleanPcs,
         ProcStep(p) \/ OverlappingWrite(p)
  PROVE  CallsAfter(p) /\ AgentsAfter(p) /\ CurrentAfter(p)
  <1>1. /\ CMInv /\ calls \subseteq CallIDs /\ call \in [CallIDs -> CallRecord]
        /\ agents \in [AgentIDs -> AgentRecord]
    BY DEF FlowInv, FlowTypes, CMInv, CMTypeOK
  <1>2. \A c \in calls : call[c].state # "UNUSED"
    BY <1>1 DEF CMInv, UnusedClean
  <1>3. /\ proc[p].pc = "setBusy" => proc[p].agent \in AgentIDs
        /\ proc[p].pc = "freeAgent" => call[proc[p].call].agentID \in AgentIDs
    BY GoroutineFacts DEF ProcOK, LocalSound, AgentPcs, StartPcs, EndPcs
  <1>4. CurrentAfter(p)
    BY DEF CurrentAfter, ProcStep, StateManagerStep, StartCallStep, EndCallStep, CleanupStep,
       CheckAgent, CheckCall, StartCreate, SetBusy, EndCallState, CheckBusy, FreeAgent, CleanCalls,
       CleanAgent, Report, HandlerStep, SetCurrentAgent, Rejected, PlaceFails, EmulateIncomingCall,
       Originate, OriginateReply, OriginateFails, Dial, SendStarted, SendSuccess, EventStep,
       NoCallFound, HandleChannelCreated, HandleRing, HandleUp, HandleDown, HandleChannelDestroyed,
       OverlappingWrite, Spawned, At, OriginateReplyNoId, CheckPcs, AfterCheck
  <1>5. AgentsAfter(p)
    <2>1. ASSUME NEW written \in {"BUSY", "TORN"}, SetBusy(p, written)
          PROVE  AgentsAfter(p)
      BY <1>1, <1>3, <2>1 DEF SetBusy, AgentsAfter, At
    <2>2. ASSUME NEW written \in {"READY", "TORN"}, FreeAgent(p, written)
          PROVE  AgentsAfter(p)
      BY <1>1, <1>3, <2>2 DEF FreeAgent, AgentsAfter, At
    <2>3. CASE agents' = agents /\ proc[p].pc \notin {"setBusy", "freeAgent"}
      BY <2>3 DEF AgentsAfter, At
    <2> QED
      BY <2>1, <2>2, <2>3
      DEF ProcStep, StateManagerStep, StartCallStep, EndCallStep, CleanupStep, CleanPcs,
          CheckAgent, CheckCall, StartCreate, EndCallState, CheckBusy, CleanCalls,
          CleanAgent, Report, HandlerStep, SetCurrentAgent, Rejected, PlaceFails,
          EmulateIncomingCall, Originate, OriginateReply, OriginateFails, Dial, SendStarted,
          SendSuccess, EventStep, NoCallFound, HandleChannelCreated, HandleRing, HandleUp,
          HandleDown, HandleChannelDestroyed, OverlappingWrite, Spawned, At, OriginateReplyNoId,
          CheckPcs, AfterCheck
  <1>6. CallsAfter(p)
    <2>1. ASSUME NEW c \in CallIDs, NEW r \in RefIDs \cup {None}, StartCreate(p, c, r)
          PROVE  CallsAfter(p)
      <3> DEFINE a == proc[p].agent
      <3>1. /\ c \notin calls /\ calls' = calls \cup {c}
            /\ call' = [call EXCEPT ![c] = NewCall(a, r)]
            /\ callsByAgent' = [callsByAgent EXCEPT ![a] = c]
        BY <1>2, <2>1 DEF StartCreate, CreateCall
      <3>2. NewCall(a, r).agentID = a /\ NewCall(a, r).channel = None
        BY DEF NewCall, NoCall
      <3>3. call'[c] = NewCall(a, r) /\ \A d \in calls : call'[d] = call[d]
        BY <1>1, <3>1
      <3>4. Moved(p, "setBusy", a, c) /\ At(p, "create")
        BY <2>1, Fields DEF StartCreate
      <3> QED
        BY <3>1, <3>2, <3>3, <3>4 DEF CallsAfter, Moved
    <2>2. CASE UNCHANGED cmVars /\ proc[p].pc # "create"
      BY <2>2 DEF CallsAfter, At, cmVars
    <2>3. ASSUME NEW c, NEW s \in CallStates, UpdateCallState(c, s), proc[p].pc # "create"
          PROVE  CallsAfter(p)
      <3>1. c \in CallIDs
        BY <1>1, <2>3 DEF UpdateCallState
      <3> QED
        BY <1>1, <2>3, <3>1, UpdateFacts DEF CallsAfter, At
    <2>4. ASSUME NEW ch \in Channels, OriginateReply(p, ch)
          PROVE  CallsAfter(p)
      BY <1>1, <2>4 DEF OriginateReply, SetCallChannel, CallsAfter, At, CallRecord
    <2>5. CASE EndCallState(p)
      <3>1. proc[p].end \in CallStates
        BY <2>5, GoroutineFacts DEF EndCallState, At, EndPcs, TerminalStates, CallStates
      <3> QED
        BY <2>3, <2>5, <3>1 DEF EndCallState, At
    <2>6. CASE Dial(p)
      BY <2>3, <2>6 DEF Dial, At, CallStates
    <2>7. CASE EventStep(p)
      BY <2>2, <2>3, <2>7
      DEF EventStep, NoCallFound, HandleChannelCreated, HandleRing, HandleUp, HandleDown,
          HandleChannelDestroyed, Spawned, At, CallStates
    <2>8. CASE p \in Handlers /\ OriginateReplyNoId(p)
      BY <2>2, <2>8, NoIdBindsNothing DEF OriginateReplyNoId, At
    <2> QED
      BY <2>1, <2>2, <2>4, <2>5, <2>6, <2>7, <2>8
      DEF ProcStep, StateManagerStep, StartCallStep, EndCallStep, CleanupStep, CleanPcs,
          CheckAgent, CheckCall, SetBusy, CheckBusy, FreeAgent, CleanCalls,
          CleanAgent, Report, HandlerStep, SetCurrentAgent, Rejected, PlaceFails,
          EmulateIncomingCall, Originate, OriginateFails, SendStarted,
          SendSuccess, OverlappingWrite, At, CheckPcs, AfterCheck
  <1> QED
    BY <1>4, <1>5, <1>6

----------------------------------------------------------------------------
(* The agent of a scenario has no call yet. *)

Fresh(a) == AgentExists(a) /\ \A c \in calls : call[c].agentID # a

AgentsExist == \A c \in calls : AgentExists(call[c].agentID)

NewAgents ==
  /\ AgentsExist
  /\ \A p \in Handlers :
       /\ At(p, "registered") => Fresh(proc[p].agent)
       /\ InStart(p) => /\ IsAgentReady(proc[p].agent)
                        /\ kind = "basic" => Fresh(proc[p].agent)
  /\ \A msg \in inbox :
       /\ msg.name \in {"agentLogin", "agentChangeState"} => Fresh(currentAgent)
       /\ msg.name = "makeCall" /\ kind = "basic" =>
            Fresh(GetAgentID(msg.agent)) /\ IsAgentReady(GetAgentID(msg.agent))
  /\ \A r \in Requests :
       /\ AtScene(r, "agentLogin") /\ inbox = {} /\ HandlersIdle => Fresh(currentAgent)
       /\ AtScene(r, "agentChangeState") => Fresh(currentAgent)
       /\ AtScene(r, "makeCall") /\ kind = "basic" =>
            Fresh(currentAgent) /\ (inbox = {} => IsAgentReady(currentAgent))

\* The agent a, which is what an expression is now, has no call after the step.
FreshThen(a) ==
  a # None /\ agents'[a].state # "UNUSED" /\ \A c \in calls' : call'[c].agentID # a

\* Goroutines leave an agent without calls alone, but for the one that makes
\* its first.
LEMMA FreshKept ==
  ASSUME FlowInv, NEW p \in Procs, CallsAfter(p), AgentsAfter(p),
         NEW a, Fresh(a), a \in AgentIDs \cup {None},
         ~(At(p, "create") /\ proc[p].agent = a)
  PROVE  FreshThen(a) /\ agents'[a] = agents[a]
  <1>1. /\ proc[p].pc = "setBusy" => /\ proc[p].call \in calls
                                     /\ call[proc[p].call].agentID = proc[p].agent
        /\ proc[p].pc = "freeAgent" => proc[p].call \in calls
    BY GoroutineFacts DEF ProcOK, LocalSound, Latest, CallPcs, EndPcs
  <1>2. agents'[a] = agents[a]
    BY <1>1 DEF AgentsAfter, At, Fresh, AgentExists
  <1>3. \A c \in calls' : call'[c].agentID # a
    BY DEF CallsAfter, Fresh, FlowInv, CMInv, CMTypeOK
  <1> QED
    BY <1>2, <1>3 DEF Fresh, FreshThen, AgentExists

\* A goroutine takes a step.
LEMMA ProcNewAgents ==
  ASSUME SceneInv, Turns, NewAgents, NEW p \in Procs, ProcStep(p) \/ OverlappingWrite(p),
         MsgAgentIDs \subseteq MsgAgentIDs', UNCHANGED <<kind, scene, inbox>>
  PROVE  NewAgents'
  <1> USE DEF SceneInv
  <1>1. Walks(p)
    BY ProcMoves
  <1>2. CallsAfter(p) /\ AgentsAfter(p) /\ CurrentAfter(p)
    BY Effects DEF Turns, ScenesFit
  <1>3. ~AtRest(p) /\ OnlyBusy(p) /\ proc[p].pc # "idle"
    BY <1>1, Alone1 DEF Walks, GoesOn, AtRest, StartPcs
  <1>4. p \in Handlers \/ p \in EventProcs
    BY ProcKinds
  <1>5. p \notin Handlers => ~At(p, "create") /\ ~At(p, "registered")
    BY StartersAreHandlers, <1>4, GoroutineFacts, ProcKinds
    DEF At, ProcOK, LocalSound, EventPcs, EndPcs
  <1>6. ASSUME NEW a, Fresh(a), a \in AgentIDs \cup {None},
               ~(At(p, "create") /\ proc[p].agent = a)
        PROVE  FreshThen(a) /\ agents'[a] = agents[a]
    BY <1>2, <1>6, FreshKept
  <1>7. AgentsExist'
    <2>1. \A a \in AgentIDs : AgentExists(a) => AgentExists(a)'
      BY DEF MsgAgentIDs, AgentExists
    <2>2. At(p, "create") => p \in Handlers /\ proc[p].agent \in AgentIDs /\ AgentExists(proc[p].agent)
      BY StartersAreHandlers DEF At, StartPcs, NewAgents, InStart, IsAgentReady
    <2>3. \A c \in calls : call[c].agentID \in AgentIDs /\ AgentExists(call[c].agentID) /\ c \in CallIDs
      BY DEF NewAgents, AgentsExist, FlowInv, SharedOK, CallsHaveAgents, CMInv, CMTypeOK
    <2>4. CASE At(p, "create")
      <3>1. PICK c \in CallIDs : /\ calls' = calls \cup {c} /\ \A d \in calls : call'[d] = call[d]
                                 /\ call'[c].agentID = proc[p].agent
        BY <1>2, <2>4 DEF CallsAfter
      <3> QED
        BY <2>1, <2>2, <2>3, <2>4, <3>1 DEF AgentsExist
    <2>5. CASE ~At(p, "create")
      BY <1>2, <2>1, <2>3, <2>5 DEF CallsAfter, AgentsExist
    <2> QED
      BY <2>4, <2>5
  <1>8. ASSUME NEW q \in Handlers, q # p, ~At(q, "idle")
        PROVE  p \notin Handlers /\ kind # "outbound" /\ proc'[q] = proc[q]
    <2>1. q \in Procs
      BY ProcKinds
    <2>2. p \notin Handlers
      BY <1>3, <1>8 DEF OnlyBusy
    <2>3. kind # "outbound"
      BY <1>3, <1>8, <2>2 DEF OnlyBusy, HandlersIdle
    <2> QED
      BY <1>1, <1>8, <2>1, <2>2, <2>3 DEF Walks, Others, StartPcs
  <1>9. ASSUME NEW q \in Handlers, At(q, "registered")'
        PROVE  Fresh(proc[q].agent)'
    <2>1. q # p
      BY <1>1, <1>9 DEF Walks, GoesOn, At, StartPcs
    <2>2. q \in Procs /\ proc'[q] = proc[q]
      BY <1>1, <2>1, ProcKinds DEF Walks, Others, StartPcs
    <2>3. ~At(q, "idle") /\ At(q, "registered")
      BY <1>9, <2>2 DEF At
    <2>4. ~At(p, "create") /\ Fresh(proc[q].agent) /\ proc[q].agent \in AgentIDs
      BY <1>5, <1>8, <2>1, <2>2, <2>3, GoroutineFacts DEF NewAgents, At, ProcOK, LocalSound, AgentPcs
    <2>5. FreshThen(proc[q].agent)
      BY <1>6, <2>4
    <2> QED
      BY <2>2, <2>5 DEF Fresh, FreshThen, AgentExists
  <1>10. ASSUME NEW q \in Handlers, InStart(q)'
         PROVE  /\ IsAgentReady(proc[q].agent)'
                /\ (kind = "basic" => Fresh(proc[q].agent))'
    <2>1. CASE q = p
      <3>1. /\ InStart(p) /\ ~At(p, "create") /\ ~At(p, "setBusy") /\ ~At(p, "freeAgent")
            /\ proc'[p].agent = proc[p].agent
        BY <1>1, <1>10, <2>1 DEF Walks, GoesOn, InStart, At, StartPcs
      <3>2. agents' = agents /\ proc[p].agent \in AgentIDs
        BY <1>2, <3>1, StartersAreHandlers DEF AgentsAfter, InStart, StartPcs
      <3>3. /\ IsAgentReady(proc[p].agent)
            /\ kind = "basic" => Fresh(proc[p].agent)
        BY <2>1, <3>1 DEF NewAgents
      <3>4. kind = "basic" => FreshThen(proc[p].agent)
        BY <1>6, <3>1, <3>2, <3>3
      <3> QED
        BY <2>1, <3>1, <3>2, <3>3, <3>4 DEF IsAgentReady, Fresh, FreshThen, AgentExists
    <2>2. CASE q # p
      <3>1. q \in Procs /\ proc'[q] = proc[q]
        BY <1>1, <2>2, ProcKinds DEF Walks, Others, StartPcs
      <3>2. InStart(q) /\ ~At(q, "idle")
        BY <1>10, <3>1 DEF InStart, At
      <3>3. p \notin Handlers /\ kind # "outbound" /\ ~At(p, "create")
        BY <1>5, <1>8, <2>2, <3>2
      <3>4. kind = "basic"
        BY <3>3 DEF Turns, ScenesFit
      <3>5. Fresh(proc[q].agent) /\ IsAgentReady(proc[q].agent) /\ proc[q].agent \in AgentIDs
        BY <3>1, <3>2, <3>4, StartersAreHandlers DEF NewAgents, InStart, StartPcs
      <3>6. FreshThen(proc[q].agent) /\ agents'[proc[q].agent] = agents[proc[q].agent]
        BY <1>6, <3>3, <3>5
      <3> QED
        BY <3>1, <3>5, <3>6 DEF IsAgentReady, Fresh, FreshThen, AgentExists
    <2> QED
      BY <2>1, <2>2
  <1>11. ASSUME p \notin Handlers
         PROVE  /\ currentAgent' = currentAgent
                /\ Fresh(currentAgent) => /\ Fresh(currentAgent)'
                                          /\ IsAgentReady(currentAgent) => IsAgentReady(currentAgent)'
                /\ \A a \in AgentIDs \cup {None} :
                     Fresh(a) => FreshThen(a) /\ agents'[a] = agents[a]
    <2>1. currentAgent' = currentAgent /\ currentAgent \in AgentIDs \cup {None}
      BY <1>2, <1>5, <1>11 DEF CurrentAfter, FlowInv, FlowTypes
    <2>2. \A a \in AgentIDs \cup {None} : Fresh(a) => FreshThen(a) /\ agents'[a] = agents[a]
      BY <1>5, <1>6, <1>11
    <2>3. Fresh(currentAgent) =>
            FreshThen(currentAgent) /\ agents'[currentAgent] = agents[currentAgent]
      BY <2>1, <2>2
    <2> QED
      BY <2>1, <2>2, <2>3 DEF IsAgentReady, Fresh, FreshThen, AgentExists
  <1>12. ASSUME NEW msg \in inbox
         PROVE  /\ msg.name \in {"agentLogin", "agentChangeState"} => Fresh(currentAgent)'
                /\ msg.name = "makeCall" /\ kind = "basic" =>
                     Fresh(GetAgentID(msg.agent))' /\ IsAgentReady(GetAgentID(msg.agent))'
    <2>1. p \notin Handlers
      BY <1>3 DEF OnlyBusy
    <2>2. CASE msg.name \in {"agentLogin", "agentChangeState"}
      BY <1>11, <2>1, <2>2 DEF NewAgents
    <2>3. CASE msg.name = "makeCall" /\ kind = "basic"
      <3>1. Fresh(GetAgentID(msg.agent)) /\ IsAgentReady(GetAgentID(msg.agent))
        BY <2>3 DEF NewAgents
      <3>2. GetAgentID(msg.agent) \in AgentIDs \cup {None}
        BY MsgAgents DEF SceneInv
      <3>3. GetAgentID(msg.agent)' = GetAgentID(msg.agent)
        BY <1>11, <2>1 DEF GetAgentID
      <3>4. /\ FreshThen(GetAgentID(msg.agent))
            /\ agents'[GetAgentID(msg.agent)] = agents[GetAgentID(msg.agent)]
        BY <1>11, <2>1, <3>1, <3>2
      <3> QED
        BY <2>3, <3>1, <3>3, <3>4 DEF IsAgentReady, Fresh, FreshThen, AgentExists
    <2> QED
      BY <2>2, <2>3
  <1>13. ASSUME NEW r \in Requests
         PROVE  /\ AtScene(r, "agentLogin") /\ inbox = {} /\ HandlersIdle' => Fresh(currentAgent)'
                /\ AtScene(r, "agentChangeState") => Fresh(currentAgent)'
                /\ AtScene(r, "makeCall") /\ kind = "basic" =>
                     Fresh(currentAgent)' /\ (inbox = {} => IsAgentReady(currentAgent)')
    <2>1. CASE AtScene(r, "agentLogin")
      <3>1. Active(r) /\ ~AtScene(r, "agentChangeState") /\ ~AtScene(r, "makeCall")
        BY <2>1 DEF Active, Answered, AtScene
      <3>2. CASE p \in Handlers
        <4>1. At(p, "registered") /\ ~At(p, "create")
          BY <1>3, <3>1, <3>2 DEF OnlyBusy, At
        <4>2. /\ Fresh(proc[p].agent) /\ currentAgent' = proc[p].agent
              /\ proc[p].agent \in AgentIDs \cup {None}
          BY <1>2, <3>2, <4>1, GoroutineFacts DEF NewAgents, CurrentAfter
        <4>3. FreshThen(proc[p].agent)
          BY <1>6, <4>1, <4>2
        <4> QED
          BY <3>1, <4>2, <4>3 DEF Fresh, FreshThen, AgentExists
      <3>3. CASE p \notin Handlers
        <4>1. HandlersIdle' => HandlersIdle
          BY <1>1, <3>3, ProcKinds DEF HandlersIdle, Walks, Others, At, StartPcs
        <4> QED
          BY <1>11, <2>1, <3>1, <3>3, <4>1 DEF NewAgents
      <3> QED
        BY <3>2, <3>3
    <2>2. CASE AtScene(r, "agentChangeState") \/ AtScene(r, "makeCall")
      <3>1. Active(r) /\ ~AtScene(r, "agentLogin")
        BY <2>2 DEF Active, Answered, AtScene
      <3>2. p \notin Handlers
        BY <1>3, <3>1 DEF OnlyBusy
      <3> QED
        BY <1>11, <3>1, <3>2 DEF NewAgents
    <2> QED
      BY <2>1, <2>2
  <1> QED
    BY <1>7, <1>9, <1>10, <1>12, <1>13 DEF NewAgents, AtScene

\* A command is handled or refused.
LEMMA DeliverNewAgents ==
  ASSUME SceneInv, Turns, NewAgents, NEW p \in Handlers, NEW msg \in inbox, Deliver(p, msg)
  PROVE  NewAgents'
  <1>1. FlowInv /\ p \in Procs
    BY ProcKinds DEF SceneInv
  <1>2. /\ inbox = {msg} /\ HandlersIdle
        /\ \A r \in Requests : Active(r) => msg.name \in Awaited(scene[r])
    BY Alone2
  <1>3. inbox' = {} /\ UNCHANGED <<kind, scene>>
    BY <1>2 DEF Deliver
  <1>4. \A r \in Requests :
          /\ AtScene(r, "agentLogin") => msg.name = "agentRegister"
          /\ AtScene(r, "agentChangeState") => msg.name = "agentLogin"
          /\ AtScene(r, "makeCall") => msg.name = "agentChangeState"
    BY <1>2 DEF Active, Answered, Awaited, AtScene
  <1>5. /\ agents \in [AgentIDs -> AgentRecord] /\ currentAgent \in AgentIDs \cup {None}
        /\ \A c \in calls : call[c].agentID \in AgentIDs
        /\ None \notin AgentIDs
    BY <1>1, NoneIsFresh DEF FlowInv, FlowTypes, SharedOK, CallsHaveAgents
  <1>6. GetAgentID(None) = currentAgent
    BY DEF GetAgentID
  <1>7. ASSUME NEW a \in AgentIDs, AgentRegister(p, a), msg.name = "agentRegister"
        PROVE  NewAgents'
    <2>1. Moved(p, "registered", a, proc[p].call)
      BY <1>1, <1>7, Fields DEF AgentRegister
    <2>2. /\ agents[a].state = "UNUSED" /\ agents'[a].state = "REGISTERED"
          /\ \A b \in AgentIDs \ {a} : agents'[b] = agents[b]
          /\ UNCHANGED <<call, calls, currentAgent>>
      BY <1>5, <1>7 DEF AgentRegister, CreateAgent, cmVars, AgentRecord
    <2>3. \A c \in calls : call[c].agentID # a
      BY <2>2 DEF NewAgents, AgentsExist, AgentExists
    <2>4. Fresh(a)'
      BY <1>5, <2>2, <2>3 DEF Fresh, AgentExists
    <2>5. AgentsExist'
      BY <1>5, <2>2, <2>3 DEF NewAgents, AgentsExist, AgentExists
    <2>6. \A q \in Handlers \ {p} : proc'[q].pc = "idle"
      BY <1>2, <2>1, ProcKinds DEF HandlersIdle, Moved, Others, At
    <2>7. ~HandlersIdle' /\ proc'[p].pc = "registered" /\ proc'[p].agent = a
      BY <2>1 DEF HandlersIdle, Moved, At
    <2> QED
      BY <1>3, <1>4, <1>7, <2>4, <2>5, <2>6, <2>7 DEF NewAgents, At, InStart, AtScene
  <1>8. ASSUME NEW s \in {"LOGGED_IN", "READY"}, UpdateAgentState(currentAgent, s),
               msg.name = IF s = "READY" THEN "agentChangeState" ELSE "agentLogin",
               UNCHANGED <<call, calls, currentAgent, proc>>
        PROVE  NewAgents'
    <2>1. Fresh(currentAgent)
      BY <1>8 DEF NewAgents
    <2>2. /\ currentAgent \in AgentIDs /\ agents'[currentAgent].state = s
          /\ \A b \in AgentIDs \ {currentAgent} : agents'[b] = agents[b]
      BY <1>5, <1>8, <2>1 DEF UpdateAgentState, Fresh, AgentExists, AgentRecord
    <2>3. Fresh(currentAgent)' /\ (s = "READY" => IsAgentReady(currentAgent)')
      BY <1>8, <2>1, <2>2 DEF Fresh, AgentExists, IsAgentReady
    <2>4. AgentsExist'
      BY <1>5, <1>8, <2>2 DEF NewAgents, AgentsExist, AgentExists
    <2>5. \A q \in Handlers : proc'[q].pc = "idle"
      BY <1>2, <1>8 DEF HandlersIdle, At
    <2> QED
      BY <1>3, <1>4, <1>8, <2>3, <2>4, <2>5 DEF NewAgents, At, InStart, AtScene
  <1>9. CASE MakeCall(p, msg.agent) /\ msg.name = "makeCall"
    <2>0. PICK a : a = GetAgentID(msg.agent)
      OBVIOUS
    <2>1. Moved(p, "checkAgent", a, proc[p].call)
      BY <1>1, <1>9, <2>0, Fields DEF MakeCall
    <2>2. UNCHANGED <<call, calls, agents, currentAgent>> /\ IsAgentReady(a)
      BY <1>9, <2>0 DEF MakeCall, cmVars
    <2>3. kind = "basic" => Fresh(a)
      BY <1>9, <2>0 DEF NewAgents
    <2>4. \A q \in Handlers \ {p} : proc'[q].pc = "idle"
      BY <1>2, <2>1, ProcKinds DEF HandlersIdle, Moved, Others, At
    <2>5. proc'[p].agent = a /\ proc'[p].pc = "checkAgent"
      BY <2>1 DEF Moved
    <2>6. IsAgentReady(a)' /\ (kind = "basic" => Fresh(a)')
      BY <2>2, <2>3 DEF IsAgentReady, Fresh, AgentExists
    <2>7. AgentsExist'
      BY <2>2 DEF NewAgents, AgentsExist, AgentExists
    <2> QED
      BY <1>3, <1>4, <1>9, <2>4, <2>5, <2>6, <2>7 DEF NewAgents, At, InStart, AtScene
  <1>10. CASE Refuse(p, msg)
    <2>1. UNCHANGED <<call, calls, agents, proc>>
      BY <1>10 DEF Refuse, flowVars, smVars, cmVars
    <2>2. msg.name = "makeCall"
      BY <1>6, <1>10 DEF Refuse, NewAgents, Fresh
    <2>3. AgentsExist' /\ \A q \in Handlers : proc'[q].pc = "idle"
      BY <1>2, <2>1 DEF NewAgents, AgentsExist, AgentExists, HandlersIdle, At
    <2> QED
      BY <1>3, <1>4, <2>2, <2>3 DEF NewAgents, At, InStart, AtScene
  <1> QED
    BY <1>6, <1>7, <1>8, <1>9, <1>10
    DEF Deliver, Handle, AgentLogin, AgentChangeState, cmVars

\* A request takes a step.
LEMMA RequestNewAgents ==
  ASSUME SceneInv, scene \in [Requests -> ScenePcs], calm, Turns, NewAgents,
         NEW r \in Requests, NEW m \in MsgAgentIDs,
         \/ Request(r, m) \/ EnsureAgentReady(r) \/ GetCurrentAgentID(r)
         \/ SendCommand(r) \/ SendFails(r)
  PROVE  NewAgents'
  <1>1. UNCHANGED <<call, calls, agents, proc, currentAgent, kind>>
    BY DEF Request, EnsureAgentReady, GetCurrentAgentID, SendCommand, SendFails, flowVars, smVars,
       cmVars
  <1>2. /\ AgentsExist' /\ (HandlersIdle' <=> HandlersIdle)
        /\ \A p \in Handlers :
             /\ At(p, "registered")' => Fresh(proc[p].agent)'
             /\ InStart(p)' => /\ IsAgentReady(proc[p].agent)'
                               /\ (kind = "basic" => Fresh(proc[p].agent))'
        /\ Fresh(currentAgent)' <=> Fresh(currentAgent)
        /\ IsAgentReady(currentAgent)' <=> IsAgentReady(currentAgent)
        /\ \A msg : /\ Fresh(GetAgentID(msg.agent))' <=> Fresh(GetAgentID(msg.agent))
                    /\ IsAgentReady(GetAgentID(msg.agent))' <=> IsAgentReady(GetAgentID(msg.agent))
    BY <1>1
    DEF NewAgents, AgentsExist, Fresh, AgentExists, IsAgentReady, HandlersIdle, InStart, At,
        GetAgentID
  <1>3. \A q \in Requests \ {r} : scene'[q] = scene[q]
    BY DEF Request, EnsureAgentReady, GetCurrentAgentID, SendCommand, SendFails, GotoScene
  <1>4. CASE ~SendCommand(r)
    <2>1. inbox' = inbox
      BY <1>4 DEF Request, EnsureAgentReady, GetCurrentAgentID, SendFails
    <2>2. /\ scene'[r] \notin {"agentLogin", "agentChangeState"}
          /\ scene'[r] = "makeCall" => kind # "basic"
      <3>1. CASE GetCurrentAgentID(r)
        BY <3>1 DEF GetCurrentAgentID, GotoScene, AtScene, Turns, ScenesFit
      <3> QED
        BY <1>4, <3>1 DEF Request, EnsureAgentReady, SendFails, GotoScene
    <2> QED
      BY <1>1, <1>2, <1>3, <2>1, <2>2 DEF NewAgents, AtScene
  <1>5. CASE SendCommand(r)
    <2> DEFINE msg == [request |-> r, name |-> scene[r], agent |-> chosen[r].agent]
    <2>1. /\ inbox = {} /\ HandlersIdle /\ inbox' = {msg}
          /\ scene[r] \in SetupNames \cup {"makeCall"}
          /\ scene'[r] = AfterSending(scene[r])
      BY <1>5 DEF SendCommand, Settled, GotoScene, HandlersIdle
    <2>2. \A q \in Requests \ {r} : ~Active(q)
      BY <2>1 DEF Turns, RequestsInTurn, Active, Answered, SetupNames
    <2>3. \A q \in Requests \ {r} :
            scene'[q] \notin {"agentLogin", "agentChangeState", "makeCall"}
      BY <1>3, <2>2 DEF Active, Answered
    <2>4. /\ scene'[r] = "agentLogin" => scene[r] = "agentRegister"
          /\ scene'[r] = "agentChangeState" => scene[r] = "agentLogin"
          /\ scene'[r] = "makeCall" => scene[r] = "agentChangeState"
      BY <2>1 DEF AfterSending, SetupNames
    <2>5. /\ scene[r] \in {"agentLogin", "agentChangeState"} => Fresh(currentAgent)
          /\ scene[r] = "makeCall" /\ kind = "basic" =>
               Fresh(currentAgent) /\ IsAgentReady(currentAgent) /\ chosen[r].agent = None
      BY <2>1 DEF NewAgents, AtScene, Turns, ScenesFit
    <2>6. chosen[r].agent = None => GetAgentID(msg.agent) = currentAgent
      BY DEF GetAgentID
    <2>7. inbox' # {}
      BY <2>1
    <2>8. \A n \in inbox' :
            /\ n.name \in {"agentLogin", "agentChangeState"} => Fresh(currentAgent)'
            /\ n.name = "makeCall" /\ kind = "basic" =>
                 Fresh(GetAgentID(n.agent))' /\ IsAgentReady(GetAgentID(n.agent))'
      BY <1>2, <2>1, <2>5, <2>6
    <2>9. \A q \in Requests :
            /\ ~(AtScene(q, "agentLogin")' /\ inbox' = {})
            /\ AtScene(q, "agentChangeState")' => Fresh(currentAgent)'
            /\ AtScene(q, "makeCall")' /\ kind = "basic" => Fresh(currentAgent)'
      BY <1>2, <2>3, <2>4, <2>5, <2>7 DEF AtScene, NewAgents
    <2> QED
      BY <1>1, <1>2, <2>7, <2>8, <2>9 DEF NewAgents
  <1> QED
    BY <1>4, <1>5

\* Every step of a calm behaviour keeps the agents new.
LEMMA NewAgentsKept ==
  ASSUME SceneInv, scene \in [Requests -> ScenePcs], calm, Turns, NewAgents,
         [ScenarioNext]_scenarioVars
  PROVE  NewAgents'
  <1>1. FlowInv /\ None \in MsgAgentIDs
    BY DEF SceneInv, MsgAgentIDs
  <1>2. MsgAgentIDs \subseteq MsgAgentIDs'
    BY <1>1, FlowStep, AgentsStay
  <1>3. ASSUME NEW p \in Procs, ProcStep(p) \/ OverlappingWrite(p),
               UNCHANGED <<kind, scene, inbox>>
        PROVE  NewAgents'
    BY <1>2, <1>3, ProcNewAgents
  <1>4. ASSUME UNCHANGED <<call, calls, agents, currentAgent, kind, scene, inbox>>,
               \A p \in Handlers : proc'[p] = proc[p]
        PROVE  NewAgents'
    BY <1>4
    DEF NewAgents, AgentsExist, Fresh, AgentExists, IsAgentReady, HandlersIdle, InStart, At,
        GetAgentID, AtScene
  <1>5. ASSUME NEW ch \in Channels, NEW e \in EventTypes, ChannelEvent(ch, e),
               UNCHANGED <<kind, scene, inbox>>
        PROVE  NewAgents'
    <2>1. <<ch, e>> \in Procs /\ <<ch, e>> \notin Handlers /\ Handlers \subseteq Procs
      BY ProcKinds
    <2>2. Moved(<<ch, e>>, "spawned", proc[<<ch, e>>].agent, proc[<<ch, e>>].call)
      BY <1>1, <1>5, <2>1, Fields DEF ChannelEvent
    <2>3. \A p \in Handlers : proc'[p] = proc[p]
      BY <2>1, <2>2 DEF Moved, Others
    <2> QED
      BY <1>4, <1>5, <2>3 DEF ChannelEvent, cmVars
  <1>6. CASE UNCHANGED scenarioVars
    BY <1>4, <1>6 DEF scenarioVars, flowVars, smVars, cmVars
  <1> QED
    BY <1>1, <1>3, <1>5, <1>6, RequestNewAgents, DeliverNewAgents DEF ScenarioNext, FlowProceeds

----------------------------------------------------------------------------
(* The calls an agent had before. *)

\* Nothing will move the call any more.
Over(c) ==
  /\ call[c].state \in TerminalStates
  /\ call[c].channel # None => channel[call[c].channel].phase = "Destroyed"

LatestCall(c) == callsByAgent[call[c].agentID] = c

Opening(c) == \E p \in Handlers : At(p, "setBusy") /\ proc[p].call = c

PlacingPcs == {"setBusy", "process", "originate", "dial"}

OldCalls ==
  /\ \A c \in calls : ~Over(c) =>
       /\ LatestCall(c)
       /\ agents[call[c].agentID].state # "READY" \/ Opening(c)
  /\ \A p \in Handlers :
       proc[p].pc \in PlacingPcs => call[proc[p].call].state \notin TerminalStates
  /\ \A p \in Procs :
       /\ proc[p].pc \in EndPcs => LatestCall(proc[p].call)
       /\ proc[p].pc \in {"endAgent", "freeAgent"} => Over(proc[p].call)
       /\ At(p, "freeAgent") => agents[call[proc[p].call].agentID].state = "BUSY"
  /\ \A p \in EventProcs :
       Spawned(p, "Destroyed") /\ CallOf(p) # None => LatestCall(CallOf(p))

\* What there is to show of a step of the one goroutine that is at work.
LEMMA AloneOldCalls ==
  ASSUME Turns, kind = "outbound", NEW p \in Procs, OnlyBusy(p), Walks(p),
         NEW c, proc'[p].call = c,
         \A d \in calls' : ~Over(d)' =>
           /\ LatestCall(d)'
           /\ \/ agents'[call'[d].agentID].state # "READY"
              \/ p \in Handlers /\ proc'[p].pc = "setBusy" /\ d = c,
         p \in Handlers /\ proc'[p].pc \in PlacingPcs => call'[c].state \notin TerminalStates,
         proc'[p].pc \in EndPcs => LatestCall(c)',
         proc'[p].pc \in {"endAgent", "freeAgent"} => Over(c)',
         proc'[p].pc = "freeAgent" => agents'[call'[c].agentID].state = "BUSY"
  PROVE  OldCalls'
  <1>1. Procs = Handlers \cup EventProcs
    BY ProcKinds
  <1>2. \A q \in Procs \ {p} : proc'[q].pc \in {"idle", "done"}
    BY <1>1 DEF OnlyBusy, HandlersIdle, EventsAtRest, AtRest, At, Walks, Others, StartPcs
  <1>3. proc'[p].pc # "spawned"
    BY DEF Walks, GoesOn, StartPcs
  <1>4. \A d \in calls' : ~Over(d)' =>
          LatestCall(d)' /\ (agents'[call'[d].agentID].state # "READY" \/ Opening(d)')
    BY DEF Opening, At
  <1>5. \A q \in Handlers :
          proc'[q].pc \in PlacingPcs => call'[proc'[q].call].state \notin TerminalStates
    BY <1>1, <1>2 DEF PlacingPcs
  <1>6. \A q \in Procs :
          /\ proc'[q].pc \in EndPcs => q = p
          /\ proc'[q].pc \in {"endAgent", "freeAgent"} => q = p
    BY <1>2 DEF EndPcs
  <1>7. \A q \in Procs :
          /\ proc'[q].pc \in EndPcs => LatestCall(proc[q].call)'
          /\ proc'[q].pc \in {"endAgent", "freeAgent"} => Over(proc[q].call)'
          /\ At(q, "freeAgent")' => agents'[call'[proc'[q].call].agentID].state = "BUSY"
    BY <1>6 DEF LatestCall, Over, At
  <1>8. \A q \in EventProcs : ~At(q, "spawned")'
    BY <1>1, <1>2, <1>3 DEF At
  <1> QED
    BY <1>4, <1>5, <1>7, <1>8 DEF OldCalls, Spawned

\* A goroutine takes a step.
LEMMA ProcOldCalls ==
  ASSUME SceneInv, Turns, NewAgents, kind = "outbound", OldCalls,
         NEW p \in Procs, ProcStep(p) \/ OverlappingWrite(p)
  PROVE  OldCalls'
  <1> USE DEF SceneInv
  <1>1. Walks(p)
    BY ProcMoves
  <1>2. ~AtRest(p) /\ OnlyBusy(p) /\ proc[p].pc \notin CleanPcs
    BY <1>1, Alone1 DEF Walks, GoesOn, AtRest, Turns, ScenesFit, StartPcs
  <1>3. AgentsAfter(p) /\ CallsAfter(p)
    BY <1>2, Effects
  <1>4. /\ CMInv /\ calls \subseteq CallIDs /\ call \in [CallIDs -> CallRecord]
        /\ agents \in [AgentIDs -> AgentRecord] /\ callsByAgent \in [AgentIDs -> CallIDs \cup {None}]
        /\ channel \in [Channels -> [phase : Range(Phases), call : CallIDs \cup {None}]]
        /\ \A c \in calls : call[c].agentID \in AgentIDs
    BY DEF FlowInv, FlowTypes, CMInv, CMTypeOK, SharedOK, CallsHaveAgents
  <1>5. /\ proc[p].pc \in CallPcs => proc[p].call \in calls
        /\ p \in Handlers /\ proc[p].pc \in UnboundPcs => call[proc[p].call].channel = None
        /\ p \notin Handlers /\ proc[p].pc \in EndPcs =>
             call[proc[p].call].channel = p[1] /\ channel[p[1]].phase = "Destroyed"
        /\ proc[p].pc \in PlacingPcs \ {"setBusy"} => p \in Handlers
        /\ p \notin Handlers => p \in EventProcs /\ channel[p[1]].phase = p[2]
    BY <1>2, GoroutineFacts, ProcKinds
    DEF ProcOK, LocalSound, BoundOrNot, OnlyBusy, EventPcs, EndPcs, PlacingPcs
  <1>6. \A d \in calls : call[d].state \notin TerminalStates => ~Over(d)
    BY DEF Over
  <1>7. PICK c : c = proc'[p].call
    OBVIOUS
  <1>8. ASSUME UNCHANGED <<call, calls, callsByAgent, agents>>,
               \A ch \in Channels : channel'[ch].phase = "Destroyed" <=> channel[ch].phase = "Destroyed",
               proc[p].pc \notin {"create", "setBusy", "endCall"},
               proc[p].pc = "endAgent" /\ proc'[p].pc = "freeAgent" =>
                 agents[call[proc[p].call].agentID].state = "BUSY",
               proc[p].pc = "spawned" /\ proc'[p].pc = "endCall" =>
                 p \in EventProcs /\ Spawned(p, "Destroyed") /\ CallOf(p) # None /\ c = CallOf(p)
        PROVE  OldCalls'
    <2>1. \A d : LatestCall(d)' <=> LatestCall(d)
      BY <1>8 DEF LatestCall
    <2>2. \A d \in calls : Over(d)' <=> Over(d)
      BY <1>4, <1>8 DEF Over, CallRecord
    <2>3. \A d \in calls : ~Over(d) => LatestCall(d) /\ agents[call[d].agentID].state # "READY"
      <3>1. \A d : ~Opening(d)
        BY <1>2, <1>8, ProcKinds DEF Opening, OnlyBusy, HandlersIdle, At
      <3> QED
        BY <3>1 DEF OldCalls
    <2>4. p \in Handlers /\ proc'[p].pc \in PlacingPcs =>
            c = proc[p].call /\ call[c].state \notin TerminalStates
      BY <1>1, <1>7, <1>8 DEF Walks, GoesOn, PlacingPcs, OldCalls, StartPcs
    <2>5. proc'[p].pc \in EndPcs => LatestCall(c)
      <3>1. CASE proc[p].pc \in {"process", "originate"} /\ proc'[p].pc = "endCall"
        <4>1. c = proc[p].call /\ c \in calls /\ call[c].state \notin TerminalStates
          BY <1>1, <1>5, <1>7, <3>1 DEF Walks, CallPcs, OldCalls, PlacingPcs, StartPcs
        <4> QED
          BY <1>6, <2>3, <4>1
      <3>2. CASE proc[p].pc = "spawned" /\ proc'[p].pc = "endCall"
        BY <1>8, <3>2 DEF OldCalls
      <3>3. CASE proc[p].pc \in EndPcs /\ proc'[p].pc \in EndPcs
        BY <1>1, <1>7, <3>3 DEF Walks, OldCalls, EndPcs, StartPcs
      <3> QED
        BY <1>1, <3>1, <3>2, <3>3 DEF Walks, GoesOn, EndPcs, StartPcs
    <2>6. proc'[p].pc \in {"endAgent", "freeAgent"} =>
            /\ c = proc[p].call /\ c \in calls /\ Over(c)
            /\ proc[p].pc = "endAgent" /\ proc'[p].pc = "freeAgent"
      BY <1>1, <1>5, <1>7, <1>8 DEF Walks, GoesOn, OldCalls, CallPcs, EndPcs, StartPcs
    <2>7. /\ calls' = calls
          /\ \A d : agents'[call'[d].agentID].state = agents[call[d].agentID].state
          /\ \A d : call'[d].state = call[d].state
      BY <1>8
    <2> HIDE DEF SceneInv
    <2> QED
      BY <1>1, <1>2, <1>7, <1>8, <2>1, <2>2, <2>3, <2>4, <2>5, <2>6, <2>7, AloneOldCalls
  <1>9. ASSUME NEW u \in calls, NEW s \in CallStates, UpdateCallState(u, s),
               UNCHANGED <<agents, channel>>, ~Over(u)' => ~Over(u),
               proc[p].pc \in {"dial", "endCall", "spawned"},
               proc'[p].pc # "endCall",
               proc[p].pc = "endCall" => u = proc[p].call /\ s \in TerminalStates
        PROVE  OldCalls'
    <2>1. /\ UNCHANGED <<calls, callsByAgent>>
          /\ \A d \in CallIDs : d # u => call'[d] = call[d]
          /\ \A d \in CallIDs : /\ call'[d].agentID = call[d].agentID
                                /\ call'[d].channel = call[d].channel
          /\ call'[u].state = s
      <3>1. u \in CallIDs /\ call'[u].state = s
        BY <1>4, <1>9 DEF UpdateCallState, Updated, CallRecord
      <3> QED
        BY <1>4, <1>9, <3>1, UpdateFacts
    <2>2. \A d \in calls : /\ LatestCall(d)' <=> LatestCall(d)
                           /\ ~Over(d)' => ~Over(d)
                           /\ agents'[call'[d].agentID] = agents[call[d].agentID]
      BY <1>4, <1>9, <2>1 DEF LatestCall, Over
    <2>3. \A d \in calls : ~Over(d) => LatestCall(d) /\ agents[call[d].agentID].state # "READY"
      <3>1. \A d : ~Opening(d)
        BY <1>2, <1>9, ProcKinds DEF Opening, OnlyBusy, HandlersIdle, At
      <3> QED
        BY <3>1 DEF OldCalls
    <2>4. proc'[p].pc \in {"started", "endAgent", "done", "report"} /\
          (proc'[p].pc = "endAgent" => proc[p].pc = "endCall" /\ c = proc[p].call)
      BY <1>1, <1>7, <1>9 DEF Walks, GoesOn, StartPcs
    <2>5. proc'[p].pc = "endAgent" => LatestCall(c)' /\ Over(c)'
      <3>1. CASE proc[p].pc = "endCall" /\ c = proc[p].call
        <4>1. LatestCall(c) /\ c = u
          BY <1>9, <3>1 DEF OldCalls, EndPcs
        <4>2. call'[c].channel = call[c].channel /\ call'[c].state \in TerminalStates
          BY <1>4, <1>9, <2>1, <3>1, <4>1
        <4>3. call[c].channel = None \/ channel[call[c].channel].phase = "Destroyed"
          BY <1>5, <3>1 DEF EndPcs, UnboundPcs
        <4> QED
          BY <1>9, <2>2, <4>1, <4>2, <4>3 DEF Over
      <3> QED
        BY <2>4, <3>1
    <2> HIDE DEF SceneInv
    <2> QED
      BY <1>1, <1>2, <1>7, <2>1, <2>2, <2>3, <2>4, <2>5, AloneOldCalls DEF PlacingPcs, EndPcs
  <1>10. CASE At(p, "create")
    <2>1. /\ p \in Handlers /\ IsAgentReady(proc[p].agent) /\ proc[p].agent \in AgentIDs
          /\ \A q \in Handlers \ {p} : At(q, "idle")
      BY <1>2, <1>10, StartersAreHandlers DEF At, StartPcs, NewAgents, InStart, OnlyBusy
    <2>2. \A d \in calls : ~Opening(d)
      BY <1>10, <2>1 DEF Opening, At
    <2>3. \A d \in calls : ~Over(d) => LatestCall(d) /\ call[d].agentID # proc[p].agent
                                       /\ agents[call[d].agentID].state # "READY"
      BY <2>1, <2>2 DEF OldCalls, IsAgentReady
    <2>4. agents' = agents
      BY <1>3, <1>10 DEF AgentsAfter, At
    <2>5. /\ calls' = calls \cup {c} /\ c \notin calls /\ \A d \in calls : call'[d] = call[d]
          /\ call'[c].agentID = proc[p].agent /\ call'[c].state = "CREATED"
          /\ callsByAgent' = [callsByAgent EXCEPT ![proc[p].agent] = c]
          /\ channel' = channel /\ proc'[p].pc = "setBusy"
      <3>1. PICK n \in CallIDs, r \in RefIDs \cup {None} : StartCreate(p, n, r) /\ channel' = channel
        BY <1>1, <1>10
        DEF ProcStep, StateManagerStep, StartCallStep, EndCallStep, CleanupStep, Report,
            HandlerStep, EventStep, OverlappingWrite, CheckAgent, CheckCall, SetBusy, EndCallState,
            CheckBusy, FreeAgent, CleanCalls, CleanAgent, SetCurrentAgent, Rejected, PlaceFails,
            EmulateIncomingCall, Originate, OriginateReply, OriginateFails, Dial, SendStarted,
            SendSuccess, NoCallFound, HandleChannelCreated, HandleRing, HandleUp, HandleDown,
            HandleChannelDestroyed, Spawned, At, OriginateReplyNoId, CheckPcs, AfterCheck
      <3>2. Moved(p, "setBusy", proc[p].agent, n)
        BY <3>1, Fields DEF StartCreate
      <3>3. n = c /\ proc'[p].pc = "setBusy"
        BY <1>7, <3>2 DEF Moved
      <3>4. n \notin calls
        BY <3>1 DEF StartCreate, CreateCall, FlowInv, CMInv, UnusedClean
      <3>5. call' = [call EXCEPT ![n] = NewCall(proc[p].agent, r)] /\ calls' = calls \cup {n}
            /\ callsByAgent' = [callsByAgent EXCEPT ![proc[p].agent] = n]
        BY <3>1 DEF StartCreate, CreateCall
      <3>6. NewCall(proc[p].agent, r).agentID = proc[p].agent
            /\ NewCall(proc[p].agent, r).state = "CREATED"
        BY DEF NewCall, NoCall
      <3> QED
        BY <1>4, <3>1, <3>3, <3>4, <3>5, <3>6
    <2>6. \A d \in calls : ~Over(d)' => ~Over(d)
      BY <2>5 DEF Over
    <2>7. \A d \in calls : ~Over(d) => LatestCall(d)'
      BY <1>4, <2>3, <2>5 DEF LatestCall
    <2>8. LatestCall(c)'
      BY <1>4, <2>1, <2>5 DEF LatestCall
    <2>9. \A d \in calls' : ~Over(d)' =>
            /\ LatestCall(d)'
            /\ agents'[call'[d].agentID].state # "READY" \/ d = c
      BY <2>3, <2>4, <2>5, <2>6, <2>7, <2>8
    <2>10. call'[c].state \notin TerminalStates
      BY <2>5 DEF TerminalStates
    <2> HIDE DEF SceneInv
    <2> QED
      BY <1>1, <1>2, <1>7, <2>1, <2>5, <2>9, <2>10, AloneOldCalls DEF EndPcs
  <1>11. ASSUME UNCHANGED <<call, calls, callsByAgent, channel>>,
                At(p, "setBusy") \/ At(p, "freeAgent")
         PROVE  OldCalls'
    <2>1. \A d \in calls : (LatestCall(d)' <=> LatestCall(d)) /\ (Over(d)' <=> Over(d))
      BY <1>11 DEF LatestCall, Over
    <2>2. proc'[p].pc = IF At(p, "setBusy") THEN "process" ELSE "report"
      BY <1>1, <1>11 DEF Walks, GoesOn, At, StartPcs
    <2>3. c = proc[p].call /\ c \in calls
      BY <1>1, <1>5, <1>7, <1>11, <2>2 DEF Walks, At, CallPcs, EndPcs, StartPcs
    <2>4. ASSUME NEW d \in calls, ~Over(d)
          PROVE  LatestCall(d) /\ agents'[call[d].agentID].state # "READY"
      <3>1. LatestCall(d) /\ (agents[call[d].agentID].state # "READY" \/ Opening(d))
        BY <2>4 DEF OldCalls
      <3>2. CASE At(p, "setBusy")
        <4>1. p \in Handlers /\ proc[p].agent \in AgentIDs
          BY <3>2, StartersAreHandlers DEF At, StartPcs
        <4>2. Opening(d) => d = c /\ call[d].agentID = proc[p].agent
          BY <1>2, <2>3, <3>2, <4>1, GoroutineFacts DEF Opening, OnlyBusy, At, ProcOK, Latest
        <4> QED
          BY <1>3, <1>4, <3>1, <3>2, <4>1, <4>2 DEF AgentsAfter
      <3>3. CASE At(p, "freeAgent")
        <4>1. ~Opening(d)
          BY <1>2, <3>3, ProcKinds DEF Opening, OnlyBusy, HandlersIdle, At
        <4>2. LatestCall(c) /\ Over(c)
          BY <2>3, <3>3 DEF OldCalls, At, EndPcs
        <4>3. call[d].agentID # call[c].agentID
          BY <2>4, <3>1, <4>2 DEF LatestCall
        <4> QED
          BY <1>3, <1>4, <2>3, <3>1, <3>3, <4>1, <4>3 DEF AgentsAfter, At
      <3> QED
        BY <1>11, <3>2, <3>3
    <2>5. p \in Handlers /\ proc'[p].pc \in PlacingPcs => call[c].state \notin TerminalStates
      BY <2>2, <2>3 DEF OldCalls, At, PlacingPcs
    <2>6. proc'[p].pc \notin EndPcs
      BY <2>2 DEF EndPcs
    <2>7. \A d \in calls' : ~Over(d)' =>
            LatestCall(d)' /\ agents'[call'[d].agentID].state # "READY"
      BY <1>11, <2>1, <2>4
    <2> HIDE DEF SceneInv
    <2> QED
      BY <1>1, <1>2, <1>7, <1>11, <2>5, <2>6, <2>7, AloneOldCalls DEF EndPcs
  <1>12. ASSUME NEW ch \in Channels, OriginateReply(p, ch)
         PROVE  OldCalls'
    <2>1. /\ proc[p].pc = "originate" /\ p \in Handlers /\ proc'[p].pc = "dial"
          /\ UNCHANGED <<agents, channel>>
      BY <1>1, <1>5, <1>12 DEF OriginateReply, At, PlacingPcs, Walks, GoesOn, Goto, FlowInv, FlowTypes,
                               StartPcs
    <2>2. c = proc[p].call /\ c \in calls /\ call[c].state \notin TerminalStates
      BY <1>1, <1>5, <1>7, <2>1 DEF Walks, CallPcs, OldCalls, PlacingPcs, StartPcs
    <2>3. /\ UNCHANGED <<calls, callsByAgent>>
          /\ \A d \in CallIDs : /\ d # c => call'[d] = call[d]
                                /\ call'[d].agentID = call[d].agentID
                                /\ call'[d].state = call[d].state
      BY <1>4, <1>12, <2>2 DEF OriginateReply, SetCallChannel, CallRecord
    <2>4. \A d \in calls : (LatestCall(d)' <=> LatestCall(d)) /\ (~Over(d)' => ~Over(d))
      BY <1>4, <2>1, <2>2, <2>3 DEF LatestCall, Over
    <2>5. \A d : ~Opening(d)
      BY <1>2, <2>1 DEF Opening, OnlyBusy, At
    <2>6. \A d \in calls' : ~Over(d)' =>
            LatestCall(d)' /\ agents'[call'[d].agentID].state # "READY"
      BY <1>4, <2>1, <2>3, <2>4, <2>5 DEF OldCalls
    <2>7. call'[c].state \notin TerminalStates
      BY <1>4, <2>2, <2>3
    <2> HIDE DEF SceneInv
    <2> QED
      BY <1>1, <1>2, <1>7, <2>1, <2>6, <2>7, AloneOldCalls DEF EndPcs
  <1>13. CASE StateManagerStep(p) \/ OverlappingWrite(p)
    <2>1. CASE CheckAgent(p) \/ CheckCall(p)
      <3>1. UNCHANGED <<call, calls, callsByAgent, agents, channel>>
        BY <1>13, <2>1 DEF CheckAgent, CheckCall, cmVars, StateManagerStep, OverlappingWrite,
                           CheckPcs, AfterCheck
      <3> QED
        BY <1>8, <2>1, <3>1 DEF CheckAgent, CheckCall, At, CheckPcs, AfterCheck
    <2>2. CASE EndCallState(p)
      <3>1. /\ proc[p].call \in calls /\ proc[p].end \in TerminalStates /\ proc[p].pc = "endCall"
            /\ proc[p].call \in CallIDs
        BY <1>4, <1>5, <2>2, GoroutineFacts DEF EndCallState, At, EndPcs, CallPcs
      <3>2. UpdateCallState(proc[p].call, proc[p].end) /\ UNCHANGED <<agents, channel>>
        BY <1>13, <2>2 DEF EndCallState, StateManagerStep, OverlappingWrite
      <3>3. proc[p].end \in CallStates
        BY <3>1 DEF TerminalStates, CallStates
      <3>4. Over(proc[p].call)'
        <4>1. /\ call'[proc[p].call].state = proc[p].end
              /\ call'[proc[p].call].channel = call[proc[p].call].channel
          BY <1>4, <3>1, <3>2 DEF UpdateCallState, Updated, CallRecord
        <4>2. \/ call[proc[p].call].channel = None
              \/ channel[call[proc[p].call].channel].phase = "Destroyed"
          BY <1>5, <3>1 DEF EndPcs, UnboundPcs
        <4>3. PICK u : u = proc[p].call
          OBVIOUS
        <4>4. proc'[p].call = u
          BY <1>1, <3>1, <4>3 DEF Walks, GoesOn, StartPcs
        <4> QED
          BY <3>1, <3>2, <4>1, <4>2, <4>3, <4>4 DEF Over
      <3> QED
        BY <1>1, <1>9, <3>1, <3>2, <3>3, <3>4 DEF Walks, GoesOn, StartPcs
    <2>3. CASE CheckBusy(p)
      <3>1. UNCHANGED <<call, calls, callsByAgent, agents, channel>>
        BY <1>13, <2>3 DEF CheckBusy, cmVars, StateManagerStep, OverlappingWrite
      <3>2. proc'[p].pc = "freeAgent" => agents[call[proc[p].call].agentID].state = "BUSY"
        <4>1. Goto(p, "report") => Moved(p, "report", proc[p].agent, proc[p].call)
          BY Fields DEF Goto
        <4> QED
          BY <2>3, <4>1 DEF CheckBusy, Moved
      <3> QED
        BY <1>8, <2>3, <3>1, <3>2 DEF CheckBusy, At
    <2>4. ASSUME NEW w, SetBusy(p, w) \/ FreeAgent(p, w)
          PROVE  OldCalls'
      BY <1>11, <1>13, <2>4
      DEF SetBusy, FreeAgent, cmVars, StateManagerStep, OverlappingWrite
    <2> QED
      BY <1>2, <1>10, <1>13, <2>1, <2>2, <2>3, <2>4
      DEF StateManagerStep, StartCallStep, EndCallStep, CleanupStep, StartCreate, CleanCalls,
          CleanAgent, OverlappingWrite, At, CleanPcs
  <1>14. CASE Report(p)
    BY <1>8, <1>14 DEF Report, At, cmVars
  <1>15. CASE p \in Handlers /\ HandlerStep(p)
    <2>1. CASE Dial(p)
      <3>1. /\ proc[p].call \in calls /\ proc[p].pc = "dial" /\ ~Over(proc[p].call)
            /\ UpdateCallState(proc[p].call, "DIALING") /\ UNCHANGED <<agents, channel>>
        BY <1>5, <1>6, <1>15, <2>1 DEF Dial, At, CallPcs, PlacingPcs, OldCalls
      <3>2. proc'[p].pc # "endCall"
        BY <1>1, <3>1 DEF Walks, GoesOn, StartPcs
      <3> QED
        BY <1>9, <3>1, <3>2 DEF CallStates
    <2>2. CASE EmulateIncomingCall(p) \/ \E ch \in Channels : Originate(p, ch)
      <3>1. UNCHANGED <<call, calls, callsByAgent, agents>> /\ proc[p].pc = "process"
        BY <2>2 DEF EmulateIncomingCall, Originate, cmVars, At
      <3>2. \A ch \in Channels :
              channel'[ch].phase = "Destroyed" <=> channel[ch].phase = "Destroyed"
        BY <1>4, <2>2 DEF EmulateIncomingCall, Originate, NewChannel
      <3> QED
        BY <1>8, <3>1, <3>2
    <2>3. CASE OriginateReplyNoId(p)
      BY <1>8, <1>15, <2>3, NoIdBindsNothing DEF OriginateReplyNoId, At, cmVars
    <2> QED
      BY <1>8, <1>12, <1>15, <2>1, <2>2, <2>3
      DEF HandlerStep, SetCurrentAgent, Rejected, PlaceFails, OriginateFails, SendStarted,
          SendSuccess, cmVars, At
  <1>16. CASE p \in EventProcs /\ EventStep(p)
    <2>1. p \notin Handlers /\ proc[p].pc = "spawned"
      BY <1>16, ProcKinds
      DEF EventStep, NoCallFound, HandleChannelCreated, HandleRing, HandleUp, HandleDown,
          HandleChannelDestroyed, Spawned, At
    <2>2. CASE NoCallFound(p)
      <3>1. proc'[p].pc = "done"
        BY <2>2 DEF NoCallFound, Done, Idle, FlowInv, FlowTypes
      <3> QED
        BY <1>8, <2>1, <2>2, <3>1 DEF NoCallFound, cmVars
    <2>3. CASE HandleChannelDestroyed(p)
      <3>1. Spawned(p, "Destroyed") /\ CallOf(p) # None
        BY <2>3 DEF HandleChannelDestroyed
      <3>2. c = CallOf(p)
        <4> DEFINE e == IF call[CallOf(p)].state = "IN_PROGRESS" THEN "ENDED" ELSE "FAILED"
        <4>1. proc' = [proc EXCEPT ![p] = [@ EXCEPT !.pc = "endCall", !.call = CallOf(p), !.end = e]]
          BY <2>3 DEF HandleChannelDestroyed
        <4> HIDE DEF e
        <4>2. Moved(p, "endCall", proc[p].agent, CallOf(p))
          BY <4>1, Fields
        <4> QED
          BY <1>7, <4>2 DEF Moved
      <3> QED
        BY <1>8, <1>16, <2>1, <2>3, <3>1, <3>2 DEF HandleChannelDestroyed, cmVars
    <2>4. ASSUME NEW s \in CallStates, UpdateCallState(CallOf(p), s), CallOf(p) # None,
                 p[2] # "Destroyed", UNCHANGED <<agents, channel>>, proc'[p].pc # "endCall"
          PROVE  OldCalls'
      <3>1. PICK u : u = CallOf(p)
        OBVIOUS
      <3>2. u \in calls /\ ~Over(u)
        BY <1>5, <1>16, <2>1, <2>4, <3>1, EventFacts, NoneIsFresh DEF Over
      <3> QED
        BY <1>9, <2>1, <2>4, <3>1, <3>2
    <2>5. CASE HandleChannelCreated(p) \/ HandleRing(p)
      <3>1. proc'[p].pc = "done"
        BY <2>5 DEF HandleChannelCreated, HandleRing, Done, Idle, FlowInv, FlowTypes
      <3> QED
        BY <2>4, <2>5, <3>1 DEF HandleChannelCreated, HandleRing, Spawned, CallStates
    <2>6. CASE HandleUp(p) \/ HandleDown(p)
      <3>1. proc'[p].pc = "report"
        <4>1. CASE HandleUp(p)
          <5>1. proc' = [proc EXCEPT ![p].pc = "report", ![p].call = CallOf(p)]
            BY <4>1 DEF HandleUp
          <5>2. Moved(p, "report", proc[p].agent, CallOf(p))
            BY <5>1, Fields
          <5> QED
            BY <5>2 DEF Moved
        <4>2. CASE HandleDown(p)
          <5>1. proc' = [proc EXCEPT ![p] = [@ EXCEPT !.pc = "report", !.call = CallOf(p), !.end = "ENDED"]]
            BY <4>2 DEF HandleDown
          <5>2. Moved(p, "report", proc[p].agent, CallOf(p))
            BY <5>1, Fields
          <5> QED
            BY <5>2 DEF Moved
        <4> QED
          BY <2>6, <4>1, <4>2
      <3> QED
        BY <2>4, <2>6, <3>1 DEF HandleUp, HandleDown, Spawned, CallStates
    <2> QED
      BY <1>16, <2>2, <2>3, <2>5, <2>6 DEF EventStep
  <1> QED
    BY <1>13, <1>14, <1>15, <1>16 DEF ProcStep

\* No channel goes on from where it was destroyed.
LEMMA LastPhase ==
  ASSUME FlowInv, NEW ch \in Channels, NEW e \in EventTypes, ChannelEvent(ch, e)
  PROVE  channel[ch].phase # "Destroyed"
  <1>1. Rank("Destroyed") = 7
    <2>1. \A i \in DOMAIN Phases : Phases[i] = "Destroyed" <=> i = 7
      BY DEF Phases
    <2> QED
      BY <2>1 DEF Rank, Phases
  <1>2. Rank(e) \in 1..7 /\ Rank(channel[ch].phase) < Rank(e)
    BY RankFacts DEF ChannelEvent
  <1> QED
    BY <1>1, <1>2

\* What there is to show of a step no goroutine takes.
LEMMA QuietOldCalls ==
  ASSUME OldCalls, HandlersIdle, UNCHANGED <<call, calls, callsByAgent, callsByChannel>>,
         \A d \in calls : ~Over(d)' => ~Over(d),
         \A d \in calls : agents'[call[d].agentID].state = "READY"
                            => agents[call[d].agentID].state = "READY",
         \A q \in Procs : proc'[q].pc \notin PlacingPcs \cup EndPcs,
         \A q \in EventProcs :
           Spawned(q, "Destroyed")' /\ CallOf(q) # None => LatestCall(CallOf(q))
  PROVE  OldCalls'
  <1>1. \A d : ~Opening(d)
    BY DEF Opening, HandlersIdle, At
  <1>2. \A d : LatestCall(d)' <=> LatestCall(d)
    BY DEF LatestCall
  <1>3. \A d \in calls' : ~Over(d)' =>
          LatestCall(d)' /\ agents'[call'[d].agentID].state # "READY"
    BY <1>1, <1>2 DEF OldCalls
  <1>4. \A q \in EventProcs :
          Spawned(q, "Destroyed")' /\ CallOf(q)' # None => LatestCall(CallOf(q))'
    BY DEF CallOf, LatestCall
  <1>5. Handlers \subseteq Procs
    BY ProcKinds
  <1> QED
    BY <1>3, <1>4, <1>5 DEF OldCalls, EndPcs, At

\* Asterisk reports an event.
LEMMA ChannelOldCalls ==
  ASSUME FlowInv, OldCalls, Settled, kind = "outbound",
         NEW ch \in Channels, NEW e \in EventTypes, ChannelEvent(ch, e)
  PROVE  OldCalls'
  <1>1. HandlersIdle /\ EventsAtRest
    BY DEF Settled, HandlersIdle, EventsAtRest
  <1>2. PICK p : p = <<ch, e>>
    OBVIOUS
  <1>3. p \in Procs /\ p \in EventProcs /\ p[1] = ch /\ p[2] = e
    BY <1>2, ProcKinds
  <1>4. Moved(p, "spawned", proc[p].agent, proc[p].call)
    BY <1>2, <1>3, Fields DEF ChannelEvent
  <1>5. \A q \in Procs : proc'[q].pc \in {"idle", "done", "spawned"}
                         /\ (proc'[q].pc = "spawned" => q = p)
    BY <1>1, <1>4, ProcKinds DEF Moved, Others, HandlersIdle, EventsAtRest, AtRest, At
  <1>6. /\ UNCHANGED <<call, calls, callsByAgent, callsByChannel, agents>>
        /\ channel \in [Channels -> [phase : Range(Phases), call : CallIDs \cup {None}]]
        /\ channel' = [channel EXCEPT ![ch].phase = e]
        /\ call \in [CallIDs -> CallRecord] /\ calls \subseteq CallIDs
    BY DEF ChannelEvent, cmVars, FlowInv, FlowTypes, CMInv, CMTypeOK
  <1>7. \A d \in calls : ~Over(d)' => ~Over(d)
    BY <1>6, LastPhase DEF Over, CallRecord
  <1>8. \A q \in EventProcs :
          Spawned(q, "Destroyed")' /\ CallOf(q) # None => LatestCall(CallOf(q))
    <2> SUFFICES ASSUME NEW q \in EventProcs, Spawned(q, "Destroyed")', CallOf(q) # None
                 PROVE  LatestCall(CallOf(q))
      OBVIOUS
    <2>1. q = p
      BY <1>5, ProcKinds DEF Spawned, At
    <2>2. CallOf(p) \in calls /\ call[CallOf(p)].channel = ch
      BY <1>3, <2>1, EventFacts
    <2>3. ~Over(CallOf(p))
      BY <2>2, LastPhase, NoneIsFresh DEF Over
    <2> QED
      BY <2>1, <2>2, <2>3 DEF OldCalls
  <1>9. \A q \in Procs : proc'[q].pc \notin PlacingPcs \cup EndPcs
    BY <1>5 DEF PlacingPcs, EndPcs
  <1> QED
    BY <1>1, <1>6, <1>7, <1>8, <1>9, QuietOldCalls

\* A command is handled or refused.
LEMMA DeliverOldCalls ==
  ASSUME SceneInv, Turns, NewAgents, OldCalls, kind = "outbound",
         NEW p \in Handlers, NEW msg \in inbox, Deliver(p, msg)
  PROVE  OldCalls'
  <1>1. FlowInv /\ p \in Procs /\ p \notin EventProcs
    BY ProcKinds DEF SceneInv
  <1>2. HandlersIdle /\ EventsAtRest
    BY Alone2
  <1>3. /\ UNCHANGED <<call, calls, callsByAgent, callsByChannel, channel>>
        /\ agents \in [AgentIDs -> AgentRecord]
        /\ \A d \in calls : call[d].agentID \in AgentIDs
    BY <1>1
    DEF Deliver, Handle, Refuse, AgentRegister, AgentLogin, AgentChangeState, MakeCall, flowVars,
        smVars, cmVars, FlowInv, FlowTypes, SharedOK, CallsHaveAgents
  <1>4. Others(p) /\ proc'[p].pc \in {"idle", "registered", "checkAgent"}
    <2>1. CASE proc' = proc
      BY <1>2, <2>1 DEF Others, HandlersIdle, At
    <2>2. ASSUME NEW a \in AgentIDs, AgentRegister(p, a)
          PROVE  Moved(p, "registered", a, proc[p].call)
      BY <1>1, <2>2, Fields DEF AgentRegister
    <2>3. ASSUME NEW m, MakeCall(p, m)
          PROVE  Moved(p, "checkAgent", GetAgentID(m), proc[p].call)
      BY <1>1, <2>3, Fields DEF MakeCall
    <2> QED
      BY <2>1, <2>2, <2>3
      DEF Deliver, Handle, Refuse, AgentLogin, AgentChangeState, flowVars, smVars, Moved
  <1>5. \A d \in calls : agents'[call[d].agentID].state = "READY"
                           => agents[call[d].agentID].state = "READY"
    <2>1. CASE agents' = agents
      BY <2>1
    <2>2. ASSUME NEW a \in AgentIDs, CreateAgent(a)
          PROVE  \A d \in calls : agents'[call[d].agentID] = agents[call[d].agentID]
      BY <1>3, <2>2 DEF CreateAgent, NewAgents, AgentsExist, AgentExists
    <2>3. ASSUME UpdateAgentState(currentAgent, "LOGGED_IN")
          PROVE  \A d \in calls : agents'[call[d].agentID].state = "READY"
                                    => agents[call[d].agentID].state = "READY"
      BY <1>3, <2>3 DEF UpdateAgentState
    <2>4. ASSUME UpdateAgentState(currentAgent, "READY"), msg.name = "agentChangeState"
          PROVE  \A d \in calls : agents'[call[d].agentID] = agents[call[d].agentID]
      BY <1>3, <2>4 DEF UpdateAgentState, NewAgents, Fresh
    <2> QED
      BY <2>1, <2>2, <2>3, <2>4
      DEF Deliver, Handle, Refuse, AgentRegister, AgentLogin, AgentChangeState, MakeCall, flowVars,
          smVars, GetAgentID
  <1>6. \A q \in Procs : proc'[q].pc \in {"idle", "done", "registered", "checkAgent"}
    BY <1>2, <1>4, ProcKinds DEF Others, HandlersIdle, EventsAtRest, AtRest, At
  <1>7. /\ \A q \in Procs : proc'[q].pc \notin PlacingPcs \cup EndPcs
        /\ \A q \in EventProcs : ~Spawned(q, "Destroyed")'
    BY <1>6, ProcKinds DEF PlacingPcs, EndPcs, Spawned, At
  <1>8. \A d \in calls : ~Over(d)' => ~Over(d)
    BY <1>3 DEF Over
  <1> QED
    BY <1>2, <1>3, <1>5, <1>7, <1>8, QuietOldCalls

\* Every step of a calm behaviour keeps the calls over.
LEMMA OldCallsKept ==
  ASSUME SceneInv, calm, kind = "outbound", Turns, NewAgents, OldCalls,
         [ScenarioNext]_scenarioVars
  PROVE  OldCalls'
  <1>1. FlowInv
    BY DEF SceneInv
  <1>2. CASE FlowProceeds
    BY <1>1, <1>2, ProcOldCalls, ChannelOldCalls DEF FlowProceeds
  <1>3. CASE UNCHANGED flowVars
    BY <1>3 DEF flowVars, smVars, cmVars, OldCalls, Over, LatestCall, Opening, At, Spawned, CallOf
  <1> QED
    BY <1>2, <1>3, DeliverOldCalls
    DEF ScenarioNext, scenarioVars, Request, EnsureAgentReady, GetCurrentAgentID, SendCommand,
        SendFails

----------------------------------------------------------------------------
(* The agent a call is asked for. *)

\* No agent but one was ever registered, and no client chose it.
ClearSoFar ==
  \/ kind = "basic"
  \/ /\ \A a, b \in AgentIDs : AgentExists(a) /\ AgentExists(b) => a = b
     /\ \A r \in Requests : ~chosen[r].byClient

SomeReady == \E a \in AgentIDs : IsAgentReady(a)

Choices ==
  /\ \A r \in Requests :
       /\ AtScene(r, "idle") => ~chosen[r].byClient
       /\ AtScene(r, "choose") \/ (AtScene(r, "makeCall") /\ ~chosen[r].byClient)
            => inbox # {} \/ SomeReady
       /\ AtScene(r, "makeCall") => AgentExists(chosen[r].agent)
  /\ ClearSoFar => \A msg \in inbox :
       msg.name = "makeCall" => IsAgentReady(GetAgentID(msg.agent))

\* If the agent is clear, it was before.
LEMMA ClearStays ==
  ASSUME MsgAgentIDs \subseteq MsgAgentIDs', kind' = kind,
         \A r \in Requests : chosen[r].byClient => chosen'[r].byClient, ClearSoFar'
  PROVE  ClearSoFar
  <1>1. \A a \in AgentIDs : AgentExists(a) => AgentExists(a)'
    BY DEF MsgAgentIDs, AgentExists
  <1> QED
    BY <1>1 DEF ClearSoFar

\* A request takes a step.
LEMMA RequestChoices ==
  ASSUME SceneInv, scene \in [Requests -> ScenePcs], calm, Turns, NewAgents, Choices,
         kind = "outbound", NEW r \in Requests, NEW m \in MsgAgentIDs,
         \/ Request(r, m) \/ EnsureAgentReady(r) \/ GetCurrentAgentID(r)
         \/ SendCommand(r) \/ SendFails(r)
  PROVE  /\ Choices'
         /\ \A q \in Requests : chosen[q].byClient => chosen'[q].byClient
  <1>1. UNCHANGED <<agents, currentAgent, kind>> /\ None \notin AgentIDs
    BY NoneIsFresh
    DEF Request, EnsureAgentReady, GetCurrentAgentID, SendCommand, SendFails, flowVars, smVars
  <1>2. /\ \A q \in Requests \ {r} : scene'[q] = scene[q] /\ chosen'[q] = chosen[q]
        /\ scene[r] \in ScenePcs
        /\ chosen \in [Requests -> [agent : MsgAgentIDs, byClient : BOOLEAN]]
    BY DEF SceneInv, Request, EnsureAgentReady, GetCurrentAgentID, SendCommand, SendFails, GotoScene
  <1>3. /\ SomeReady' <=> SomeReady
        /\ \A a : (AgentExists(a)' <=> AgentExists(a)) /\ (IsAgentReady(a)' <=> IsAgentReady(a))
        /\ \A msg : GetAgentID(msg.agent)' = GetAgentID(msg.agent)
    BY <1>1 DEF SomeReady, IsAgentReady, AgentExists, GetAgentID
  <1>4. chosen[r].byClient => chosen'[r].byClient
    BY <1>2 DEF Choices, Request, EnsureAgentReady, GetCurrentAgentID, SendCommand, SendFails
  <1>5. \A q \in Requests : chosen[q].byClient => chosen'[q].byClient
    BY <1>2, <1>4
  <1>6. MsgAgentIDs \subseteq MsgAgentIDs'
    BY <1>3 DEF MsgAgentIDs
  <1>7. ClearSoFar' => ClearSoFar
    BY <1>1, <1>5, <1>6, ClearStays
  <1>8. \A q \in Requests \ {r} : \A pc : AtScene(q, pc)' <=> AtScene(q, pc)
    BY <1>2 DEF AtScene
  <1>9. CASE ~SendCommand(r)
    <2>1. inbox' = inbox
      BY <1>9 DEF Request, EnsureAgentReady, GetCurrentAgentID, SendFails
    <2>2. /\ AtScene(r, "idle")' => ~chosen'[r].byClient
          /\ AtScene(r, "choose")' \/ (AtScene(r, "makeCall")' /\ ~chosen'[r].byClient)
               => inbox # {} \/ SomeReady
          /\ AtScene(r, "makeCall")' => AgentExists(chosen'[r].agent)
      <3>1. CASE Request(r, m)
        <4>1. m # None => AgentExists(m)
          BY DEF MsgAgentIDs
        <4>2. chosen'[r].agent = m /\ chosen'[r].byClient = (m # None)
          BY <1>2, <3>1 DEF Request
        <4>3. scene'[r] = IF m = None THEN "ensure" ELSE "makeCall"
          BY <3>1 DEF SceneInv, Request, GotoScene
        <4> QED
          BY <4>1, <4>2, <4>3 DEF AtScene
      <3>2. CASE EnsureAgentReady(r)
        <4>1. scene'[r] \in {"choose", "agentRegister"} /\ (scene'[r] = "choose" => SomeReady)
          BY <1>1, <3>2 DEF EnsureAgentReady, GotoScene, SomeReady, IsAgentReady, AgentExists
        <4> QED
          BY <4>1 DEF AtScene
      <3>3. CASE GetCurrentAgentID(r)
        <4>1. scene'[r] = "makeCall" /\ (inbox # {} \/ SomeReady)
          BY <3>3 DEF GetCurrentAgentID, GotoScene, AtScene, Choices
        <4>2. \E b \in AgentIDs : AgentExists(b)
          <5>1. CASE SomeReady
            BY <5>1 DEF SomeReady, IsAgentReady
          <5>2. ASSUME NEW msg \in inbox
                PROVE  \E b \in AgentIDs : AgentExists(b)
            <6>1. Active(r) /\ msg.name = "agentChangeState"
              BY <3>3, Alone2 DEF GetCurrentAgentID, AtScene, Active, Answered, Awaited
            <6>2. AgentExists(currentAgent) /\ currentAgent \in AgentIDs \cup {None}
              BY <6>1 DEF NewAgents, Fresh, SceneInv, FlowInv, FlowTypes
            <6> QED
              BY <6>2 DEF AgentExists
          <5> QED
            BY <4>1, <5>1, <5>2
        <4>3. AgentExists(chosen'[r].agent)
          BY <1>2, <3>3, <4>2 DEF GetCurrentAgentID
        <4> QED
          BY <4>1, <4>3 DEF AtScene
      <3>4. CASE SendFails(r)
        BY <3>4 DEF SendFails, GotoScene, AtScene
      <3> QED
        BY <1>9, <3>1, <3>2, <3>3, <3>4
    <2>3. \A q \in Requests :
            /\ AtScene(q, "idle")' => ~chosen'[q].byClient
            /\ AtScene(q, "choose")' \/ (AtScene(q, "makeCall")' /\ ~chosen'[q].byClient)
                 => inbox # {} \/ SomeReady
            /\ AtScene(q, "makeCall")' => AgentExists(chosen'[q].agent)
      BY <1>2, <1>8, <2>2 DEF Choices
    <2>4. \A q \in Requests : AgentExists(chosen[q].agent)' <=> AgentExists(chosen'[q].agent)
      BY <1>1 DEF AgentExists
    <2> QED
      BY <1>3, <1>5, <1>7, <2>1, <2>3, <2>4 DEF Choices
  <1>10. CASE SendCommand(r)
    <2> DEFINE msg == [request |-> r, name |-> scene[r], agent |-> chosen[r].agent]
    <2>1. /\ inbox = {} /\ inbox' = {msg} /\ chosen' = chosen
          /\ scene[r] \in SetupNames \cup {"makeCall"}
          /\ scene'[r] = AfterSending(scene[r])
      BY <1>10 DEF SendCommand, Settled, GotoScene
    <2>2. scene'[r] \notin {"idle", "makeCall"}
      BY <2>1 DEF AfterSending, SetupNames
    <2>3. \A q \in Requests \ {r} : scene'[q] \notin {"choose", "makeCall"}
      <3>1. \A q \in Requests \ {r} : ~Active(q)
        BY <2>1 DEF Turns, RequestsInTurn, Active, Answered, SetupNames
      <3> QED
        BY <1>2, <3>1 DEF Active, Answered
    <2>4. ASSUME ClearSoFar, scene[r] = "makeCall"
          PROVE  IsAgentReady(chosen[r].agent) /\ chosen[r].agent # None
      <3>1. PICK a \in AgentIDs : IsAgentReady(a)
        BY <1>1, <2>1, <2>4 DEF Choices, AtScene, SomeReady, ClearSoFar
      <3>2. AgentExists(chosen[r].agent) /\ chosen[r].agent # None /\ chosen[r].agent \in AgentIDs
        BY <1>2, <2>4 DEF Choices, AtScene, AgentExists, MsgAgentIDs
      <3> QED
        BY <2>4, <3>1, <3>2 DEF IsAgentReady, ClearSoFar
    <2>5. ClearSoFar' => \A n \in inbox' :
            n.name = "makeCall" => IsAgentReady(GetAgentID(n.agent))'
      <3>1. GetAgentID(msg.agent) = IF chosen[r].agent # None THEN chosen[r].agent ELSE currentAgent
        BY DEF GetAgentID
      <3>2. ClearSoFar' /\ scene[r] = "makeCall" => IsAgentReady(GetAgentID(msg.agent))
        BY <1>7, <2>4, <3>1
      <3>3. \A n \in inbox' : n = msg
        BY <2>1
      <3>4. \A n : IsAgentReady(GetAgentID(n.agent))' <=> IsAgentReady(GetAgentID(n.agent))
        BY <1>1 DEF IsAgentReady, AgentExists, GetAgentID
      <3> QED
        BY <3>2, <3>3, <3>4
    <2>6. \A q \in Requests :
            /\ AtScene(q, "idle")' => ~chosen'[q].byClient
            /\ ~AtScene(q, "makeCall")'
      BY <1>8, <2>1, <2>2, <2>3 DEF AtScene, Choices
    <2>7. inbox' # {}
      BY <2>1
    <2> QED
      BY <1>5, <2>5, <2>6, <2>7 DEF Choices
  <1> QED
    BY <1>9, <1>10

\* A goroutine takes a step, or Asterisk does.
LEMMA FlowChoices ==
  ASSUME SceneInv, calm, Turns, OldCalls, Choices, kind = "outbound", FlowProceeds,
         MsgAgentIDs \subseteq MsgAgentIDs'
  PROVE  Choices'
  <1>1. UNCHANGED <<kind, scene, chosen, inbox>>
    BY DEF FlowProceeds
  <1>2. ClearSoFar' => ClearSoFar
    BY <1>1, ClearStays
  <1>3. \A a : AgentExists(a) /\ a \in AgentIDs \cup {None} => AgentExists(a)'
    BY DEF MsgAgentIDs, AgentExists
  <1>4. \A r \in Requests : chosen[r].agent \in AgentIDs \cup {None}
    BY DEF SceneInv, MsgAgentIDs
  <1>5. ASSUME SomeReady /\ inbox = {} =>
                 \A r \in Requests : AtScene(r, "choose") \/ AtScene(r, "makeCall") => SomeReady',
               inbox # {} => UNCHANGED <<agents, currentAgent>>
        PROVE  Choices'
    <2>1. \A r \in Requests : AgentExists(chosen[r].agent) => AgentExists(chosen[r].agent)'
      <3>1. \A r \in Requests : AgentExists(chosen[r].agent)' <=>
                                (chosen[r].agent # None /\ agents'[chosen[r].agent].state # "UNUSED")
        BY <1>1 DEF AgentExists
      <3>2. \A a : AgentExists(a)' <=> (a # None /\ agents'[a].state # "UNUSED")
        BY DEF AgentExists
      <3> QED
        BY <1>3, <1>4, <3>1, <3>2
    <2>2. ClearSoFar' => \A msg \in inbox :
            msg.name = "makeCall" => IsAgentReady(GetAgentID(msg.agent))'
      BY <1>2, <1>5 DEF Choices, IsAgentReady, AgentExists, GetAgentID
    <2> QED
      BY <1>1, <1>5, <2>1, <2>2 DEF Choices, AtScene
  <1>6. ASSUME NEW p \in Procs, ProcStep(p) \/ OverlappingWrite(p)
        PROVE  Choices'
    <2>1. Walks(p) /\ ~AtRest(p) /\ OnlyBusy(p)
      BY <1>6, ProcMoves, Alone1 DEF SceneInv, Walks, GoesOn, AtRest, StartPcs
    <2>2. AgentsAfter(p) /\ inbox = {}
      BY <1>6, <2>1, Effects DEF SceneInv, Turns, ScenesFit, OnlyBusy
    <2>3. ASSUME NEW r \in Requests, AtScene(r, "choose") \/ AtScene(r, "makeCall"), SomeReady
          PROVE  SomeReady'
      <3>1. Active(r) /\ ~AtScene(r, "agentLogin")
        BY <2>3 DEF Active, Answered, AtScene
      <3>2. p \notin Handlers
        BY <2>1, <3>1 DEF OnlyBusy
      <3>3. ~At(p, "setBusy")
        BY <3>2, StartersAreHandlers DEF At, StartPcs, SceneInv
      <3>4. PICK a \in AgentIDs : IsAgentReady(a)
        BY <2>3 DEF SomeReady
      <3>5. agents'[a] = agents[a]
        BY <2>2, <3>3, <3>4 DEF AgentsAfter, OldCalls, IsAgentReady
      <3> QED
        BY <3>4, <3>5 DEF SomeReady, IsAgentReady, AgentExists
    <2> QED
      BY <1>5, <2>2, <2>3
  <1>7. ASSUME NEW ch \in Channels, NEW e \in EventTypes, ChannelEvent(ch, e)
        PROVE  Choices'
    <2>1. UNCHANGED <<agents, currentAgent>>
      BY <1>7 DEF ChannelEvent
    <2>2. SomeReady' <=> SomeReady
      BY <2>1 DEF SomeReady, IsAgentReady, AgentExists
    <2> QED
      BY <1>5, <2>1, <2>2
  <1> QED
    BY <1>6, <1>7 DEF FlowProceeds

\* A command is handled or refused.
LEMMA DeliverChoices ==
  ASSUME SceneInv, calm, Turns, NewAgents, Choices, kind = "outbound",
         NEW p \in Handlers, NEW msg \in inbox, Deliver(p, msg),
         MsgAgentIDs \subseteq MsgAgentIDs'
  PROVE  Choices'
  <1>1. inbox = {msg} /\ \A r \in Requests : Active(r) => msg.name \in Awaited(scene[r])
    BY Alone2
  <1>2. inbox' = {} /\ UNCHANGED <<kind, scene, chosen>>
    BY <1>1 DEF Deliver
  <1>3. ASSUME NEW r \in Requests, AtScene(r, "choose") \/ AtScene(r, "makeCall")
        PROVE  SomeReady'
    <2>1. msg.name = "agentChangeState"
      BY <1>1, <1>3 DEF AtScene, Active, Answered, Awaited
    <2>2. Fresh(currentAgent) /\ GetAgentID(None) = currentAgent
          /\ currentAgent \in AgentIDs \cup {None}
      BY <2>1 DEF NewAgents, GetAgentID, SceneInv, FlowInv, FlowTypes
    <2>3. UpdateAgentState(currentAgent, "READY")
      BY <2>1, <2>2 DEF Deliver, Handle, Refuse, AgentChangeState, Fresh
    <2>4. currentAgent \in AgentIDs /\ agents'[currentAgent].state = "READY" /\ currentAgent # None
      BY <2>2, <2>3 DEF UpdateAgentState, AgentExists, SceneInv, FlowInv, FlowTypes, AgentRecord
    <2> QED
      BY <2>4 DEF SomeReady, IsAgentReady, AgentExists
  <1>4. \A r \in Requests : AgentExists(chosen[r].agent) => AgentExists(chosen[r].agent)'
    <2>1. \A r \in Requests : chosen[r].agent \in AgentIDs \cup {None}
      BY DEF SceneInv, MsgAgentIDs
    <2>2. \A a \in AgentIDs : AgentExists(a) => agents'[a].state # "UNUSED"
      BY DEF MsgAgentIDs, AgentExists
    <2> QED
      BY <1>2, <2>1, <2>2 DEF AgentExists
  <1> QED
    BY <1>2, <1>3, <1>4 DEF Choices, AtScene

\* Every step of a calm behaviour keeps the choices.
LEMMA ChoicesKept ==
  ASSUME SceneInv, scene \in [Requests -> ScenePcs], calm, kind = "outbound", Turns, NewAgents,
         OldCalls, Choices, [ScenarioNext]_scenarioVars
  PROVE  /\ Choices'
         /\ \A q \in Requests : chosen[q].byClient => chosen'[q].byClient
  <1>1. MsgAgentIDs \subseteq MsgAgentIDs' /\ None \in MsgAgentIDs
    BY FlowStep, AgentsStay DEF SceneInv, MsgAgentIDs
  <1>2. CASE FlowProceeds
    BY <1>1, <1>2, FlowChoices DEF FlowProceeds
  <1>3. ASSUME NEW p \in Handlers, NEW msg \in inbox, Deliver(p, msg)
        PROVE  Choices' /\ chosen' = chosen
    BY <1>1, <1>3, DeliverChoices DEF Deliver
  <1>4. CASE UNCHANGED scenarioVars
    BY <1>4
    DEF scenarioVars, flowVars, smVars, Choices, AtScene, SomeReady, IsAgentReady, AgentExists,
        GetAgentID, ClearSoFar
  <1> QED
    BY <1>1, <1>2, <1>3, <1>4, RequestChoices DEF ScenarioNext

----------------------------------------------------------------------------
(* The count loses nothing. *)

Counted == ClearSoFar => Started >= Cardinality(Succeeded)

CalmInv ==
  /\ Turns
  /\ NewAgents
  /\ kind = "outbound" => OldCalls /\ Choices
  /\ Counted
  /\ IsFiniteSet({a \in AgentIDs : AgentExists(a)})

\* StartCall is not refused: its agent is READY, and has no call that is active.
LEMMA NoRejection ==
  ASSUME SceneInv, Turns, NewAgents, kind = "outbound" => OldCalls,
         NEW p \in Procs, ProcStep(p) \/ OverlappingWrite(p)
  PROVE  proc'[p].pc # "rejected"
  <1> SUFFICES ASSUME proc'[p].pc = "rejected" PROVE FALSE
    OBVIOUS
  <1>1. FlowInv /\ Walks(p)
    BY ProcMoves DEF SceneInv
  <1>2. InStart(p) /\ ~AtRest(p) /\ ~At(p, "create") /\ ~At(p, "setBusy")
    BY <1>1 DEF Walks, GoesOn, InStart, AtRest, At, StartPcs
  <1>3. /\ p \in Handlers /\ proc[p].agent \in AgentIDs /\ IsAgentReady(proc[p].agent)
        /\ kind = "basic" => Fresh(proc[p].agent)
    BY <1>1, <1>2, StartersAreHandlers DEF InStart, StartPcs, NewAgents
  <1>4. CheckAgent(p) \/ CheckCall(p)
    BY <1>2
    DEF InStart, At, ProcStep, StateManagerStep, StartCallStep, EndCallStep, CleanupStep,
        StartCreate, SetBusy, EndCallState, CheckBusy, FreeAgent, CleanCalls, CleanAgent, Report,
        HandlerStep, SetCurrentAgent, Rejected, PlaceFails, EmulateIncomingCall, Originate,
        OriginateReply, OriginateFails, Dial, SendStarted, SendSuccess, EventStep, NoCallFound,
        HandleChannelCreated, HandleRing, HandleUp, HandleDown, HandleChannelDestroyed,
        OverlappingWrite, Spawned, OriginateReplyNoId
  <1>5. ASSUME NEW pc, Goto(p, pc)
        PROVE  pc = "rejected"
    <2>1. Moved(p, pc, proc[p].agent, proc[p].call)
      BY <1>1, <1>5, Fields DEF Goto
    <2> QED
      BY <2>1 DEF Moved
  <1>6. proc[p].pc \in CheckPcs /\ ActiveCall(p)
    <2>1. "checkCall" # "rejected" /\ AfterCheck(p) # "rejected"
      BY DEF AfterCheck
    <2> QED
      BY <1>3, <1>4, <1>5, <2>1 DEF CheckAgent, CheckCall
  <1>7. PICK d : /\ d = callsByAgent[proc[p].agent] /\ d \in calls
                 /\ call[d].agentID = proc[p].agent /\ call[d].state \in ActiveStates
    BY <1>1, <1>3, <1>6
    DEF ActiveCall, Compared, CheckPcs, ActiveStates, FlowInv, CMInv, IndexSound
  <1>8. kind = "outbound"
    BY <1>3, <1>7 DEF Fresh, Turns, ScenesFit
  <1>9. ~Over(d)
    BY <1>7 DEF Over, ActiveStates, TerminalStates
  <1>10. ~Opening(d)
    BY <1>1, <1>2, <1>3, Alone1 DEF Opening, OnlyBusy, At
  <1> QED
    BY <1>3, <1>7, <1>8, <1>9, <1>10 DEF OldCalls, IsAgentReady

\* Every step of a calm behaviour keeps the count.
LEMMA CountedKept ==
  ASSUME AnswerInv, calm, CalmInv, [ScenarioNext]_scenarioVars, ClearSoFar' => ClearSoFar
  PROVE  Counted'
  <1> SUFFICES ASSUME ClearSoFar' PROVE Started' >= Cardinality(Succeeded')
    BY DEF Counted
  <1>1. /\ SceneInv /\ FlowInv /\ scene \in [Requests -> ScenePcs] /\ AllFinite
        /\ Turns /\ NewAgents /\ (kind = "outbound" => OldCalls /\ Choices)
        /\ ClearSoFar /\ Started >= Cardinality(Succeeded)
    BY DEF AnswerInv, SceneInv, CalmInv, Counted
  <1>2. AllFinite'
    BY AnswerNextInv DEF AnswerInv
  <1>3. /\ Cardinality(CallsMade) \in Nat /\ Cardinality(Asked) \in Nat
        /\ Cardinality(Starters) \in Nat /\ Cardinality(Succeeded) \in Nat
        /\ Cardinality(CallsMade') \in Nat /\ Cardinality(Asked') \in Nat
        /\ Cardinality(Starters') \in Nat /\ Cardinality(Succeeded') \in Nat
    BY <1>1, <1>2, Counting DEF AllFinite
  <1> HIDE DEF AllFinite
  <1>4. ASSUME Succeeded' = Succeeded,
               Started' = Started
        PROVE  Started' >= Cardinality(Succeeded')
    BY <1>1, <1>4
  <1>5. ASSUME NEW r \in Requests, NEW m \in MsgAgentIDs,
               \/ Request(r, m) \/ EnsureAgentReady(r) \/ GetCurrentAgentID(r)
               \/ SendCommand(r) \/ SendFails(r)
        PROVE  Started' >= Cardinality(Succeeded')
    <2>1. CallsMade' = CallsMade /\ Starters' = Starters
      BY <1>1, <1>5, RequestCounts
    <2>2. CASE Asked' = Asked /\ Succeeded' = Succeeded
      BY <1>4, <2>1, <2>2 DEF Started
    <2>3. ASSUME NEW msg, SendCommand(r), Asked' = Asked \cup {msg},
                 Succeeded' = Succeeded \cup {r}, r \notin Succeeded
          PROVE  Started' >= Cardinality(Succeeded')
      <3>1. msg \notin Asked
        BY <2>3 DEF SendCommand, Settled, Asked
      <3>2. Cardinality(Asked') = Cardinality(Asked) + 1
            /\ Cardinality(Succeeded') = Cardinality(Succeeded) + 1
        BY <1>1, <2>3, <3>1, Counting DEF AllFinite
      <3> QED
        BY <1>1, <1>3, <2>1, <3>2 DEF Started
    <2> QED
      BY <1>1, <1>5, <2>2, <2>3, RequestCounts
  <1>6. ASSUME NEW p \in Handlers, NEW msg \in inbox, Deliver(p, msg)
        PROVE  Started' >= Cardinality(Succeeded')
    <2>1. Succeeded' = Succeeded /\ CallsMade' = CallsMade
      BY <1>1, <1>6, DeliverCounts DEF Deliver, Succeeded, AtScene
    <2>2. msg.name = "makeCall" => IsAgentReady(GetAgentID(msg.agent))
      BY <1>1 DEF NewAgents, Choices, Turns, ScenesFit
    <2>3. \/ Asked' = Asked /\ Starters' = Starters
          \/ OneIsTaken(Asked, Asked') /\ OneIsAdded(Starters, Starters')
      BY <1>1, <1>6, <2>2, DeliverCounts
    <2>4. Cardinality(Asked') + Cardinality(Starters') = Cardinality(Asked) + Cardinality(Starters)
      BY <1>1, <1>3, <2>3, AddedAndTaken DEF AllFinite
    <2> QED
      BY <1>3, <1>4, <2>1, <2>4 DEF Started
  <1>7. CASE FlowProceeds
    <2>1. Asked' = Asked /\ Succeeded' = Succeeded
      BY <1>7 DEF FlowProceeds, Asked, Succeeded, AtScene
    <2>2. \/ CallsMade' = CallsMade /\ Starters' = Starters
          \/ OneIsAdded(CallsMade, CallsMade') /\ OneIsTaken(Starters, Starters')
      BY <1>1, <1>7, StepCounts, NoRejection, EventCounts DEF FlowProceeds
    <2>3. Cardinality(CallsMade') + Cardinality(Starters')
            = Cardinality(CallsMade) + Cardinality(Starters)
      BY <1>1, <1>3, <2>2, AddedAndTaken DEF AllFinite
    <2> QED
      BY <1>3, <1>4, <2>1, <2>3 DEF Started
  <1>8. CASE UNCHANGED scenarioVars
    <2>1. /\ CallsMade' = CallsMade /\ Asked' = Asked /\ Starters' = Starters
          /\ Succeeded' = Succeeded
      BY <1>8
      DEF scenarioVars, flowVars, smVars, cmVars, CallsMade, Asked, Starters, InStart, Succeeded, AtScene
    <2> QED
      BY <1>4, <2>1 DEF Started
  <1>9. None \in MsgAgentIDs
    BY DEF MsgAgentIDs
  <1> QED
    BY <1>5, <1>6, <1>7, <1>8, <1>9 DEF ScenarioNext

\* One agent at most is registered by a step.
LEMMA OneAgentMore ==
  ASSUME SceneInv, Turns, [ScenarioNext]_scenarioVars
  PROVE  \E x : {a \in AgentIDs : AgentExists(a)}' \subseteq {a \in AgentIDs : AgentExists(a)} \cup {x}
  <1>1. FlowInv /\ agents \in [AgentIDs -> AgentRecord]
    BY DEF SceneInv, FlowInv, FlowTypes
  <1>2. ASSUME NEW x, \A b \in AgentIDs : b # x => agents'[b] = agents[b]
        PROVE  {a \in AgentIDs : AgentExists(a)}' \subseteq {a \in AgentIDs : AgentExists(a)} \cup {x}
    BY <1>2 DEF AgentExists
  <1>3. CASE agents' = agents
    BY <1>2, <1>3
  <1>4. ASSUME NEW p \in Procs, ProcStep(p) \/ OverlappingWrite(p)
        PROVE  \E x : \A b \in AgentIDs : b # x => agents'[b] = agents[b]
    BY <1>1, <1>4, Effects DEF AgentsAfter, Turns, ScenesFit
  <1>5. ASSUME NEW b, CreateAgent(b) \/ \E s \in AgentStates : UpdateAgentState(b, s)
        PROVE  \A d \in AgentIDs : d # b => agents'[d] = agents[d]
    BY <1>1, <1>5 DEF CreateAgent, UpdateAgentState
  <1>6. ASSUME NEW p \in Handlers, NEW msg \in inbox, Deliver(p, msg)
        PROVE  \E x : \A b \in AgentIDs : b # x => agents'[b] = agents[b]
    BY <1>5, <1>6
    DEF Deliver, Handle, Refuse, AgentRegister, AgentLogin, AgentChangeState, MakeCall, flowVars,
        smVars, AgentStates
  <1> QED
    BY <1>2, <1>3, <1>4, <1>6
    DEF ScenarioNext, scenarioVars, flowVars, smVars, Request, EnsureAgentReady, GetCurrentAgentID,
        SendCommand, SendFails, FlowProceeds, ChannelEvent

\* Every step of a calm behaviour keeps the invariant.
LEMMA CalmNextInv ==
  ASSUME AnswerInv, calm, CalmInv, [ScenarioNext]_scenarioVars
  PROVE  CalmInv'
  <1>1. /\ SceneInv /\ scene \in [Requests -> ScenePcs] /\ Turns /\ NewAgents
        /\ (kind = "outbound" => OldCalls /\ Choices)
    BY DEF AnswerInv, CalmInv
  <1>2. Turns' /\ NewAgents'
    BY <1>1, TurnsKept, NewAgentsKept
  <1>3. kind' = kind
    BY DEF ScenarioNext, scenarioVars, Request, EnsureAgentReady, GetCurrentAgentID, SendCommand,
       SendFails, Deliver, FlowProceeds
  <1>4. kind = "outbound" =>
          /\ OldCalls' /\ Choices'
          /\ \A q \in Requests : chosen[q].byClient => chosen'[q].byClient
    BY <1>1, OldCallsKept, ChoicesKept
  <1>5. ClearSoFar' => ClearSoFar
    <2>1. MsgAgentIDs \subseteq MsgAgentIDs'
      BY <1>1, FlowStep, AgentsStay DEF SceneInv
    <2>2. kind = "basic" \/ kind = "outbound"
      BY <1>1 DEF Turns, ScenesFit
    <2> QED
      BY <1>3, <1>4, <2>1, <2>2, ClearStays DEF ClearSoFar
  <1>6. Counted'
    BY <1>5, CountedKept
  <1>7. IsFiniteSet({a \in AgentIDs : AgentExists(a)}')
    <2>1. PICK x : {a \in AgentIDs : AgentExists(a)}' \subseteq {a \in AgentIDs : AgentExists(a)} \cup {x}
      BY <1>1, OneAgentMore
    <2>2. IsFiniteSet({a \in AgentIDs : AgentExists(a)} \cup {x})
      BY Counting DEF CalmInv
    <2> QED
      BY <2>1, <2>2, Counting
  <1> QED
    BY <1>2, <1>3, <1>4, <1>6, <1>7 DEF CalmInv

\* Nothing has happened.
LEMMA CalmInitInv == ScenarioInit => CalmInv
  <1> SUFFICES ASSUME ScenarioInit PROVE CalmInv
    OBVIOUS
  <1>1. /\ \A p \in Procs : proc[p].pc = "idle"
        /\ \A a \in AgentIDs : agents[a].state = "UNUSED"
        /\ calls = {} /\ inbox = {} /\ kind \in {"basic", "outbound"}
        /\ \A r \in Requests : scene[r] = "idle" /\ chosen[r] = [agent |-> None, byClient |-> FALSE]
    BY KindsAreScenarios DEF ScenarioInit, FlowInit, CMInit, AMInit, NoAgent, Idle
  <1>2. Handlers \subseteq Procs /\ EventProcs \subseteq Procs
    BY ProcKinds
  <1>3. Turns
    BY <1>1, <1>2
    DEF Turns, CommandsInTurn, EventsInTurn, RequestsInTurn, ScenesFit, HandlersIdle, EventsAtRest,
        At, AtRest, Active, CleanPcs, SetupNames
  <1>4. NewAgents
    BY <1>1, <1>2 DEF NewAgents, AgentsExist, At, InStart, AtScene
  <1>5. OldCalls /\ Choices
    BY <1>1, <1>2 DEF OldCalls, PlacingPcs, EndPcs, At, Spawned, Choices, AtScene
  <1>6. {a \in AgentIDs : AgentExists(a)} = {}
    BY <1>1 DEF AgentExists
  <1>7. Succeeded = {}
    BY <1>1 DEF Succeeded, AtScene
  <1>8. IsFiniteSet({}) /\ Cardinality({}) = 0
    BY FS_EmptySet
  <1>9. Started >= 0
    BY AnswerInitInv, Counting DEF AnswerInv, AllFinite, Started
  <1> QED
    BY <1>3, <1>4, <1>5, <1>6, <1>7, <1>8, <1>9 DEF CalmInv, Counted

\* A success is a call.
LEMMA SuccessCounted ==
  ASSUME AnswerInv, CalmInv, Settled, AgentIsClear
  PROVE  Cardinality(CallsMade) >= Cardinality(Succeeded)
  <1>1. Asked = {} /\ Starters = {}
    <2>1. \A p \in Procs : ~InStart(p)
      BY StartersAreHandlers DEF Settled, InStart, At, StartPcs, AnswerInv, SceneInv
    <2> QED
      BY <2>1 DEF Settled, Asked, Starters
  <1>2. ClearSoFar
    <2> DEFINE S == {a \in AgentIDs : AgentExists(a)}
    <2>1. ASSUME Cardinality(S) = 1, NEW a \in S, NEW b \in S
          PROVE  a = b
      <3>1. IsFiniteSet(S)
        BY DEF CalmInv
      <3> HIDE DEF S
      <3>2. Cardinality(S \ {a}) = 0 /\ IsFiniteSet(S \ {a})
        BY <2>1, <3>1, Counting
      <3>3. S \ {a} = {}
        BY <3>2, FS_EmptySet
      <3> QED
        BY <3>3
    <2> QED
      BY <2>1 DEF AgentIsClear, ClearSoFar
  <1>3. Cardinality(CallsMade) \in Nat
    BY Counting DEF AnswerInv, AllFinite
  <1>4. Cardinality({}) = 0
    BY FS_EmptySet
  <1> QED
    BY <1>1, <1>2, <1>3, <1>4 DEF CalmInv, Counted, Started

\* "Call initiated successfully": where the pauses suffice, every request that
\* was told so has had its call started once all commands have been handled.
THEOREM SuccessesAreCalls == ScenarioSpec => []SuccessMeansCall
  <1> DEFINE Inv == AnswerInv /\ (calm => CalmInv)
  <1>1. ScenarioInit => Inv
    BY AnswerInitInv, CalmInitInv
  <1>2. Inv /\ [ScenarioNext]_scenarioVars => Inv'
    <2>1. [ScenarioNext]_scenarioVars => calm' = calm
      BY DEF ScenarioNext, scenarioVars, Request, EnsureAgentReady, GetCurrentAgentID, SendCommand,
         SendFails, Deliver, FlowProceeds
    <2> QED
      BY <2>1, AnswerNextInv, CalmNextInv
  <1>3. Inv => SuccessMeansCall
    BY SuccessCounted DEF SuccessMeansCall, Succeeded
  <1> QED
    BY <1>1, <1>2, <1>3, PTL DEF ScenarioSpec
=============================================================================
