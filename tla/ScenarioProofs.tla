--------------------------- MODULE ScenarioProofs ---------------------------
(***************************************************************************)
(* Scenario implements CallFlow, for any sets of requests, agents, calls,  *)
(* channels and goroutines, so that what is proved of the flow is true of  *)
(* it.  A command on its way names an agent the registry keeps: an agent   *)
(* that is there stays there, whatever its state.                          *)
(*                                                                         *)
(* That a request which failed starts no call is shown by counting.  A     *)
(* request on its way to a call is a makeCall command in the inbox, then a *)
(* goroutine in StartCall, then a call: each step moves one from a set to  *)
(* the next or drops it, and only a request that is answered with a        *)
(* success adds one.                                                       *)
(***************************************************************************)
EXTENDS Scenario, ReadyLeaseProofs, FiniteSetTheorems

SceneInv ==
  /\ FlowInv
  /\ chosen \in [Requests -> [agent : MsgAgentIDs, byClient : BOOLEAN]]
  /\ \A msg \in inbox : msg.agent \in MsgAgentIDs

----------------------------------------------------------------------------
(* Goroutines on their way. *)

\* Where a goroutine goes from a pc.
GoesOn(from, to) ==
  \/ from = "registered" /\ to = "idle"
  \/ from = "checkAgent" /\ to \in {"checkCall", "rejected"}
  \/ from = "checkCall" /\ to \in {"checkRinging", "create", "rejected"}
  \/ from = "checkRinging" /\ to \in {"checkInProgress", "create", "rejected"}
  \/ from = "checkInProgress" /\ to \in {"create", "rejected"}
  \/ from = "rejected" /\ to = "idle"
  \/ from = "create" /\ to = "setBusy"
  \/ from = "setBusy" /\ to = "process"
  \/ from = "process" /\ to \in {"originate", "dial", "endCall"}
  \/ from = "originate" /\ to \in {"dial", "endCall"}
  \/ from = "dial" /\ to = "started"
  \/ from = "started" /\ to = "success"
  \/ from = "success" /\ to = "idle"
  \/ from = "spawned" /\ to \in {"done", "report", "endCall"}
  \/ from = "endCall" /\ to = "endAgent"
  \/ from = "endAgent" /\ to \in {"freeAgent", "report"}
  \/ from = "freeAgent" /\ to = "report"
  \/ from = "report" /\ to \in {"idle", "done"}
  \/ from = "cleanCalls" /\ to = "cleanAgent"
  \/ from = "cleanAgent" /\ to = "idle"

\* A goroutine moves on, and keeps what it goes on with.
Walks(p) ==
  /\ Others(p)
  /\ GoesOn(proc[p].pc, proc'[p].pc)
  /\ proc[p].pc \in StartPcs \ {"setBusy"} => proc'[p].agent = proc[p].agent
  /\ proc[p].pc \notin {"create", "spawned"} /\ proc'[p].pc \notin {"idle", "done"}
       => proc'[p].call = proc[p].call

\* A step of a goroutine takes it on and leaves the others where they are.
LEMMA ProcMoves ==
  ASSUME FlowInv, NEW p \in Procs, ProcStep(p) \/ OverlappingWrite(p)
  PROVE  Walks(p)
  <1>1. ASSUME NEW pc, NEW a, NEW c, Moved(p, pc, a, c), GoesOn(proc[p].pc, pc),
               proc[p].pc \in StartPcs \ {"setBusy"} => a = proc[p].agent,
               \/ c = proc[p].call
               \/ proc[p].pc \in {"create", "spawned"}
               \/ pc \in {"idle", "done"}
        PROVE  Walks(p)
    BY <1>1 DEF Walks, Moved, StartPcs
  <1>2. ASSUME NEW pc, GoesOn(proc[p].pc, pc), Goto(p, pc)
        PROVE  Walks(p)
    BY <1>1, <1>2, Fields DEF Goto
  <1>3. CASE StartCallStep(p) \/ SetBusy(p, "TORN")
    <2>1. CASE CheckAgent(p) \/ CheckCall(p)
      BY <1>2, <2>1 DEF CheckAgent, CheckCall, CheckPcs, AfterCheck, At, GoesOn
    <2>2. ASSUME NEW c \in CallIDs, NEW r \in RefIDs \cup {None}, StartCreate(p, c, r)
          PROVE  Walks(p)
      <3>1. Moved(p, "setBusy", proc[p].agent, c)
        BY <2>2, Fields DEF StartCreate
      <3> QED
        BY <1>1, <2>2, <3>1 DEF StartCreate, At, GoesOn
    <2>3. ASSUME NEW written, SetBusy(p, written)
          PROVE  Walks(p)
      <3>1. Moved(p, "process", None, proc[p].call)
        BY <2>3, Fields DEF SetBusy
      <3> QED
        BY <1>1, <2>3, <3>1 DEF SetBusy, At, GoesOn
    <2> QED
      BY <1>3, <2>1, <2>2, <2>3 DEF StartCallStep
  <1>4. CASE EndCallStep(p) \/ FreeAgent(p, "TORN")
    BY <1>2, <1>4 DEF EndCallStep, EndCallState, CheckBusy, FreeAgent, At, GoesOn
  <1>5. CASE CleanupStep(p)
    <2>1. CASE CleanCalls(p)
      BY <1>2, <2>1 DEF CleanCalls, At, GoesOn
    <2>2. CASE CleanAgent(p)
      <3>1. Moved(p, "idle", None, proc[p].call)
        BY <2>2, Fields DEF CleanAgent
      <3> QED
        BY <1>1, <2>2, <3>1 DEF CleanAgent, At, GoesOn, StartPcs
    <2> QED
      BY <1>5, <2>1, <2>2 DEF CleanupStep
  <1>6. CASE Report(p) \/ SetCurrentAgent(p) \/ Rejected(p) \/ SendSuccess(p) \/ NoCallFound(p)
             \/ HandleChannelCreated(p) \/ HandleRing(p)
    <2>1. \E pc \in {"idle", "done"} : /\ Moved(p, pc, None, None)
                                      /\ GoesOn(proc[p].pc, pc)
      BY <1>6, Fields
      DEF Report, SetCurrentAgent, Rejected, SendSuccess, NoCallFound, HandleChannelCreated,
          HandleRing, Spawned, Finish, At, GoesOn
    <2> QED
      BY <1>1, <2>1 DEF GoesOn, StartPcs
  <1>7. CASE PlaceFails(p) \/ OriginateFails(p)
    <2>1. Moved(p, "endCall", proc[p].agent, proc[p].call)
      BY <1>7, Fields DEF PlaceFails, OriginateFails, OriginateReplyNoId
    <2> QED
      BY <1>1, <1>7, <2>1 DEF PlaceFails, OriginateFails, At, GoesOn, OriginateReplyNoId
  <1>8. CASE EmulateIncomingCall(p) \/ Dial(p) \/ SendStarted(p) \/ OriginateReplyNoId(p)
             \/ \E ch \in Channels : Originate(p, ch) \/ OriginateReply(p, ch)
    BY <1>2, <1>8
    DEF EmulateIncomingCall, Dial, SendStarted, Originate, OriginateReply, OriginateReplyNoId, At,
        GoesOn
  <1>9. CASE HandleUp(p) \/ HandleDown(p) \/ HandleChannelDestroyed(p)
    <2>1. \E pc \in {"report", "endCall"} : Moved(p, pc, proc[p].agent, CallOf(p))
      <3>1. CASE HandleUp(p)
        <4>1. proc' = [proc EXCEPT ![p].pc = "report", ![p].call = CallOf(p)]
          BY <3>1 DEF HandleUp
        <4> QED
          BY <4>1, Fields
      <3>2. CASE HandleDown(p)
        <4>1. proc' = [proc EXCEPT ![p] = [@ EXCEPT !.pc = "report", !.call = CallOf(p), !.end = "ENDED"]]
          BY <3>2 DEF HandleDown
        <4> QED
          BY <4>1, Fields
      <3>3. CASE HandleChannelDestroyed(p)
        <4> DEFINE e == IF call[CallOf(p)].state = "IN_PROGRESS" THEN "ENDED" ELSE "FAILED"
        <4>1. proc' = [proc EXCEPT ![p] = [@ EXCEPT !.pc = "endCall", !.call = CallOf(p), !.end = e]]
          BY <3>3 DEF HandleChannelDestroyed
        <4> HIDE DEF e
        <4> QED
          BY <4>1, Fields
      <3> QED
        BY <1>9, <3>1, <3>2, <3>3
    <2>2. proc[p].pc = "spawned"
      BY <1>9 DEF HandleUp, HandleDown, HandleChannelDestroyed, Spawned, At
    <2> QED
      BY <1>1, <2>1, <2>2 DEF GoesOn
  <1> QED
    BY <1>3, <1>4, <1>5, <1>6, <1>7, <1>8, <1>9
    DEF ProcStep, StateManagerStep, HandlerStep, EventStep, OverlappingWrite

\* Only goroutines of commands start calls, and a goroutine in StartCall has
\* an agent.
LEMMA StartersAreHandlers ==
  ASSUME FlowInv, NEW p \in Procs, proc[p].pc \in StartPcs
  PROVE  p \in Handlers /\ proc[p].agent \in AgentIDs
  BY GoroutineFacts DEF ProcOK, LocalSound, EventPcs, EndPcs, StartPcs, AgentPcs

\* An agent that was registered is never deleted.
LEMMA AgentsStay ==
  ASSUME FlowInv, [FlowNext]_flowVars
  PROVE  MsgAgentIDs \subseteq MsgAgentIDs'
  <1> SUFFICES ASSUME NEW a \in AgentIDs, agents[a].state # "UNUSED"
               PROVE  agents'[a].state # "UNUSED"
    BY NoneIsFresh DEF MsgAgentIDs, AgentExists
  <1>1. agents \in [AgentIDs -> AgentRecord]
    BY DEF FlowInv, FlowTypes
  <1>2. \A b, s : s # "UNUSED" /\ UpdateAgentState(b, s) => agents'[a].state # "UNUSED"
    BY <1>1 DEF UpdateAgentState, AgentRecord
  <1>3. ASSUME NEW p \in Procs, NEW written \in {"BUSY", "READY", "TORN"},
               SetBusy(p, written) \/ FreeAgent(p, written)
        PROVE  agents'[a].state # "UNUSED"
    BY <1>1, <1>3 DEF SetBusy, FreeAgent
  <1>4. ASSUME NEW p \in Procs, StateManagerStep(p)
        PROVE  agents'[a].state # "UNUSED"
    <2>1. CASE CleanAgent(p)
      BY <1>1, <2>1 DEF CleanAgent, CleanupAgent
    <2> QED
      BY <1>3, <1>4, <2>1
      DEF StateManagerStep, StartCallStep, EndCallStep, CleanupStep, CheckAgent, CheckCall,
          StartCreate, EndCallState, CheckBusy, CleanCalls, CheckPcs, AfterCheck
  <1>5. ASSUME NEW p \in Procs, OverlappingWrite(p)
        PROVE  agents'[a].state # "UNUSED"
    BY <1>3, <1>5 DEF OverlappingWrite
  <1>6. ASSUME NEW p \in Handlers, Command(p)
        PROVE  agents'[a].state # "UNUSED"
    <2>1. CASE \E b \in AgentIDs : AgentRegister(p, b)
      BY <1>1, <2>1 DEF AgentRegister, CreateAgent, AgentRecord
    <2> QED
      BY <1>2, <1>6, <2>1 DEF Command, AgentLogin, AgentChangeState, AgentLogout, MakeCall
  <1>7. ASSUME NEW p \in Procs, Report(p) \/ (p \in Handlers /\ HandlerStep(p))
                                          \/ (p \in EventProcs /\ EventStep(p))
        PROVE  agents' = agents
    BY <1>7
    DEF Report, HandlerStep, SetCurrentAgent, Rejected, PlaceFails, EmulateIncomingCall, Originate,
        OriginateReply, OriginateFails, Dial, SendStarted, SendSuccess, EventStep, NoCallFound,
        HandleChannelCreated, HandleRing, HandleUp, HandleDown, HandleChannelDestroyed,
        OriginateReplyNoId
  <1>8. ASSUME NEW ch \in Channels, NEW e \in EventTypes, ChannelEvent(ch, e)
        PROVE  agents' = agents
    BY <1>8 DEF ChannelEvent
  <1>9. CASE UNCHANGED flowVars
    BY <1>9 DEF flowVars, smVars
  <1> QED
    BY <1>4, <1>5, <1>6, <1>7, <1>8, <1>9 DEF FlowNext, ProcStep

\* A scenario step is a step of the flow, or none.
LEMMA FlowStep ==
  ASSUME SceneInv, [ScenarioNext]_scenarioVars
  PROVE  [FlowNext]_flowVars
  <1>1. CASE UNCHANGED flowVars
    BY <1>1
  <1>2. ASSUME NEW p \in Handlers, NEW msg \in inbox, Handle(p, msg)
        PROVE  [FlowNext]_flowVars
    <2>1. None \in MsgAgentIDs /\ msg.agent \in MsgAgentIDs
      BY DEF MsgAgentIDs, SceneInv
    <2>2. Command(p)
      BY <1>2, <2>1 DEF Handle, Command
    <2> QED
      BY <2>2 DEF FlowNext
  <1>3. CASE FlowProceeds
    BY <1>3 DEF FlowProceeds, FlowNext
  <1> QED
    BY <1>1, <1>2, <1>3
    DEF ScenarioNext, scenarioVars, Request, EnsureAgentReady, GetCurrentAgentID, SendCommand,
        SendFails, Deliver, Refuse

\* Every step keeps the invariant.
LEMMA SceneNextInv ==
  ASSUME SceneInv, [ScenarioNext]_scenarioVars
  PROVE  SceneInv'
  <1>1. FlowInv' /\ MsgAgentIDs \subseteq MsgAgentIDs'
    BY FlowStep, FlowNextInv, AgentsStay DEF SceneInv
  <1>2. None \in MsgAgentIDs
    BY DEF MsgAgentIDs
  <1>3. chosen' \in [Requests -> [agent : MsgAgentIDs, byClient : BOOLEAN]]
    <2>1. ASSUME NEW r \in Requests, NEW m \in MsgAgentIDs, Request(r, m)
          PROVE  chosen' \in [Requests -> [agent : MsgAgentIDs, byClient : BOOLEAN]]
      BY <2>1 DEF Request, SceneInv
    <2>2. ASSUME NEW r \in Requests, GetCurrentAgentID(r)
          PROVE  chosen' \in [Requests -> [agent : MsgAgentIDs, byClient : BOOLEAN]]
      BY <1>2, <2>2 DEF GetCurrentAgentID, SceneInv, MsgAgentIDs
    <2>3. CASE chosen' = chosen
      BY <2>3 DEF SceneInv
    <2> QED
      BY <2>1, <2>2, <2>3
      DEF ScenarioNext, scenarioVars, EnsureAgentReady, SendCommand, SendFails, Deliver,
          FlowProceeds
  <1>4. \A msg \in inbox' : msg.agent \in MsgAgentIDs
    <2>1. ASSUME NEW r \in Requests, SendCommand(r)
          PROVE  \A msg \in inbox' : msg.agent \in MsgAgentIDs
      BY <2>1 DEF SendCommand, SceneInv
    <2>2. CASE inbox' \subseteq inbox
      BY <2>2 DEF SceneInv
    <2> QED
      BY <2>1, <2>2
      DEF ScenarioNext, scenarioVars, Request, EnsureAgentReady, GetCurrentAgentID, SendFails,
          Deliver, FlowProceeds
  <1> QED
    BY <1>1, <1>3, <1>4 DEF SceneInv

\* No command is on its way.
LEMMA SceneInitInv == ScenarioInit => SceneInv
  BY FlowInitInv DEF ScenarioInit, SceneInv, MsgAgentIDs

\* The scenarios touch agents and calls through the commands of the handlers.
THEOREM ScenarioImplementsFlow == ScenarioSpec => ImplementsFlow
  <1>1. ScenarioInit => FlowInit
    BY DEF ScenarioInit
  <1>2. SceneInv /\ [ScenarioNext]_scenarioVars => SceneInv'
    BY SceneNextInv
  <1>3. SceneInv /\ [ScenarioNext]_scenarioVars => [FlowNext]_flowVars
    BY FlowStep
  <1> QED
    BY SceneInitInv, <1>1, <1>2, <1>3, PTL DEF ScenarioSpec, ImplementsFlow, FlowSpec

\* Whatever requests run at once, one READY of an agent opens one call.
THEOREM ScenarioKeepsLease == ScenarioSpec => ReadyLeaseSpec
  BY ScenarioImplementsFlow, FlowImplementsLease DEF ImplementsFlow

\* Whatever requests run at once, an agent's CallID is the call its index
\* leads to outside StartCall.
THEOREM ScenarioKeepsIndex == ScenarioSpec => []CurrentCallIndexed
  BY ScenarioImplementsFlow, CurrentCallsIndexed DEF ImplementsFlow

----------------------------------------------------------------------------
(* What the answer to a request means. *)

\* The requests that were told of a success.
Succeeded == {r \in Requests : AtScene(r, "ok")}

\* The makeCall commands on their way, and the goroutines in StartCall that
\* have created no call yet.
Asked == {msg \in inbox : msg.name = "makeCall"}

InStart(p) ==
  proc[p].pc \in {"checkAgent", "checkCall", "checkRinging", "checkInProgress", "create"}

Starters == {p \in Procs : InStart(p)}

Started == Cardinality(CallsMade) + Cardinality(Asked) + Cardinality(Starters)

AllFinite ==
  /\ IsFiniteSet(CallsMade)
  /\ IsFiniteSet(Asked)
  /\ IsFiniteSet(Starters)
  /\ IsFiniteSet(Succeeded)

AnswerInv ==
  /\ SceneInv
  /\ scene \in [Requests -> ScenePcs]
  /\ AllFinite
  /\ Started <= Cardinality(Succeeded)

----------------------------------------------------------------------------
(* Counting. *)

\* Adding to and taking from a finite set, and a finite set's subset.
LEMMA Counting ==
  ASSUME NEW S, IsFiniteSet(S)
  PROVE  /\ Cardinality(S) \in Nat
         /\ \A x : IsFiniteSet(S \cup {x}) /\ Cardinality(S \cup {x}) =
                     IF x \in S THEN Cardinality(S) ELSE Cardinality(S) + 1
         /\ \A x : IsFiniteSet(S \ {x}) /\ Cardinality(S \ {x}) =
                     IF x \in S THEN Cardinality(S) - 1 ELSE Cardinality(S)
         /\ \A T \in SUBSET S : IsFiniteSet(T) /\ Cardinality(T) <= Cardinality(S)
  <1>1. Cardinality(S) \in Nat
    BY FS_CardinalityType
  <1>2. ASSUME NEW x
        PROVE  IsFiniteSet(S \cup {x}) /\ Cardinality(S \cup {x}) =
                 IF x \in S THEN Cardinality(S) ELSE Cardinality(S) + 1
    BY FS_AddElement
  <1>3. ASSUME NEW x
        PROVE  IsFiniteSet(S \ {x}) /\ Cardinality(S \ {x}) =
                 IF x \in S THEN Cardinality(S) - 1 ELSE Cardinality(S)
    BY FS_RemoveElement
  <1>4. ASSUME NEW T \in SUBSET S
        PROVE  IsFiniteSet(T) /\ Cardinality(T) <= Cardinality(S)
    BY FS_Subset
  <1> QED
    BY <1>1, <1>2, <1>3, <1>4

\* The steps of the count: nothing changes, one is dropped, one goes on, one
\* is added.
OneIsAdded(S, T) == \E x : x \notin S /\ T = S \cup {x}

OneIsTaken(S, T) == \E x \in S : T = S \ {x}

----------------------------------------------------------------------------
(* The calls that are made. *)

\* A call is made by the last of the goroutine's steps that start it.
LEMMA CallsMadeBy ==
  ASSUME FlowInv, NEW p \in Procs, ProcStep(p) \/ OverlappingWrite(p)
  PROVE  IF At(p, "create") THEN OneIsAdded(CallsMade, CallsMade')
                            ELSE CallsMade' = CallsMade
  <1> USE DEF At
  <1>1. CMInv /\ calls \subseteq CallIDs /\ call \in [CallIDs -> CallRecord]
    BY DEF FlowInv, CMInv, CMTypeOK
  <1>2. \A c \in calls : call[c].state # "UNUSED"
    BY <1>1 DEF CMInv, UnusedClean
  <1>3. (\A c \in CallIDs : call'[c].state = "UNUSED" <=> call[c].state = "UNUSED")
          => CallsMade' = CallsMade
    BY DEF CallsMade
  <1>4. ASSUME NEW c, NEW s \in CallStates, UpdateCallState(c, s)
        PROVE  CallsMade' = CallsMade
    <2>1. call'[c].state = s /\ \A d \in CallIDs \ {c} : call'[d] = call[d]
      BY <1>1, <1>4 DEF UpdateCallState, Updated, CallRecord
    <2>2. s # "UNUSED" /\ call[c].state # "UNUSED"
      BY <1>2, <1>4 DEF UpdateCallState, CallStates
    <2> QED
      BY <1>3, <2>1, <2>2
  <1>5. ASSUME NEW c, NEW ch, SetCallChannel(c, ch)
        PROVE  CallsMade' = CallsMade
    BY <1>1, <1>3, <1>5 DEF SetCallChannel, CallRecord
  <1>6. ASSUME NEW a, CleanupCallsForAgent(a)
        PROVE  CallsMade' = CallsMade
    <2> SUFFICES ASSUME NEW c \in CallIDs
                 PROVE  call'[c].state = "UNUSED" <=> call[c].state = "UNUSED"
      BY <1>3
    <2>1. CASE c \in calls
      BY <1>1, <1>2, <1>6, <2>1 DEF CleanupCallsForAgent, CallRecord
    <2>2. CASE c \notin calls
      BY <1>6, <2>2 DEF CleanupCallsForAgent
    <2> QED
      BY <2>1, <2>2
  <1>7. CASE UNCHANGED cmVars /\ proc[p].pc # "create"
    BY <1>3, <1>7 DEF cmVars
  <1>8. ASSUME NEW c \in CallIDs, NEW r, StartCreate(p, c, r)
        PROVE  At(p, "create") /\ OneIsAdded(CallsMade, CallsMade')
    <2>1. call[c].state = "UNUSED" /\ call' = [call EXCEPT ![c] = NewCall(proc[p].agent, r)]
      BY <1>8 DEF StartCreate, CreateCall
    <2>2. NewCall(proc[p].agent, r).state = "CREATED"
      BY DEF NewCall, NoCall
    <2>3. CallsMade' = CallsMade \cup {c} /\ c \notin CallsMade
      BY <1>1, <2>1, <2>2 DEF CallsMade
    <2> QED
      BY <1>8, <2>3 DEF StartCreate, OneIsAdded
  <1>9. CASE StateManagerStep(p)
    <2>1. CASE EndCallState(p)
      <3>1. proc[p].end \in CallStates
        BY <2>1, GoroutineFacts DEF EndCallState, EndPcs, TerminalStates, CallStates
      <3> QED
        BY <1>4, <2>1, <3>1 DEF EndCallState
    <2>2. CASE CleanCalls(p)
      BY <1>6, <2>2 DEF CleanCalls
    <2> QED
      BY <1>7, <1>8, <1>9, <2>1, <2>2
      DEF StateManagerStep, StartCallStep, EndCallStep, CleanupStep, CheckAgent, CheckCall, SetBusy,
          CheckBusy, FreeAgent, CleanAgent, CheckPcs, AfterCheck
  <1>10. CASE HandlerStep(p)
    <2>1. CASE Dial(p)
      BY <1>4, <2>1 DEF Dial, CallStates
    <2>2. CASE \E ch \in Channels : OriginateReply(p, ch)
      BY <1>5, <2>2 DEF OriginateReply
    <2>3. CASE OriginateReplyNoId(p)
      BY <1>5, <2>3 DEF OriginateReplyNoId
    <2> QED
      BY <1>7, <1>10, <2>1, <2>2, <2>3
      DEF HandlerStep, SetCurrentAgent, Rejected, PlaceFails, EmulateIncomingCall, Originate,
          OriginateFails, SendStarted, SendSuccess, OriginateReplyNoId
  <1>11. CASE EventStep(p)
    BY <1>4, <1>7, <1>11
    DEF EventStep, Spawned, NoCallFound, HandleChannelCreated, HandleRing, HandleUp, HandleDown,
        HandleChannelDestroyed, CallStates
  <1>12. CASE Report(p) \/ OverlappingWrite(p)
    BY <1>7, <1>12 DEF Report, OverlappingWrite, SetBusy, FreeAgent
  <1> QED
    BY <1>9, <1>10, <1>11, <1>12 DEF ProcStep

\* What a step of a goroutine does to the count.
LEMMA StepCounts ==
  ASSUME FlowInv, NEW p \in Procs, ProcStep(p) \/ OverlappingWrite(p)
  PROVE  \/ CallsMade' = CallsMade /\ Starters' = Starters
         \/ /\ CallsMade' = CallsMade
            /\ OneIsTaken(Starters, Starters')
            /\ proc'[p].pc = "rejected"
         \/ OneIsAdded(CallsMade, CallsMade') /\ OneIsTaken(Starters, Starters')
  <1>1. Walks(p)
    BY ProcMoves
  <1>2. InStart(p)' => InStart(p)
    BY <1>1 DEF Walks, GoesOn, InStart, StartPcs
  <1>3. Starters' = IF InStart(p)' THEN Starters ELSE Starters \ {p}
    BY <1>1, <1>2 DEF Walks, Others, Starters, InStart, StartPcs
  <1>4. CASE ~InStart(p)
    <2>1. Starters' = Starters
      BY <1>2, <1>3, <1>4 DEF Starters
    <2> QED
      BY <1>4, <2>1, CallsMadeBy DEF InStart, At
  <1>5. CASE InStart(p) /\ InStart(p)'
    <2>1. ~At(p, "create")
      BY <1>1, <1>5 DEF Walks, GoesOn, InStart, At, StartPcs
    <2> QED
      BY <1>3, <1>5, <2>1, CallsMadeBy
  <1>6. CASE InStart(p) /\ ~InStart(p)'
    <2>1. OneIsTaken(Starters, Starters')
      BY <1>3, <1>6 DEF OneIsTaken, Starters
    <2>2. At(p, "create") \/ proc'[p].pc = "rejected"
      BY <1>1, <1>6 DEF Walks, GoesOn, InStart, At, StartPcs
    <2>3. At(p, "create") => proc'[p].pc # "rejected"
      BY <1>1 DEF Walks, GoesOn, At, StartPcs
    <2> QED
      BY <2>1, <2>2, <2>3, CallsMadeBy
  <1> QED
    BY <1>4, <1>5, <1>6

\* An event does nothing to the count.
LEMMA EventCounts ==
  ASSUME FlowInv, NEW ch \in Channels, NEW e \in EventTypes, ChannelEvent(ch, e)
  PROVE  CallsMade' = CallsMade /\ Starters' = Starters
  <1>1. <<ch, e>> \in Procs /\ Moved(<<ch, e>>, "spawned", proc[<<ch, e>>].agent, proc[<<ch, e>>].call)
    BY ProcKinds, Fields DEF ChannelEvent
  <1>2. <<ch, e>> \notin Handlers
    BY ProcKinds
  <1>3. ~InStart(<<ch, e>>)
    BY <1>1, <1>2, StartersAreHandlers DEF InStart, StartPcs
  <1> QED
    BY <1>1, <1>3 DEF Moved, Others, Starters, InStart, ChannelEvent, cmVars, CallsMade

\* What the handling of a command does to the count.
LEMMA DeliverCounts ==
  ASSUME SceneInv, NEW p \in Handlers, NEW msg \in inbox, Deliver(p, msg)
  PROVE  /\ CallsMade' = CallsMade
         /\ IF msg.name = "makeCall" THEN OneIsTaken(Asked, Asked') ELSE Asked' = Asked
         /\ \/ Starters' = Starters /\ msg.name # "makeCall"
            \/ /\ Starters' = Starters
               /\ msg.name = "makeCall" /\ ~IsAgentReady(GetAgentID(msg.agent))
            \/ /\ OneIsAdded(Starters, Starters')
               /\ msg.name = "makeCall" /\ MakeCall(p, msg.agent)
  <1>1. inbox' = inbox \ {msg} /\ FlowInv /\ p \in Procs
    BY ProcKinds DEF Deliver, SceneInv
  <1>2. IF msg.name = "makeCall" THEN OneIsTaken(Asked, Asked') ELSE Asked' = Asked
    BY <1>1 DEF Asked, OneIsTaken
  <1>3. CallsMade' = CallsMade
    BY DEF Deliver, Handle, Refuse, AgentRegister, AgentLogin, AgentChangeState, MakeCall, cmVars,
       flowVars, smVars, CallsMade
  <1>4. CASE Refuse(p, msg)
    <2>1. Starters' = Starters
      BY <1>4 DEF Refuse, flowVars, smVars, Starters, InStart
    <2> QED
      BY <1>2, <1>3, <1>4, <2>1 DEF Refuse
  <1>5. CASE Handle(p, msg) /\ msg.name # "makeCall"
    <2>1. CASE proc' = proc
      <3>1. Starters' = Starters
        BY <2>1 DEF Starters, InStart
      <3> QED
        BY <1>2, <1>3, <1>5, <3>1
    <2>2. ASSUME NEW a \in AgentIDs, AgentRegister(p, a)
          PROVE  Starters' = Starters
      <3>1. Moved(p, "registered", a, proc[p].call)
        BY <1>1, <2>2, Fields DEF AgentRegister
      <3> QED
        BY <2>2, <3>1 DEF Moved, Others, AgentRegister, At, Starters, InStart
    <2> QED
      BY <1>2, <1>3, <1>5, <2>1, <2>2 DEF Handle, AgentLogin, AgentChangeState
  <1>6. CASE Handle(p, msg) /\ msg.name = "makeCall"
    <2>1. MakeCall(p, msg.agent)
      BY <1>6 DEF Handle
    <2>2. Moved(p, "checkAgent", GetAgentID(msg.agent), proc[p].call)
      BY <1>1, <2>1, Fields DEF MakeCall
    <2>3. Starters' = Starters \cup {p} /\ p \notin Starters
      BY <1>1, <2>1, <2>2 DEF Moved, Others, MakeCall, At, Starters, InStart
    <2> QED
      BY <1>2, <1>3, <1>6, <2>1, <2>3 DEF OneIsAdded
  <1> QED
    BY <1>4, <1>5, <1>6 DEF Deliver

\* What a step of a request does to the count: the last command it sends is
\* the one that asks for the call.
LEMMA RequestCounts ==
  ASSUME scene \in [Requests -> ScenePcs], NEW r \in Requests, NEW m,
         \/ Request(r, m) \/ EnsureAgentReady(r) \/ GetCurrentAgentID(r)
         \/ SendCommand(r) \/ SendFails(r)
  PROVE  /\ CallsMade' = CallsMade /\ Starters' = Starters
         /\ scene' \in [Requests -> ScenePcs]
         /\ \/ Asked' = Asked /\ Succeeded' = Succeeded
            \/ /\ Succeeded' = Succeeded \cup {r} /\ r \notin Succeeded
               /\ AtScene(r, "makeCall") /\ SendCommand(r)
               /\ Asked' = Asked \cup
                    {[request |-> r, name |-> "makeCall", agent |-> chosen[r].agent]}
  <1>1. UNCHANGED flowVars
    BY DEF Request, EnsureAgentReady, GetCurrentAgentID, SendCommand, SendFails
  <1>2. CallsMade' = CallsMade /\ Starters' = Starters
    BY <1>1 DEF flowVars, smVars, cmVars, CallsMade, Starters, InStart
  <1>3. ASSUME NEW pc \in ScenePcs, GotoScene(r, pc)
        PROVE  /\ scene' \in [Requests -> ScenePcs]
               /\ pc # "ok" /\ scene[r] # "ok" => Succeeded' = Succeeded
               /\ pc = "ok" => Succeeded' = Succeeded \cup {r}
    BY <1>3 DEF GotoScene, Succeeded, AtScene
  <1>4. CASE Request(r, m)
    <2>1. PICK pc \in {"agentRegister", "ensure", "makeCall"} : GotoScene(r, pc)
      BY <1>4 DEF Request
    <2> QED
      BY <1>2, <1>3, <1>4, <2>1 DEF Request, AtScene, Asked, ScenePcs, SetupNames
  <1>5. CASE EnsureAgentReady(r)
    <2>1. PICK pc \in {"agentRegister", "choose"} : GotoScene(r, pc)
      BY <1>5 DEF EnsureAgentReady
    <2> QED
      BY <1>2, <1>3, <1>5, <2>1 DEF EnsureAgentReady, AtScene, Asked, ScenePcs, SetupNames
  <1>6. CASE GetCurrentAgentID(r)
    BY <1>2, <1>3, <1>6 DEF GetCurrentAgentID, AtScene, Asked, ScenePcs
  <1>7. CASE SendFails(r)
    BY <1>2, <1>3, <1>7 DEF SendFails, SetupNames, Asked, ScenePcs, Answered
  <1>8. CASE SendCommand(r)
    <2> DEFINE sentMsg == [request |-> r, name |-> scene[r], agent |-> chosen[r].agent]
    <2>1. inbox' = inbox \cup {sentMsg} /\ GotoScene(r, AfterSending(scene[r]))
      BY <1>8 DEF SendCommand
    <2>2. CASE scene[r] = "makeCall"
      <3>1. AfterSending(scene[r]) = "ok"
        BY <2>2 DEF AfterSending
      <3>2. Asked' = Asked \cup {sentMsg}
        BY <2>1, <2>2 DEF Asked
      <3> QED
        BY <1>2, <1>3, <1>8, <2>1, <2>2, <3>1, <3>2
        DEF ScenePcs, Answered, Succeeded, AtScene
    <2>3. CASE scene[r] \in SetupNames
      <3>1. AfterSending(scene[r]) \in {"agentLogin", "agentChangeState", "makeCall", "choose"}
        BY <2>3 DEF AfterSending, SetupNames
      <3>2. Asked' = Asked
        BY <2>1, <2>3 DEF Asked, SetupNames
      <3> QED
        BY <1>2, <1>3, <2>1, <2>3, <3>1, <3>2 DEF ScenePcs, SetupNames
    <2> QED
      BY <1>8, <2>2, <2>3 DEF SendCommand
  <1> QED
    BY <1>4, <1>5, <1>6, <1>7, <1>8

----------------------------------------------------------------------------
(* A request that failed. *)

\* The sets that are counted stay finite, and what was added is counted.
LEMMA AddedAndTaken ==
  ASSUME NEW S, NEW T, IsFiniteSet(S)
  PROVE  /\ Cardinality(S) \in Nat
         /\ T = S => IsFiniteSet(T) /\ Cardinality(T) = Cardinality(S)
         /\ OneIsAdded(S, T) => IsFiniteSet(T) /\ Cardinality(T) = Cardinality(S) + 1
         /\ OneIsTaken(S, T) => IsFiniteSet(T) /\ Cardinality(T) = Cardinality(S) - 1
         /\ \A x : T = S \cup {x} => IsFiniteSet(T) /\ Cardinality(T) <= Cardinality(S) + 1
  BY Counting DEF OneIsAdded, OneIsTaken

\* Every step keeps the count.
LEMMA AnswerNextInv ==
  ASSUME AnswerInv, [ScenarioNext]_scenarioVars
  PROVE  AnswerInv'
  <1> USE DEF AnswerInv
  <1>1. SceneInv' /\ FlowInv
    BY SceneNextInv DEF SceneInv
  <1> DEFINE Keeps(S) == IsFiniteSet(S)' /\ Cardinality(S') = Cardinality(S)
  <1>2. /\ CallsMade' = CallsMade => Keeps(CallsMade)
        /\ Asked' = Asked => Keeps(Asked)
        /\ Starters' = Starters => Keeps(Starters)
        /\ Succeeded' = Succeeded => Keeps(Succeeded)
    BY DEF AllFinite
  <1>3. ASSUME scene' \in [Requests -> ScenePcs], AllFinite',
               Started' <= Cardinality(Succeeded')
        PROVE  AnswerInv'
    BY <1>1, <1>3
  <1>4. /\ Cardinality(CallsMade) \in Nat /\ Cardinality(Asked) \in Nat
        /\ Cardinality(Starters) \in Nat /\ Cardinality(Succeeded) \in Nat
    BY Counting DEF AllFinite
  <1>5. ASSUME NEW r \in Requests, NEW m \in MsgAgentIDs,
               \/ Request(r, m) \/ EnsureAgentReady(r) \/ GetCurrentAgentID(r)
               \/ SendCommand(r) \/ SendFails(r)
        PROVE  AnswerInv'
    <2>1. CASE Asked' = Asked /\ Succeeded' = Succeeded
      <3>1. CallsMade' = CallsMade /\ Starters' = Starters /\ scene' \in [Requests -> ScenePcs]
        BY <1>5, RequestCounts
      <3> QED
        BY <1>2, <1>3, <2>1, <3>1 DEF AllFinite, Started
    <2>2. ASSUME NEW msg, Asked' = Asked \cup {msg}, Succeeded' = Succeeded \cup {r},
                 r \notin Succeeded
          PROVE  AnswerInv'
      <3>1. CallsMade' = CallsMade /\ Starters' = Starters /\ scene' \in [Requests -> ScenePcs]
        BY <1>5, RequestCounts
      <3>2. IsFiniteSet(Asked') /\ Cardinality(Asked') <= Cardinality(Asked) + 1
        BY <2>2, AddedAndTaken DEF AllFinite
      <3>3. IsFiniteSet(Succeeded') /\ Cardinality(Succeeded') = Cardinality(Succeeded) + 1
        BY <2>2, Counting DEF AllFinite
      <3>4. Cardinality(Asked') \in Nat
        BY <3>2, Counting
      <3> QED
        BY <1>2, <1>3, <1>4, <3>1, <3>2, <3>3, <3>4 DEF AllFinite, Started
    <2> QED
      BY <1>5, <2>1, <2>2, RequestCounts
  <1>6. ASSUME NEW p \in Handlers, NEW msg \in inbox, Deliver(p, msg)
        PROVE  AnswerInv'
    <2>1. scene' = scene /\ Succeeded' = Succeeded /\ CallsMade' = CallsMade
      BY <1>6, DeliverCounts DEF Deliver, Succeeded, AtScene
    <2>2. \/ Asked' = Asked /\ Starters' = Starters
          \/ OneIsTaken(Asked, Asked') /\ Starters' = Starters
          \/ OneIsTaken(Asked, Asked') /\ OneIsAdded(Starters, Starters')
      BY <1>6, DeliverCounts
    <2>3. IsFiniteSet(Asked') /\ IsFiniteSet(Starters') /\
            Cardinality(Asked') + Cardinality(Starters') <= Cardinality(Asked) + Cardinality(Starters)
      BY <1>4, <2>2, AddedAndTaken DEF AllFinite
    <2>4. Cardinality(Asked') \in Nat /\ Cardinality(Starters') \in Nat
      BY <2>3, Counting
    <2> QED
      BY <1>2, <1>3, <1>4, <2>1, <2>3, <2>4 DEF AllFinite, Started
  <1>7. CASE FlowProceeds
    <2>1. inbox' = inbox /\ scene' = scene /\ Asked' = Asked /\ Succeeded' = Succeeded
      BY <1>7 DEF FlowProceeds, Asked, Succeeded, AtScene
    <2>2. \/ CallsMade' = CallsMade /\ Starters' = Starters
          \/ CallsMade' = CallsMade /\ OneIsTaken(Starters, Starters')
          \/ OneIsAdded(CallsMade, CallsMade') /\ OneIsTaken(Starters, Starters')
      BY <1>1, <1>7, StepCounts, EventCounts DEF FlowProceeds
    <2>3. IsFiniteSet(CallsMade') /\ IsFiniteSet(Starters') /\
            Cardinality(CallsMade') + Cardinality(Starters')
              <= Cardinality(CallsMade) + Cardinality(Starters)
      BY <1>4, <2>2, AddedAndTaken DEF AllFinite
    <2>4. Cardinality(CallsMade') \in Nat /\ Cardinality(Starters') \in Nat
      BY <2>3, Counting
    <2> QED
      BY <1>2, <1>3, <1>4, <2>1, <2>3, <2>4 DEF AllFinite, Started
  <1>8. CASE UNCHANGED scenarioVars
    <2>1. /\ CallsMade' = CallsMade /\ Asked' = Asked /\ Starters' = Starters
          /\ Succeeded' = Succeeded /\ scene' = scene
      BY <1>8
      DEF scenarioVars, flowVars, smVars, cmVars, CallsMade, Asked, Starters, InStart, Succeeded, AtScene
    <2> QED
      BY <1>2, <1>3, <2>1 DEF AllFinite, Started
  <1>9. None \in MsgAgentIDs
    BY DEF MsgAgentIDs
  <1> QED
    BY <1>5, <1>6, <1>7, <1>8, <1>9 DEF ScenarioNext

\* No request has been made.
LEMMA AnswerInitInv == ScenarioInit => AnswerInv
  <1> SUFFICES ASSUME ScenarioInit PROVE AnswerInv
    OBVIOUS
  <1>1. CallsMade = {} /\ Asked = {} /\ Starters = {} /\ Succeeded = {}
    BY DEF ScenarioInit, FlowInit, CMInit, NoCall, Idle, CallsMade, Asked, Starters, InStart,
       Succeeded, AtScene
  <1>2. IsFiniteSet({}) /\ Cardinality({}) = 0
    BY FS_EmptySet
  <1>3. scene \in [Requests -> ScenePcs]
    BY DEF ScenarioInit, ScenePcs
  <1> QED
    BY <1>1, <1>2, <1>3, SceneInitInv DEF AnswerInv, AllFinite, Started

\* A request that is told it failed starts no call, now or later, however slow
\* the peer and however many requests run at once.
THEOREM FailuresStartNoCall == ScenarioSpec => []FailureStartsNoCall
  <1>1. AnswerInv /\ [ScenarioNext]_scenarioVars => AnswerInv'
    BY AnswerNextInv
  <1>2. AnswerInv => FailureStartsNoCall
    <2> SUFFICES ASSUME AnswerInv PROVE FailureStartsNoCall
      OBVIOUS
    <2>1. /\ Cardinality(CallsMade) \in Nat /\ Cardinality(Asked) \in Nat
          /\ Cardinality(Starters) \in Nat /\ Cardinality(Succeeded) \in Nat
      BY Counting DEF AnswerInv, AllFinite
    <2> QED
      BY <2>1 DEF AnswerInv, Started, FailureStartsNoCall, Succeeded
  <1> QED
    BY AnswerInitInv, <1>1, <1>2, PTL DEF ScenarioSpec
=============================================================================
