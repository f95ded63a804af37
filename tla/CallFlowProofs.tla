--------------------------- MODULE CallFlowProofs ---------------------------
(***************************************************************************)
(* Proofs about CallFlow, for any sets of agents, calls, channels, command *)
(* goroutines, events and commands.                                        *)
(*                                                                         *)
(* The argument: each goroutine's local state fits the shared state where  *)
(* it is (ProcOK).  A step of goroutine p leaves what the others rely on   *)
(* alone (Frame), because a call belongs to one command (OneOwner), has no *)
(* channel until that command binds it, and a goroutine between the first  *)
(* and the last access of an operation holds sm.mutex.                     *)
(***************************************************************************)
EXTENDS CallFlow, CallManagerProofs

\* The pcs of the two kinds of goroutines.
HandlerPcs ==
  StartPcs \cup EndPcs \cup CleanPcs
    \cup {"idle", "registered", "rejected", "process", "originate", "dial", "started",
          "success", "report"}

EventPcs == EndPcs \cup {"idle", "spawned", "report", "done"}

\* Where a goroutine has an agent in its local variables, where it has a call,
\* and where a command's call has no channel yet.
AgentPcs == StartPcs \cup CleanPcs \cup {"registered"}

CallPcs == EndPcs \cup {"setBusy", "process", "originate", "dial", "started", "success", "report"}

UnboundPcs == EndPcs \cup {"setBusy", "process", "originate", "report"}

FlowTypes ==
  /\ agents \in [AgentIDs -> AgentRecord]
  /\ smLock \in Procs \cup {None}
  /\ proc \in [Procs -> Local]
  /\ currentAgent \in AgentIDs \cup {None}
  /\ channel \in [Channels -> [phase : Range(Phases), call : CallIDs \cup {None}]]
  /\ sent \in [CallIDs -> Seq(MessageNames)]

\* The local variables of p hold what they should.
LocalSound(p) ==
  /\ p \in Handlers => proc[p].pc \in HandlerPcs
  /\ p \in EventProcs => proc[p].pc \in EventPcs
  /\ proc[p].pc \in AgentPcs => proc[p].agent \in AgentIDs
  /\ proc[p].pc \in CallPcs => proc[p].call \in calls
  /\ proc[p].pc \in EndPcs => proc[p].end \in TerminalStates
  /\ p \in Handlers /\ proc[p].pc = "report" => proc[p].end \in TerminalStates
  /\ p \in EventProcs /\ proc[p].pc \in {"idle", "spawned"} => proc[p].end = None

\* The call of p is bound if p is an event, and mostly not if p is a command.
BoundOrNot(p) ==
  /\ p \in Handlers /\ proc[p].pc \in UnboundPcs => call[proc[p].call].channel = None
  /\ p \in EventProcs =>
       /\ proc[p].pc \in EndPcs \cup {"report"} => call[proc[p].call].channel = p[1]
       /\ proc[p].pc \in EndPcs => p[2] = "Destroyed"
       /\ proc[p].pc # "idle" => Rank(p[2]) <= Rank(channel[p[1]].phase)

\* What p is about to tell the peer has been recorded.
Recorded(p) ==
  /\ proc[p].pc \in {"endAgent", "freeAgent"} => call[proc[p].call].endedAt # 0
  /\ proc[p].pc = "report" => IF proc[p].end = None
                              THEN call[proc[p].call].startedAt # 0
                              ELSE call[proc[p].call].endedAt # 0
  /\ p \in Handlers /\ proc[p].pc = "success" => Told(proc[p].call, "callStarted")

\* The call p has created is its agent's latest until the agent is written.
Latest(p) ==
  proc[p].pc = "setBusy" =>
    /\ callsByAgent[proc[p].agent] = proc[p].call
    /\ call[proc[p].call].agentID = proc[p].agent
    /\ call[proc[p].call].endedAt = 0

ProcOK(p) ==
  /\ LocalSound(p)
  /\ proc[p].pc \in LockedPcs <=> smLock = p
  /\ BoundOrNot(p)
  /\ Recorded(p)
  /\ Latest(p)

\* A call is worked on by one command.
OneOwner ==
  \A p, q \in Handlers :
    proc[p].pc \in CallPcs /\ proc[q].pc \in CallPcs /\ proc[p].call = proc[q].call => p = q

CallsHaveAgents == \A c \in calls : call[c].agentID \in AgentIDs

FreeChannels == \A ch \in Channels : channel[ch].phase = "free" => channel[ch].call = None

\* What does not speak of the goroutines.
SharedOK ==
  /\ CallsHaveAgents
  /\ FreeChannels
  /\ BindingSound
  /\ TruthfulReports
  /\ CurrentCallIndexed

FlowInv ==
  /\ CMInv
  /\ FlowTypes
  /\ \A p \in Procs : ProcOK(p)
  /\ OneOwner
  /\ SharedOK

----------------------------------------------------------------------------
(* Facts about the constants. *)

\* A goroutine is a command's or an event's, and not both.
LEMMA ProcKinds ==
  /\ Procs = Handlers \cup EventProcs
  /\ Handlers \cap EventProcs = {}
  /\ None \notin Procs
  /\ \A ch \in Channels, e \in EventTypes : <<ch, e>> \in EventProcs
  /\ \A p \in EventProcs : p[1] \in Channels /\ p[2] \in EventTypes /\ p = <<p[1], p[2]>>
  BY FlowAssumption, ProcsAreNotNone DEF EventProcs

\* The phases of a channel, in their order.
LEMMA RankFacts ==
  /\ Range(Phases) = {"free", "new", "Created", "Ring", "Up", "Down", "Destroyed"}
  /\ EventTypes \subseteq Range(Phases)
  /\ \A x \in Range(Phases) : Rank(x) \in 1..7
  /\ Rank("free") = 1 /\ Rank("new") = 2
  /\ \A x \in EventTypes : Rank(x) > 2
  /\ \A x, y \in Range(Phases) : Rank(x) = Rank(y) => x = y
  <1>1. DOMAIN Phases = 1..7
    BY DEF Phases
  <1>2. Range(Phases) = {"free", "new", "Created", "Ring", "Up", "Down", "Destroyed"}
    BY <1>1 DEF Range, Phases
  <1>3. \A x \in Range(Phases) : Rank(x) \in 1..7 /\ Phases[Rank(x)] = x
    <2>1. \A x \in Range(Phases) : \E i \in DOMAIN Phases : Phases[i] = x
      BY DEF Range
    <2> QED
      BY <1>1, <2>1 DEF Rank
  <1>4. \A i \in 1..7 : /\ Phases[i] = "free" => i = 1
                        /\ Phases[i] = "new" => i = 2
                        /\ i = 1 => Phases[i] = "free"
                        /\ i = 2 => Phases[i] = "new"
    BY DEF Phases
  <1>5. EventTypes \subseteq {"Created", "Ring", "Up", "Down", "Destroyed"}
    BY FlowAssumption
  <1>6. Rank("free") = 1 /\ Rank("new") = 2
    BY <1>2, <1>3, <1>4
  <1>7. \A x \in EventTypes : Rank(x) > 2
    BY <1>2, <1>3, <1>4, <1>5
  <1> QED
    BY <1>2, <1>3, <1>5, <1>6, <1>7

\* A mapping of the pcs, expanded once.
LEMMA PcSets ==
  /\ StartPcs =
       {"checkAgent", "checkCall", "checkRinging", "checkInProgress", "create", "setBusy"}
  /\ EndPcs = {"endCall", "endAgent", "freeAgent"}
  /\ CleanPcs = {"cleanCalls", "cleanAgent"}
  BY DEF StartPcs, EndPcs, CleanPcs

----------------------------------------------------------------------------
(* What a step of p must leave alone for the other goroutines. *)

Others(p) == \A q \in Procs \ {p} : proc'[q] = proc[q]

LockFrame(p) == smLock' = smLock \/ (smLock \in {p, None} /\ smLock' \in {p, None})

\* Only the command that owns an unbound call binds it.
BindingFrame(p) ==
  \A c \in calls :
    \/ call'[c].channel = call[c].channel
    \/ p \in Handlers /\ proc[p].pc \in CallPcs /\ c = proc[p].call /\ call[c].channel = None

\* What is recorded stays recorded.
RecordFrame ==
  /\ calls \subseteq calls'
  /\ \A c \in calls : call'[c].agentID = call[c].agentID
  /\ \A c \in CallIDs : \A name \in MessageNames : Told(c, name) => Told(c, name)'
  /\ \A ch \in Channels, e \in EventTypes :
       Rank(e) <= Rank(channel[ch].phase) => Rank(e) <= Rank(channel'[ch].phase)

\* A goroutine at setBusy holds the lock: the indexes of the agents and the
\* ends of unbound calls are another's only when that one has it or nobody.
LatestFrame(p) ==
  \/ smLock \in {p, None}
  \/ /\ callsByAgent' = callsByAgent
     /\ \A c \in calls : call[c].channel = None => call'[c].endedAt = call[c].endedAt

Frame(p) == LockFrame(p) /\ BindingFrame(p) /\ RecordFrame /\ LatestFrame(p)

\* p keeps the call it owns, gives it up, or owns none.
KeepsCall(p) ==
  \/ p \in EventProcs
  \/ proc'[p].pc \notin CallPcs
  \/ proc[p].pc \in CallPcs /\ proc'[p].call = proc[p].call

\* Stamps are there for good.
LEMMA StampsStay ==
  ASSUME CMInv, CMInv', Grown
  PROVE  \A c \in CallIDs : /\ call[c].startedAt # 0 => call'[c].startedAt # 0
                            /\ call[c].endedAt # 0 => call'[c].endedAt # 0
  <1>1. \A c \in CallIDs : call[c].endedAt \in Nat /\ call'[c].endedAt \in Nat
    BY DEF CMInv, CMTypeOK, CallRecord
  <1> QED
    BY <1>1 DEF Grown

\* The other goroutines stay sound.
LEMMA OthersOK ==
  ASSUME FlowInv, CMInv', Grown, NEW p \in Procs, Others(p), Frame(p),
         NEW q \in Procs \ {p}
  PROVE  ProcOK(q)'
  <1>1. proc'[q] = proc[q] /\ ProcOK(q) /\ q # None
    BY ProcKinds DEF Others, FlowInv
  <1>2. proc[q].pc \in CallPcs => proc[q].call \in calls /\ proc[q].call \in CallIDs
    BY <1>1 DEF ProcOK, LocalSound, FlowInv, CMInv, CMTypeOK
  <1>3. LocalSound(q)'
    BY <1>1 DEF ProcOK, LocalSound, Frame, RecordFrame
  <1>4. (proc[q].pc \in LockedPcs <=> smLock = q)'
    BY <1>1 DEF ProcOK, Frame, LockFrame
  <1>5. BoundOrNot(q)'
    <2>1. CASE q \in Handlers
      <3>1. ASSUME proc[q].pc \in UnboundPcs
            PROVE  call'[proc[q].call].channel = None
        <4>1. proc[q].pc \in CallPcs /\ call[proc[q].call].channel = None
          BY <1>1, <2>1, <3>1 DEF ProcOK, BoundOrNot, UnboundPcs, CallPcs
        <4>2. ~(p \in Handlers /\ proc[p].pc \in CallPcs /\ proc[q].call = proc[p].call)
          BY <2>1, <4>1 DEF FlowInv, OneOwner
        <4> QED
          BY <1>2, <4>1, <4>2 DEF Frame, BindingFrame
      <3>2. q \notin EventProcs
        BY <2>1, ProcKinds
      <3> QED
        BY <1>1, <3>1, <3>2 DEF BoundOrNot
    <2>2. CASE q \in EventProcs
      <3>1. q \notin Handlers /\ q[1] \in Channels /\ q[2] \in EventTypes /\ q[1] # None
        BY <2>2, ProcKinds, NoneIsFresh
      <3>2. proc[q].pc \in EndPcs \cup {"report"} => call'[proc[q].call].channel = q[1]
        BY <1>1, <1>2, <2>2, <3>1 DEF ProcOK, BoundOrNot, Frame, BindingFrame, CallPcs
      <3>3. proc[q].pc # "idle" => Rank(q[2]) <= Rank(channel'[q[1]].phase)
        BY <1>1, <2>2, <3>1 DEF ProcOK, BoundOrNot, Frame, RecordFrame
      <3> QED
        BY <1>1, <2>2, <3>1, <3>2, <3>3 DEF ProcOK, BoundOrNot
    <2> QED
      BY <2>1, <2>2, ProcKinds
  <1>6. Recorded(q)'
    <2>1. /\ call[proc[q].call].startedAt # 0 => call'[proc[q].call].startedAt # 0
          /\ call[proc[q].call].endedAt # 0 => call'[proc[q].call].endedAt # 0
          \/ proc[q].pc \notin CallPcs
      BY <1>2, StampsStay DEF FlowInv
    <2>2. proc[q].pc \in CallPcs =>
            (Told(proc[q].call, "callStarted") => "callStarted" \in Range(sent'[proc[q].call]))
      BY <1>2 DEF Frame, RecordFrame, Told, MessageNames
    <2>3. /\ proc[q].pc \in {"endAgent", "freeAgent", "report", "success"} => proc[q].pc \in CallPcs
      BY DEF CallPcs, EndPcs
    <2> QED
      BY <1>1, <2>1, <2>2, <2>3 DEF ProcOK, Recorded, Told
  <1>7. Latest(q)'
    <2> SUFFICES ASSUME proc[q].pc = "setBusy" PROVE Latest(q)'
      BY <1>1 DEF Latest
    <2>1. smLock = q
      BY <1>1 DEF ProcOK, LockedPcs
    <2>2. q \in Handlers
      BY <1>1, ProcKinds DEF ProcOK, LocalSound, EventPcs, EndPcs
    <2>3. proc[q].call \in calls /\ call[proc[q].call].channel = None
      BY <1>1, <1>2, <2>2 DEF ProcOK, BoundOrNot, UnboundPcs, CallPcs
    <2>4. /\ callsByAgent' = callsByAgent
          /\ call'[proc[q].call].endedAt = call[proc[q].call].endedAt
          /\ call'[proc[q].call].agentID = call[proc[q].call].agentID
      BY <1>1, <2>1, <2>3 DEF Frame, LatestFrame, RecordFrame
    <2> QED
      BY <1>1, <2>4 DEF ProcOK, Latest
  <1> QED
    BY <1>3, <1>4, <1>5, <1>6, <1>7 DEF ProcOK

\* No call gets a second command.
LEMMA OwnerKept ==
  ASSUME FlowInv, NEW p \in Procs, Others(p), KeepsCall(p)
  PROVE  OneOwner'
  <1> SUFFICES ASSUME NEW q \in Handlers, NEW r \in Handlers, q # r,
                      proc'[q].pc \in CallPcs, proc'[r].pc \in CallPcs,
                      proc'[q].call = proc'[r].call
               PROVE  FALSE
    BY DEF OneOwner
  <1>1. q \in Procs /\ r \in Procs /\ q \notin EventProcs /\ r \notin EventProcs
    BY ProcKinds
  <1>2. \A x \in {q, r} : proc[x].pc \in CallPcs /\ proc'[x].call = proc[x].call
    BY <1>1 DEF Others, KeepsCall
  <1> QED
    BY <1>2 DEF FlowInv, OneOwner

\* What remains to be shown of a step of p.
LEMMA StepKeeps ==
  ASSUME FlowInv, CMInv', Grown, NEW p \in Procs, Others(p), Frame(p),
         FlowTypes', ProcOK(p)', OneOwner', SharedOK'
  PROVE  FlowInv'
  <1>1. \A q \in Procs : ProcOK(q)'
    BY OthersOK
  <1> QED
    BY <1>1 DEF FlowInv

\* A step that changes the goroutines' variables, agents or the lock only.
LEMMA QuietKeeps ==
  ASSUME FlowInv, NEW p \in Procs, Others(p), KeepsCall(p), LockFrame(p),
         UNCHANGED <<cmVars, channel, sent>>,
         FlowTypes', ProcOK(p)', CurrentCallIndexed'
  PROVE  FlowInv'
  <1>1. CMInv' /\ Grown
    BY NextInv DEF FlowInv
  <1>2. Frame(p)
    BY DEF Frame, BindingFrame, RecordFrame, LatestFrame, Told, cmVars
  <1>3. OneOwner'
    BY OwnerKept
  <1>4. SharedOK'
    BY DEF FlowInv, SharedOK, CallsHaveAgents, FreeChannels, BindingSound, TruthfulReports, Told,
           Precedes, cmVars
  <1> QED
    BY <1>1, <1>2, <1>3, <1>4, StepKeeps

\* The agents' calls and the index agree as before, if no agent got a call.
LEMMA IndexedKept ==
  ASSUME FlowInv, NEW p \in Procs, Others(p), proc[p].pc # "setBusy",
         callsByAgent' = callsByAgent,
         \A a \in AgentIDs : agents'[a].callID \in {agents[a].callID, None}
  PROVE  CurrentCallIndexed'
  <1> SUFFICES ASSUME NEW a \in AgentIDs,
                      agents'[a].callID \notin {None, callsByAgent'[a]}
               PROVE  \E q \in Procs : At(q, "setBusy")' /\ proc'[q].agent = a
    BY DEF CurrentCallIndexed
  <1>1. PICK q \in Procs : At(q, "setBusy") /\ proc[q].agent = a
    BY DEF FlowInv, SharedOK, CurrentCallIndexed
  <1>2. proc'[q] = proc[q]
    BY <1>1 DEF At, Others
  <1> QED
    BY <1>1, <1>2 DEF At

----------------------------------------------------------------------------
(* The local variables of a goroutine after a step. *)

Pcs == StartPcs \cup EndPcs \cup CleanPcs \cup CallerPcs

Becomes(p, pc, a, c, e) ==
  /\ proc' \in [Procs -> Local]
  /\ Others(p)
  /\ proc'[p].pc = pc /\ proc'[p].agent = a /\ proc'[p].call = c /\ proc'[p].end = e

\* The assignments to local variables there are.
LEMMA Moves ==
  ASSUME FlowInv, NEW p \in Procs, NEW pc \in Pcs, NEW a \in AgentIDs \cup {None},
         NEW c \in CallIDs \cup {None}, NEW e \in TerminalStates \cup {None}
  PROVE  /\ proc' = [proc EXCEPT ![p].pc = pc]
              => Becomes(p, pc, proc[p].agent, proc[p].call, proc[p].end)
         /\ proc' = [proc EXCEPT ![p].pc = pc, ![p].agent = a]
              => Becomes(p, pc, a, proc[p].call, proc[p].end)
         /\ proc' = [proc EXCEPT ![p].pc = pc, ![p].call = c]
              => Becomes(p, pc, proc[p].agent, c, proc[p].end)
         /\ proc' = [proc EXCEPT ![p].pc = pc, ![p].end = e]
              => Becomes(p, pc, proc[p].agent, proc[p].call, e)
         /\ proc' = [proc EXCEPT ![p] = [@ EXCEPT !.pc = pc, !.call = c, !.end = e]]
              => Becomes(p, pc, proc[p].agent, c, e)
         /\ proc' = [proc EXCEPT ![p] = Idle] => Becomes(p, "idle", None, None, None)
         /\ proc' = [proc EXCEPT ![p] = Done] => Becomes(p, "done", None, None, None)
         /\ proc' = proc => Becomes(p, proc[p].pc, proc[p].agent, proc[p].call, proc[p].end)
  <1>1. proc \in [Procs -> Local] /\ proc[p] \in Local
    BY DEF FlowInv, FlowTypes
  <1>2. Idle \in Local /\ Done \in Local
    BY DEF Idle, Done, Local, CallerPcs
  <1>3. /\ Idle.pc = "idle" /\ Idle.agent = None /\ Idle.call = None /\ Idle.end = None
        /\ Done.pc = "done" /\ Done.agent = None /\ Done.call = None /\ Done.end = None
    BY DEF Idle, Done
  <1> DEFINE after(l) == proc' = [proc EXCEPT ![p] = l]
  <1>4. \A l \in Local : after(l) => Becomes(p, l.pc, l.agent, l.call, l.end)
    BY <1>1 DEF Becomes, Others
  <1> DEFINE l1 == [proc[p] EXCEPT !.pc = pc]
             l2 == [proc[p] EXCEPT !.pc = pc, !.agent = a]
             l3 == [proc[p] EXCEPT !.pc = pc, !.call = c]
             l4 == [proc[p] EXCEPT !.pc = pc, !.end = e]
             l5 == [proc[p] EXCEPT !.pc = pc, !.call = c, !.end = e]
  <1>5. l1 \in Local /\ l2 \in Local /\ l3 \in Local /\ l4 \in Local /\ l5 \in Local
    BY <1>1 DEF Local, Pcs
  <1>6. /\ l1.pc = pc /\ l1.agent = proc[p].agent /\ l1.call = proc[p].call /\ l1.end = proc[p].end
        /\ l2.pc = pc /\ l2.agent = a /\ l2.call = proc[p].call /\ l2.end = proc[p].end
        /\ l3.pc = pc /\ l3.agent = proc[p].agent /\ l3.call = c /\ l3.end = proc[p].end
        /\ l4.pc = pc /\ l4.agent = proc[p].agent /\ l4.call = proc[p].call /\ l4.end = e
        /\ l5.pc = pc /\ l5.agent = proc[p].agent /\ l5.call = c /\ l5.end = e
    BY <1>1 DEF Local
  <1>7. /\ proc' = [proc EXCEPT ![p].pc = pc] => after(l1)
        /\ proc' = [proc EXCEPT ![p].pc = pc, ![p].agent = a] => after(l2)
        /\ proc' = [proc EXCEPT ![p].pc = pc, ![p].call = c] => after(l3)
        /\ proc' = [proc EXCEPT ![p].pc = pc, ![p].end = e] => after(l4)
        /\ proc' = [proc EXCEPT ![p] = [@ EXCEPT !.pc = pc, !.call = c, !.end = e]] => after(l5)
    BY <1>1
  <1> HIDE DEF after, l1, l2, l3, l4, l5
  <1>8. /\ proc' = [proc EXCEPT ![p].pc = pc]
             => Becomes(p, pc, proc[p].agent, proc[p].call, proc[p].end)
        /\ proc' = [proc EXCEPT ![p].pc = pc, ![p].agent = a]
             => Becomes(p, pc, a, proc[p].call, proc[p].end)
        /\ proc' = [proc EXCEPT ![p].pc = pc, ![p].call = c]
             => Becomes(p, pc, proc[p].agent, c, proc[p].end)
        /\ proc' = [proc EXCEPT ![p].pc = pc, ![p].end = e]
             => Becomes(p, pc, proc[p].agent, proc[p].call, e)
        /\ proc' = [proc EXCEPT ![p] = [@ EXCEPT !.pc = pc, !.call = c, !.end = e]]
             => Becomes(p, pc, proc[p].agent, c, e)
    <2>1. /\ after(l1) => Becomes(p, pc, proc[p].agent, proc[p].call, proc[p].end)
          /\ after(l2) => Becomes(p, pc, a, proc[p].call, proc[p].end)
          /\ after(l3) => Becomes(p, pc, proc[p].agent, c, proc[p].end)
          /\ after(l4) => Becomes(p, pc, proc[p].agent, proc[p].call, e)
          /\ after(l5) => Becomes(p, pc, proc[p].agent, c, e)
      <3>1. /\ after(l1) => Becomes(p, l1.pc, l1.agent, l1.call, l1.end)
            /\ after(l2) => Becomes(p, l2.pc, l2.agent, l2.call, l2.end)
            /\ after(l3) => Becomes(p, l3.pc, l3.agent, l3.call, l3.end)
            /\ after(l4) => Becomes(p, l4.pc, l4.agent, l4.call, l4.end)
            /\ after(l5) => Becomes(p, l5.pc, l5.agent, l5.call, l5.end)
        BY <1>4, <1>5
      <3> QED
        BY <1>6, <3>1
    <2> QED
      BY <1>7, <2>1
  <1>9. /\ proc' = [proc EXCEPT ![p] = Idle] => Becomes(p, "idle", None, None, None)
        /\ proc' = [proc EXCEPT ![p] = Done] => Becomes(p, "done", None, None, None)
        /\ proc' = proc => Becomes(p, proc[p].pc, proc[p].agent, proc[p].call, proc[p].end)
    BY <1>1, <1>2, <1>3 DEF Becomes, Others
  <1> QED
    BY <1>8, <1>9

\* Where a command's goroutine has no call, little is asked of it.
LEMMA NoCallOK ==
  ASSUME FlowInv, NEW p \in Handlers, NEW pc, NEW a, NEW c, NEW e, Becomes(p, pc, a, c, e),
         pc \in {"idle", "registered", "rejected", "checkAgent", "checkCall", "checkRinging",
                 "checkInProgress", "create", "cleanCalls", "cleanAgent"},
         pc \in AgentPcs => a \in AgentIDs,
         pc \in LockedPcs <=> smLock' = p
  PROVE  ProcOK(p)' /\ KeepsCall(p)
  <1>1. p \notin EventProcs
    BY ProcKinds
  <1>2. proc'[p].pc = pc /\ proc'[p].agent = a
    BY DEF Becomes
  <1>3. LocalSound(p)'
    BY <1>1, <1>2 DEF LocalSound, HandlerPcs, StartPcs, CleanPcs, CallPcs, EndPcs
  <1>4. BoundOrNot(p)' /\ Recorded(p)' /\ Latest(p)'
    BY <1>1, <1>2 DEF BoundOrNot, UnboundPcs, EndPcs, Recorded, Latest
  <1>5. KeepsCall(p)
    BY <1>2 DEF KeepsCall, CallPcs, EndPcs
  <1> QED
    BY <1>2, <1>3, <1>4, <1>5 DEF ProcOK

\* An event that has been handled asks for nothing.
LEMMA DoneOK ==
  ASSUME FlowInv, NEW p \in EventProcs, NEW a, NEW c, NEW e, Becomes(p, "done", a, c, e),
         proc[p].pc # "idle", smLock' # p, channel' = channel
  PROVE  ProcOK(p)' /\ KeepsCall(p)
  <1>1. p \notin Handlers /\ p \in Procs
    BY ProcKinds
  <1>2. proc'[p].pc = "done"
    BY DEF Becomes
  <1>3. ProcOK(p)
    BY <1>1 DEF FlowInv
  <1>4. BoundOrNot(p)'
    BY <1>1, <1>2, <1>3 DEF ProcOK, BoundOrNot, EndPcs
  <1>5. LocalSound(p)' /\ Recorded(p)' /\ Latest(p)'
    BY <1>1, <1>2 DEF LocalSound, EventPcs, EndPcs, CallPcs, AgentPcs, StartPcs, CleanPcs,
       Recorded, Latest
  <1> QED
    BY <1>2, <1>4, <1>5 DEF ProcOK, LockedPcs, KeepsCall

----------------------------------------------------------------------------
(* The steps that change local variables, agents or the lock only. *)

\* The facts every step starts from.
LEMMA HandlerFacts ==
  ASSUME FlowInv, NEW p \in Handlers
  PROVE  /\ p \in Procs /\ p \notin EventProcs /\ p # None
         /\ proc[p].pc \in HandlerPcs /\ proc[p].pc \in Pcs
         /\ proc[p].agent \in AgentIDs \cup {None}
         /\ proc[p].call \in CallIDs \cup {None}
         /\ proc[p].end \in TerminalStates \cup {None}
         /\ proc[p].pc \in LockedPcs <=> smLock = p
         /\ smLock \in Procs \cup {None}
         /\ proc[p].pc \in AgentPcs => proc[p].agent \in AgentIDs
         /\ proc[p].pc \in CallPcs => proc[p].call \in calls
         /\ ProcOK(p)
  <1>1. p \in Procs /\ p \notin EventProcs /\ p # None
    BY ProcKinds
  <1>2. proc[p] \in Local /\ ProcOK(p)
    BY <1>1 DEF FlowInv, FlowTypes
  <1> QED
    BY <1>1, <1>2 DEF Local, Pcs, ProcOK, LocalSound, FlowInv, FlowTypes

\* A message names a registered agent, or stands for the current one.
LEMMA MsgAgents ==
  ASSUME FlowInv
  PROVE  \A m \in MsgAgentIDs : GetAgentID(m) \in AgentIDs \cup {None}
  BY DEF MsgAgentIDs, GetAgentID, FlowInv, FlowTypes

\* agentRegister: a new agent has no call.
LEMMA AgentRegisterStep ==
  ASSUME FlowInv, NEW p \in Handlers, NEW a \in AgentIDs, AgentRegister(p, a)
  PROVE  FlowInv'
  <1>1. Becomes(p, "registered", a, proc[p].call, proc[p].end)
    BY HandlerFacts, Moves DEF AgentRegister, Pcs, CallerPcs
  <1>2. proc[p].pc = "idle" /\ UNCHANGED <<cmVars, smLock, currentAgent, channel, sent>>
    BY DEF AgentRegister, At
  <1>3. ProcOK(p)' /\ KeepsCall(p)
    BY <1>1, <1>2, HandlerFacts, NoCallOK DEF LockedPcs
  <1>4. /\ agents' \in [AgentIDs -> AgentRecord]
        /\ \A b \in AgentIDs : agents'[b].callID = agents[b].callID
    BY DEF AgentRegister, CreateAgent, FlowInv, FlowTypes, AgentRecord, AgentStates
  <1>5. FlowTypes' /\ Others(p) /\ LockFrame(p)
    BY <1>1, <1>2, <1>4 DEF FlowInv, FlowTypes, Becomes, LockFrame
  <1>6. CurrentCallIndexed'
    BY <1>2, <1>4, <1>5, HandlerFacts, IndexedKept DEF cmVars
  <1> QED
    BY <1>2, <1>3, <1>5, <1>6, HandlerFacts, QuietKeeps

\* CurrentAgentID is set; the goroutine is done.
LEMMA SetCurrentAgentStep ==
  ASSUME FlowInv, NEW p \in Handlers, SetCurrentAgent(p)
  PROVE  FlowInv'
  <1>1. Becomes(p, "idle", None, None, None)
    BY HandlerFacts, Moves DEF SetCurrentAgent, Finish
  <1>2. /\ proc[p].pc = "registered" /\ UNCHANGED <<cmVars, agents, smLock, channel, sent>>
        /\ currentAgent' \in AgentIDs
    BY HandlerFacts DEF SetCurrentAgent, At, AgentPcs
  <1>3. ProcOK(p)' /\ KeepsCall(p)
    BY <1>1, <1>2, HandlerFacts, NoCallOK DEF LockedPcs, AgentPcs, StartPcs, CleanPcs
  <1>4. FlowTypes' /\ Others(p) /\ LockFrame(p)
    BY <1>1, <1>2 DEF FlowInv, FlowTypes, Becomes, LockFrame
  <1>5. CurrentCallIndexed'
    BY <1>2, <1>4, HandlerFacts, IndexedKept DEF cmVars
  <1> QED
    BY <1>2, <1>3, <1>4, <1>5, HandlerFacts, QuietKeeps

\* The peer changes the state of an agent, never its call.
LEMMA AgentStateStep ==
  ASSUME FlowInv, NEW p \in Handlers, NEW m \in MsgAgentIDs, NEW s \in AgentStates,
         At(p, "idle"), UpdateAgentState(GetAgentID(m), s),
         UNCHANGED <<cmVars, smLock, proc, currentAgent, channel, sent>>
  PROVE  FlowInv'
  <1>1. Becomes(p, "idle", proc[p].agent, proc[p].call, proc[p].end)
    BY HandlerFacts, Moves DEF At
  <1>2. proc[p].pc = "idle"
    BY DEF At
  <1>3. ProcOK(p)' /\ KeepsCall(p)
    BY <1>1, <1>2, HandlerFacts, NoCallOK DEF LockedPcs, AgentPcs, StartPcs, CleanPcs
  <1>4. GetAgentID(m) \in AgentIDs
    BY MsgAgents DEF UpdateAgentState, AgentExists
  <1>5. /\ agents' \in [AgentIDs -> AgentRecord]
        /\ \A b \in AgentIDs : agents'[b].callID = agents[b].callID
    BY <1>4 DEF UpdateAgentState, FlowInv, FlowTypes, AgentRecord
  <1>6. FlowTypes' /\ Others(p) /\ LockFrame(p)
    BY <1>1, <1>5 DEF FlowInv, FlowTypes, Becomes, LockFrame
  <1>7. CurrentCallIndexed'
    BY <1>2, <1>5, <1>6, HandlerFacts, IndexedKept DEF cmVars
  <1> QED
    BY <1>3, <1>6, <1>7, HandlerFacts, QuietKeeps

\* A command begins or is refused: nothing but its goroutine changes.
LEMMA CommandMovesOn ==
  ASSUME FlowInv, NEW p \in Handlers, NEW pc \in {"idle", "cleanCalls", "checkAgent"},
         NEW a, NEW c, NEW e, Becomes(p, pc, a, c, e), pc \in AgentPcs => a \in AgentIDs,
         proc[p].pc \in {"idle", "rejected"},
         UNCHANGED <<cmVars, agents, smLock, currentAgent, channel, sent>>
  PROVE  FlowInv'
  <1>1. ProcOK(p)' /\ KeepsCall(p)
    BY HandlerFacts, NoCallOK DEF LockedPcs
  <1>2. FlowTypes' /\ Others(p) /\ LockFrame(p)
    BY DEF FlowInv, FlowTypes, Becomes, LockFrame
  <1>3. CurrentCallIndexed'
    BY <1>2, HandlerFacts, IndexedKept DEF cmVars
  <1> QED
    BY <1>1, <1>2, <1>3, HandlerFacts, QuietKeeps

\* Logout, the beginning of a call command, and its refusal.
LEMMA CommandStep ==
  ASSUME FlowInv, NEW p \in Handlers, NEW m \in MsgAgentIDs,
         AgentLogout(p, m) \/ MakeCall(p, m) \/ Rejected(p)
  PROVE  FlowInv'
  <1> DEFINE b == GetAgentID(m)
  <1>1. b \in AgentIDs \cup {None} /\ p \in Procs
    BY MsgAgents, HandlerFacts
  <1>2. CASE AgentLogout(p, m)
    <2>1. b \in AgentIDs
      BY <1>1, <1>2 DEF AgentLogout
    <2>2. Becomes(p, "cleanCalls", b, proc[p].call, proc[p].end)
      BY <1>1, <1>2, Moves, NoneIsFresh DEF AgentLogout, Pcs, CleanPcs, FlowInv
    <2> QED
      BY <1>2, <2>1, <2>2, CommandMovesOn DEF AgentLogout, At
  <1>3. CASE MakeCall(p, m)
    <2>1. b \in AgentIDs
      BY <1>1, <1>3 DEF MakeCall, IsAgentReady, AgentExists
    <2>2. Becomes(p, "checkAgent", b, proc[p].call, proc[p].end)
      BY <1>1, <1>3, Moves DEF MakeCall, Pcs, StartPcs
    <2> QED
      BY <1>3, <2>1, <2>2, CommandMovesOn DEF MakeCall, At
  <1>4. CASE Rejected(p)
    <2>1. Becomes(p, "idle", None, None, None)
      BY <1>4, HandlerFacts, Moves DEF Rejected, Finish
    <2> QED
      BY <1>4, <2>1, CommandMovesOn DEF Rejected, At, AgentPcs, StartPcs, CleanPcs
  <1> QED
    BY <1>2, <1>3, <1>4

\* The checks of StartCall: the lock is taken, kept or released.
LEMMA StartChecksStep ==
  ASSUME FlowInv, NEW p \in Handlers, CheckAgent(p) \/ CheckCall(p),
         UNCHANGED <<currentAgent, channel, sent>>
  PROVE  FlowInv'
  <1>1. /\ proc[p].pc \in {"checkAgent", "checkCall", "checkRinging", "checkInProgress"}
        /\ UNCHANGED <<cmVars, agents>> /\ LockFrame(p)
        /\ \E pc \in {"checkCall", "checkRinging", "checkInProgress", "create", "rejected"} :
             /\ proc' = [proc EXCEPT ![p].pc = pc]
             /\ smLock' = IF pc = "rejected" THEN None ELSE p
    BY HandlerFacts
    DEF CheckAgent, CheckCall, CheckPcs, AfterCheck, At, Goto, Release, LockFrame, LockedPcs
  <1>2. PICK pc \in {"checkCall", "checkRinging", "checkInProgress", "create", "rejected"} :
             /\ proc' = [proc EXCEPT ![p].pc = pc]
             /\ smLock' = IF pc = "rejected" THEN None ELSE p
    BY <1>1
  <1>3. pc \in Pcs
    BY <1>2 DEF Pcs, StartPcs, CallerPcs
  <1>4. Becomes(p, pc, proc[p].agent, proc[p].call, proc[p].end)
    BY <1>2, <1>3, HandlerFacts, Moves
  <1>5. ProcOK(p)' /\ KeepsCall(p)
    <2>1. proc[p].agent \in AgentIDs
      BY <1>1, HandlerFacts DEF AgentPcs, StartPcs
    <2>2. pc \in LockedPcs <=> smLock' = p
      BY <1>2, HandlerFacts DEF LockedPcs
    <2> QED
      BY <1>2, <1>4, <2>1, <2>2, NoCallOK
  <1>6. FlowTypes' /\ Others(p)
    BY <1>1, <1>2, <1>4, HandlerFacts DEF FlowInv, FlowTypes, Becomes
  <1>7. CurrentCallIndexed'
    BY <1>1, <1>6, HandlerFacts, IndexedKept DEF cmVars
  <1> QED
    BY <1>1, <1>5, <1>6, <1>7, HandlerFacts, QuietKeeps

\* The end of StartCall: the agent gets the call its index leads to.
LEMMA SetBusyStep ==
  ASSUME FlowInv, NEW p \in Handlers, NEW written \in {"BUSY", "TORN"}, SetBusy(p, written),
         UNCHANGED <<currentAgent, channel, sent>>
  PROVE  FlowInv'
  <1> DEFINE b == proc[p].agent
             c == proc[p].call
  <1>1. /\ proc[p].pc = "setBusy" /\ UNCHANGED cmVars /\ smLock = p /\ smLock' = None
        /\ b \in AgentIDs /\ c \in calls /\ c \in CallIDs
        /\ callsByAgent[b] = c /\ call[c].channel = None
    BY HandlerFacts DEF SetBusy, At, Release, LockedPcs, AgentPcs, CallPcs, StartPcs, ProcOK, Latest,
       BoundOrNot, UnboundPcs, FlowInv, CMInv, CMTypeOK
  <1>2. Becomes(p, "process", None, c, proc[p].end)
    BY <1>1, HandlerFacts, Moves DEF SetBusy, Pcs, CallerPcs
  <1>3. /\ agents' = [agents EXCEPT ![b] = [state |-> written, callID |-> c]]
        /\ agents' \in [AgentIDs -> AgentRecord]
    BY <1>1 DEF SetBusy, FlowInv, FlowTypes, AgentRecord, AgentStates
  <1>4. FlowTypes' /\ Others(p) /\ LockFrame(p) /\ KeepsCall(p)
    BY <1>1, <1>2, <1>3 DEF FlowInv, FlowTypes, Becomes, LockFrame, KeepsCall, CallPcs
  <1>5. ProcOK(p)'
    <2>1. LocalSound(p)'
      BY <1>1, <1>2, HandlerFacts DEF LocalSound, Becomes, HandlerPcs, AgentPcs, StartPcs, CleanPcs,
         CallPcs, EndPcs, cmVars
    <2>2. (proc[p].pc \in LockedPcs <=> smLock = p)'
      BY <1>1, <1>2, HandlerFacts DEF Becomes, LockedPcs
    <2>3. BoundOrNot(p)' /\ Recorded(p)' /\ Latest(p)'
      BY <1>1, <1>2, HandlerFacts DEF BoundOrNot, Recorded, Latest, Becomes, cmVars
    <2> QED
      BY <2>1, <2>2, <2>3 DEF ProcOK
  <1>6. CurrentCallIndexed'
    <2> SUFFICES ASSUME NEW d \in AgentIDs, agents'[d].callID \notin {None, callsByAgent'[d]}
                 PROVE  \E q \in Procs : At(q, "setBusy")' /\ proc'[q].agent = d
      BY DEF CurrentCallIndexed
    <2>1. callsByAgent' = callsByAgent
      BY <1>1 DEF cmVars
    <2>2. d # b /\ agents'[d] = agents[d]
      BY <1>1, <1>3, <2>1 DEF FlowInv, FlowTypes
    <2>3. PICK q \in Procs : At(q, "setBusy") /\ proc[q].agent = d
      BY <2>1, <2>2 DEF FlowInv, SharedOK, CurrentCallIndexed
    <2>4. q # p /\ proc'[q] = proc[q]
      BY <2>2, <2>3, <1>4 DEF Others
    <2> QED
      BY <2>3, <2>4 DEF At
  <1> QED
    BY <1>1, <1>4, <1>5, <1>6, HandlerFacts, QuietKeeps

\* The call could not be placed: the command sets out to end it.
LEMMA FailsStep ==
  ASSUME FlowInv, NEW p \in Handlers, PlaceFails(p) \/ OriginateFails(p)
  PROVE  FlowInv'
  <1>1. /\ proc[p].pc \in {"process", "originate"}
        /\ UNCHANGED <<cmVars, agents, smLock, currentAgent, channel, sent>>
        /\ proc' = [proc EXCEPT ![p].pc = "endCall", ![p].end = "FAILED"]
    BY DEF PlaceFails, OriginateFails, At
  <1>2. Becomes(p, "endCall", proc[p].agent, proc[p].call, "FAILED")
    BY <1>1, HandlerFacts, Moves DEF Pcs, EndPcs, TerminalStates
  <1>3. FlowTypes' /\ Others(p) /\ LockFrame(p) /\ KeepsCall(p)
    BY <1>1, <1>2 DEF FlowInv, FlowTypes, Becomes, LockFrame, KeepsCall, CallPcs
  <1>4. ProcOK(p)'
    <2>1. LocalSound(p)'
      BY <1>1, <1>2, HandlerFacts DEF LocalSound, Becomes, HandlerPcs, AgentPcs, StartPcs, CleanPcs,
         CallPcs, EndPcs, TerminalStates, cmVars
    <2>2. (proc[p].pc \in LockedPcs <=> smLock = p)'
      BY <1>1, <1>2, HandlerFacts DEF Becomes, LockedPcs
    <2>3. BoundOrNot(p)' /\ Recorded(p)' /\ Latest(p)'
      BY <1>1, <1>2, HandlerFacts
      DEF ProcOK, BoundOrNot, UnboundPcs, Recorded, Latest, Becomes, cmVars
    <2> QED
      BY <2>1, <2>2, <2>3 DEF ProcOK
  <1>5. CurrentCallIndexed'
    BY <1>1, <1>3, HandlerFacts, IndexedKept DEF cmVars
  <1> QED
    BY <1>1, <1>3, <1>4, <1>5, HandlerFacts, QuietKeeps

\* The end of CleanupAgent: the agent is left without a call.
LEMMA CleanAgentStep ==
  ASSUME FlowInv, NEW p \in Handlers, CleanAgent(p), UNCHANGED <<currentAgent, channel, sent>>
  PROVE  FlowInv'
  <1>1. /\ proc[p].pc = "cleanAgent" /\ UNCHANGED cmVars /\ smLock = p /\ smLock' = None
        /\ proc[p].agent \in AgentIDs
    BY HandlerFacts DEF CleanAgent, At, Release, LockedPcs, AgentPcs, CleanPcs
  <1>2. Becomes(p, "idle", None, proc[p].call, proc[p].end)
    BY <1>1, HandlerFacts, Moves DEF CleanAgent, Pcs, CallerPcs
  <1>3. ProcOK(p)' /\ KeepsCall(p)
    BY <1>1, <1>2, HandlerFacts, NoCallOK DEF LockedPcs, AgentPcs, StartPcs, CleanPcs
  <1>4. /\ agents' \in [AgentIDs -> AgentRecord]
        /\ \A d \in AgentIDs : agents'[d].callID \in {agents[d].callID, None}
    BY <1>1 DEF CleanAgent, CleanupAgent, FlowInv, FlowTypes, AgentRecord, AgentStates
  <1>5. FlowTypes' /\ Others(p) /\ LockFrame(p)
    BY <1>1, <1>2, <1>4 DEF FlowInv, FlowTypes, Becomes, LockFrame
  <1>6. CurrentCallIndexed'
    BY <1>1, <1>4, <1>5, HandlerFacts, IndexedKept DEF cmVars
  <1> QED
    BY <1>1, <1>3, <1>5, <1>6, HandlerFacts, QuietKeeps

\* The facts a step of either kind of goroutine starts from.
LEMMA GoroutineFacts ==
  ASSUME FlowInv, NEW p \in Procs
  PROVE  /\ p # None /\ (p \in Handlers \/ p \in EventProcs)
         /\ proc[p].pc \in Pcs
         /\ proc[p].agent \in AgentIDs \cup {None}
         /\ proc[p].call \in CallIDs \cup {None}
         /\ proc[p].end \in TerminalStates \cup {None}
         /\ proc[p].pc \in LockedPcs <=> smLock = p
         /\ proc[p].pc \in EndPcs \cup {"report"} =>
              /\ proc[p].call \in calls /\ proc[p].call \in CallIDs
              /\ call[proc[p].call].agentID \in AgentIDs
         /\ proc[p].pc \in EndPcs => proc[p].end \in TerminalStates
         /\ ProcOK(p)
  <1>1. /\ p # None /\ (p \in Handlers \/ p \in EventProcs)
        /\ proc[p] \in Local /\ ProcOK(p)
    BY ProcKinds DEF FlowInv, FlowTypes
  <1> QED
    BY <1>1 DEF Local, Pcs, ProcOK, LocalSound, CallPcs, FlowInv, SharedOK, CallsHaveAgents, CMInv,
                CMTypeOK

\* EndCall goes on, or is over: what it ended stays as it was recorded.
LEMMA EndMovesOn ==
  ASSUME FlowInv, NEW p \in Procs, NEW pc \in {"freeAgent", "report"},
         proc[p].pc \in {"endAgent", "freeAgent"},
         proc' = [proc EXCEPT ![p].pc = pc], UNCHANGED cmVars,
         smLock' = IF pc = "freeAgent" THEN p ELSE None,
         UNCHANGED <<channel, sent>>
  PROVE  Others(p) /\ KeepsCall(p) /\ LockFrame(p) /\ ProcOK(p)' /\ proc' \in [Procs -> Local]
  <1>1. pc \in Pcs
    BY DEF Pcs, EndPcs, CallerPcs
  <1>2. Becomes(p, pc, proc[p].agent, proc[p].call, proc[p].end)
    BY <1>1, GoroutineFacts, Moves
  <1>3. smLock = p /\ p # None
    BY GoroutineFacts DEF LockedPcs
  <1>4. LocalSound(p)'
    BY <1>2, GoroutineFacts DEF LocalSound, Becomes, HandlerPcs, EventPcs, AgentPcs, StartPcs,
       CleanPcs, CallPcs, EndPcs, cmVars
  <1>5. (proc[p].pc \in LockedPcs <=> smLock = p)'
    BY <1>2, <1>3 DEF Becomes, LockedPcs
  <1>6. BoundOrNot(p)'
    BY <1>2, GoroutineFacts, ProcKinds
    DEF ProcOK, BoundOrNot, UnboundPcs, EndPcs, Becomes, cmVars
  <1>7. Recorded(p)'
    BY <1>2, GoroutineFacts, NoneIsFresh DEF ProcOK, Recorded, EndPcs, Becomes, cmVars
  <1>8. Latest(p)'
    BY <1>2 DEF Latest, Becomes
  <1> QED
    BY <1>2, <1>3, <1>4, <1>5, <1>6, <1>7, <1>8
    DEF ProcOK, Becomes, KeepsCall, CallPcs, EndPcs, LockFrame

\* EndCall finds the agent BUSY, or has nothing to free.
LEMMA CheckBusyStep ==
  ASSUME FlowInv, NEW p \in Procs, CheckBusy(p), UNCHANGED <<currentAgent, channel, sent>>
  PROVE  FlowInv'
  <1>1. /\ proc[p].pc = "endAgent" /\ UNCHANGED <<cmVars, agents>>
        /\ smLock = p
    BY GoroutineFacts DEF CheckBusy, At, LockedPcs
  <1>2. PICK pc \in {"freeAgent", "report"} :
             /\ proc' = [proc EXCEPT ![p].pc = pc]
             /\ smLock' = IF pc = "freeAgent" THEN p ELSE None
    BY <1>1 DEF CheckBusy, Goto, Release
  <1>3. Others(p) /\ KeepsCall(p) /\ LockFrame(p) /\ ProcOK(p)' /\ proc' \in [Procs -> Local]
    BY <1>1, <1>2, EndMovesOn
  <1>4. FlowTypes'
    BY <1>1, <1>2, <1>3 DEF FlowInv, FlowTypes
  <1>5. CurrentCallIndexed'
    BY <1>1, <1>3, IndexedKept DEF cmVars
  <1> QED
    BY <1>1, <1>3, <1>4, <1>5, QuietKeeps

\* The end of EndCall: the agent of the call is left without a call.
LEMMA FreeAgentStep ==
  ASSUME FlowInv, NEW p \in Procs, NEW written \in {"READY", "TORN"}, FreeAgent(p, written),
         UNCHANGED <<currentAgent, channel, sent>>
  PROVE  FlowInv'
  <1> DEFINE b == call[proc[p].call].agentID
  <1>1. /\ proc[p].pc = "freeAgent" /\ UNCHANGED cmVars /\ smLock' = None
        /\ proc' = [proc EXCEPT ![p].pc = "report"]
        /\ b \in AgentIDs
    BY GoroutineFacts DEF FreeAgent, At, Goto, Release, EndPcs
  <1>2. Others(p) /\ KeepsCall(p) /\ LockFrame(p) /\ ProcOK(p)' /\ proc' \in [Procs -> Local]
    BY <1>1, EndMovesOn
  <1>3. /\ agents' \in [AgentIDs -> AgentRecord]
        /\ \A d \in AgentIDs : agents'[d].callID \in {agents[d].callID, None}
    BY <1>1 DEF FreeAgent, FlowInv, FlowTypes, AgentRecord, AgentStates
  <1>4. FlowTypes'
    BY <1>1, <1>2, <1>3 DEF FlowInv, FlowTypes
  <1>5. CurrentCallIndexed'
    BY <1>1, <1>2, <1>3, IndexedKept DEF cmVars
  <1> QED
    BY <1>1, <1>2, <1>4, <1>5, QuietKeeps

----------------------------------------------------------------------------
(* Events. *)

\* The facts a step of an event starts from: the call it finds, if any, is the
\* one its channel is bound to.
LEMMA EventFacts ==
  ASSUME FlowInv, NEW p \in EventProcs
  PROVE  /\ p \in Procs /\ p \notin Handlers /\ p[1] \in Channels /\ p[2] \in EventTypes
         /\ CallOf(p) # None => /\ CallOf(p) \in calls /\ CallOf(p) \in CallIDs
                                /\ call[CallOf(p)].channel = p[1]
         /\ proc[p].pc = "spawned" => /\ proc[p].end = None
                                      /\ Rank(p[2]) <= Rank(channel[p[1]].phase)
  <1>1. p \in Procs /\ p \notin Handlers /\ p[1] \in Channels /\ p[2] \in EventTypes
    BY ProcKinds
  <1>2. ProcOK(p)
    BY <1>1 DEF FlowInv
  <1> QED
    BY <1>1, <1>2 DEF ProcOK, LocalSound, BoundOrNot, CallOf, FlowInv, CMInv, CMTypeOK, IndexSound

\* The channel is bound to no call.
LEMMA NoCallFoundStep ==
  ASSUME FlowInv, NEW p \in EventProcs, NoCallFound(p)
  PROVE  FlowInv'
  <1>1. /\ proc[p].pc = "spawned"
        /\ UNCHANGED <<cmVars, agents, smLock, currentAgent, channel, sent>>
        /\ proc' = [proc EXCEPT ![p] = Done]
    BY DEF NoCallFound, At
  <1>2. Becomes(p, "done", None, None, None)
    BY <1>1, EventFacts, GoroutineFacts, Moves
  <1>3. ProcOK(p)' /\ KeepsCall(p)
    BY <1>1, <1>2, EventFacts, GoroutineFacts, DoneOK DEF LockedPcs
  <1>4. FlowTypes' /\ Others(p) /\ LockFrame(p)
    BY <1>1, <1>2 DEF FlowInv, FlowTypes, Becomes, LockFrame
  <1>5. CurrentCallIndexed'
    BY <1>1, <1>4, EventFacts, IndexedKept DEF cmVars
  <1> QED
    BY <1>1, <1>3, <1>4, <1>5, EventFacts, QuietKeeps

\* The outcome is decided; the goroutine sets out to end the call.
LEMMA HandleDestroyedStep ==
  ASSUME FlowInv, NEW p \in EventProcs, HandleChannelDestroyed(p)
  PROVE  FlowInv'
  <1> DEFINE c == CallOf(p)
             e == IF call[c].state = "IN_PROGRESS" THEN "ENDED" ELSE "FAILED"
  <1>1. /\ proc[p].pc = "spawned" /\ p[2] = "Destroyed" /\ c # None
        /\ UNCHANGED <<cmVars, agents, smLock, currentAgent, channel, sent>>
        /\ proc' = [proc EXCEPT ![p] = [@ EXCEPT !.pc = "endCall", !.call = c, !.end = e]]
    BY DEF HandleChannelDestroyed, Spawned, At
  <1>2. e \in TerminalStates /\ "endCall" \in Pcs
    BY DEF TerminalStates, Pcs, EndPcs
  <1>3. /\ c \in calls /\ c \in CallIDs /\ call[c].channel = p[1]
        /\ p \in Procs /\ p \notin Handlers
    BY <1>1, EventFacts
  <1>4. Becomes(p, "endCall", proc[p].agent, c, e)
    BY <1>1, <1>2, <1>3, GoroutineFacts, Moves
  <1> HIDE DEF c, e
  <1>5. LocalSound(p)'
    BY <1>2, <1>1, <1>3, <1>4 DEF LocalSound, Becomes, EventPcs, EndPcs, AgentPcs, StartPcs, CleanPcs,
       cmVars
  <1>6. (proc[p].pc \in LockedPcs <=> smLock = p)'
    BY <1>1, <1>3, <1>4, GoroutineFacts DEF Becomes, LockedPcs
  <1>7. BoundOrNot(p)' /\ Recorded(p)' /\ Latest(p)'
    BY <1>1, <1>3, <1>4, EventFacts DEF BoundOrNot, Recorded, Latest, Becomes, cmVars
  <1>8. ProcOK(p)'
    BY <1>5, <1>6, <1>7 DEF ProcOK
  <1>9. FlowTypes' /\ Others(p) /\ LockFrame(p) /\ KeepsCall(p)
    BY <1>1, <1>4 DEF FlowInv, FlowTypes, Becomes, LockFrame, KeepsCall
  <1>10. CurrentCallIndexed'
    BY <1>1, <1>3, <1>9, IndexedKept DEF cmVars
  <1> QED
    BY <1>1, <1>3, <1>8, <1>9, <1>10, QuietKeeps

----------------------------------------------------------------------------
(* The steps that change calls. *)

\* What UpdateCallState does to the calls.
LEMMA UpdateFacts ==
  ASSUME CMInv, NEW c \in CallIDs, NEW s \in CallStates, UpdateCallState(c, s)
  PROVE  /\ CMInv' /\ Grown
         /\ UNCHANGED <<calls, callsByRefID, callsByAgent, callsByChannel>>
         /\ \A d \in CallIDs : d # c => call'[d] = call[d]
         /\ \A d \in CallIDs : /\ call'[d].agentID = call[d].agentID
                               /\ call'[d].channel = call[d].channel
         /\ s = "IN_PROGRESS" => call'[c].startedAt # 0
         /\ s # "IN_PROGRESS" => call'[c].startedAt = call[c].startedAt
         /\ s \in TerminalStates => call'[c].endedAt # 0
         /\ s \notin TerminalStates => call'[c].endedAt = call[c].endedAt
  <1>1. CMInv' /\ Grown /\ CMTypeOK /\ SoundObject(call[c])
    BY UpdateCallStateStep, SoundObjects DEF CMInv
  <1>2. /\ call' = [call EXCEPT ![c] = Updated(call[c], s)]
        /\ UNCHANGED <<calls, callsByRefID, callsByAgent, callsByChannel>>
    BY DEF UpdateCallState
  <1>3. call'[c] = Updated(call[c], s) /\ \A d \in CallIDs : d # c => call'[d] = call[d]
    BY <1>1, <1>2 DEF CMTypeOK
  <1>4. /\ SoundObject(Updated(call[c], s))
        /\ Updated(call[c], s).state = s
        /\ Updated(call[c], s).agentID = call[c].agentID
        /\ Updated(call[c], s).channel = call[c].channel
    BY <1>1, UpdatedSound
  <1>5. /\ s # "IN_PROGRESS" => Updated(call[c], s).startedAt = call[c].startedAt
        /\ s \notin TerminalStates => Updated(call[c], s).endedAt = call[c].endedAt
    BY <1>1 DEF Updated, SoundObject, CallRecord
  <1> QED
    BY <1>1, <1>2, <1>3, <1>4, <1>5 DEF SoundObject

\* A step that changes no key of a call, and starts none that is not bound.
LEMMA StoreKeeps ==
  ASSUME FlowInv, CMInv', Grown, NEW p \in Procs,
         Others(p), KeepsCall(p), LockFrame(p), LatestFrame(p),
         UNCHANGED <<calls, callsByAgent, callsByChannel, agents, currentAgent, channel, sent>>,
         \A d \in CallIDs : /\ call'[d].agentID = call[d].agentID
                            /\ call'[d].channel = call[d].channel
                            /\ call'[d].startedAt # 0 => call[d].channel # None,
         proc' \in [Procs -> Local], proc[p].pc # "setBusy", ProcOK(p)'
  PROVE  FlowInv'
  <1>1. calls \subseteq CallIDs
    BY DEF FlowInv, CMInv, CMTypeOK
  <1>2. Frame(p)
    BY <1>1 DEF Frame, BindingFrame, RecordFrame, Told
  <1>3. OneOwner'
    BY OwnerKept
  <1>4. FlowTypes'
    BY DEF FlowInv, FlowTypes, LockFrame
  <1>5. CurrentCallIndexed'
    BY IndexedKept
  <1>6. CallsHaveAgents' /\ FreeChannels'
    BY <1>1 DEF FlowInv, SharedOK, CallsHaveAgents, FreeChannels
  <1>7. BindingSound'
    BY DEF FlowInv, SharedOK, BindingSound
  <1>8. TruthfulReports'
    BY StampsStay DEF FlowInv, SharedOK, TruthfulReports, Told, Precedes
  <1> QED
    BY <1>2, <1>3, <1>4, <1>5, <1>6, <1>7, <1>8, StepKeeps DEF SharedOK

\* UpdateCallState, by whoever may call it.
LEMMA UpdateKeeps ==
  ASSUME FlowInv, NEW p \in Procs, Others(p), KeepsCall(p), LockFrame(p),
         NEW c \in CallIDs, NEW s \in CallStates, UpdateCallState(c, s),
         s = "IN_PROGRESS" => call[c].channel # None,
         s \in TerminalStates => smLock \in {p, None} \/ call[c].channel # None,
         UNCHANGED <<agents, currentAgent, channel, sent>>,
         proc' \in [Procs -> Local], proc[p].pc # "setBusy", ProcOK(p)'
  PROVE  FlowInv'
  <1>1. CMInv
    BY DEF FlowInv
  <1>2. CMInv' /\ Grown
    BY <1>1, UpdateFacts
  <1>3. UNCHANGED <<calls, callsByAgent, callsByChannel>>
    BY <1>1, UpdateFacts
  <1>4. \A d \in CallIDs : /\ call'[d].agentID = call[d].agentID
                           /\ call'[d].channel = call[d].channel
    BY <1>1, UpdateFacts
  <1>5. \A d \in CallIDs : call'[d].startedAt # 0 => call[d].channel # None
    <2>1. \A d \in CallIDs : call[d].startedAt # 0 => call[d].channel # None
      BY DEF FlowInv, SharedOK, BindingSound
    <2> QED
      BY <1>1, <2>1, UpdateFacts
  <1>6. LatestFrame(p)
    BY <1>1, UpdateFacts DEF LatestFrame, FlowInv, CMInv, CMTypeOK
  <1> QED
    BY <1>2, <1>3, <1>4, <1>5, <1>6, StoreKeeps

\* The call of a command is DIALING.
LEMMA DialStep ==
  ASSUME FlowInv, NEW p \in Handlers, Dial(p)
  PROVE  FlowInv'
  <1> DEFINE c == proc[p].call
  <1>1. /\ proc[p].pc = "dial" /\ UpdateCallState(c, "DIALING")
        /\ UNCHANGED <<agents, smLock, currentAgent, channel, sent>>
        /\ proc' = [proc EXCEPT ![p].pc = "started"]
        /\ calls' = calls
    BY DEF Dial, At, Goto, UpdateCallState
  <1>2. c \in calls /\ c \in CallIDs /\ p \in Procs /\ p \notin EventProcs
    BY <1>1, HandlerFacts DEF CallPcs, FlowInv, CMInv, CMTypeOK
  <1>3. Becomes(p, "started", proc[p].agent, c, proc[p].end)
    BY <1>1, HandlerFacts, Moves DEF Pcs, CallerPcs
  <1>4. Others(p) /\ LockFrame(p) /\ KeepsCall(p)
    BY <1>1, <1>3 DEF Becomes, LockFrame, KeepsCall, CallPcs
  <1>5. ProcOK(p)'
    <2>1. LocalSound(p)'
      BY <1>1, <1>2, <1>3 DEF LocalSound, Becomes, HandlerPcs, AgentPcs, StartPcs, CleanPcs,
         CallPcs, EndPcs
    <2>2. (proc[p].pc \in LockedPcs <=> smLock = p)'
      BY <1>1, <1>3, HandlerFacts DEF Becomes, LockedPcs
    <2>3. BoundOrNot(p)' /\ Recorded(p)' /\ Latest(p)'
      BY <1>2, <1>3 DEF BoundOrNot, UnboundPcs, EndPcs, Recorded, Latest, Becomes
    <2> QED
      BY <2>1, <2>2, <2>3 DEF ProcOK
  <1>6. "DIALING" \in CallStates /\ "DIALING" \notin TerminalStates
    BY DEF CallStates, TerminalStates
  <1> QED
    BY <1>1, <1>2, <1>3, <1>4, <1>5, <1>6, UpdateKeeps DEF Becomes

\* The first step of EndCall: the end is recorded under sm.mutex.
LEMMA EndCallStateStep ==
  ASSUME FlowInv, NEW p \in Procs, EndCallState(p), UNCHANGED <<currentAgent, channel, sent>>
  PROVE  FlowInv'
  <1> DEFINE c == proc[p].call
  <1>1. /\ proc[p].pc = "endCall" /\ UpdateCallState(c, proc[p].end)
        /\ smLock = None /\ smLock' = p
        /\ UNCHANGED <<agents, currentAgent, channel, sent>>
        /\ proc' = [proc EXCEPT ![p].pc = "endAgent"]
    BY DEF EndCallState, At, Goto, Acquire
  <1>2. /\ c \in calls /\ c \in CallIDs /\ p # None
        /\ proc[p].end \in TerminalStates /\ proc[p].end \in CallStates
        /\ proc[p].end # "IN_PROGRESS"
    BY <1>1, GoroutineFacts DEF EndPcs, TerminalStates, CallStates
  <1>3. Becomes(p, "endAgent", proc[p].agent, c, proc[p].end)
    BY <1>1, GoroutineFacts, Moves DEF Pcs, EndPcs
  <1>4. Others(p) /\ LockFrame(p) /\ KeepsCall(p)
    BY <1>1, <1>3 DEF Becomes, LockFrame, KeepsCall, CallPcs, EndPcs
  <1>5. /\ calls' = calls /\ call'[c].endedAt # 0 /\ call'[c].channel = call[c].channel
    BY <1>1, <1>2, UpdateFacts DEF FlowInv
  <1>6. ProcOK(p)'
    <2>1. LocalSound(p)'
      BY <1>1, <1>2, <1>3, <1>5 DEF LocalSound, Becomes, HandlerPcs, EventPcs, AgentPcs, StartPcs,
         CleanPcs, CallPcs, EndPcs
    <2>2. (proc[p].pc \in LockedPcs <=> smLock = p)'
      BY <1>1, <1>3 DEF Becomes, LockedPcs
    <2>3. BoundOrNot(p)'
      BY <1>1, <1>3, <1>5, GoroutineFacts DEF ProcOK, BoundOrNot, UnboundPcs, EndPcs, Becomes
    <2>4. Recorded(p)' /\ Latest(p)'
      BY <1>3, <1>5 DEF Recorded, Latest, Becomes
    <2> QED
      BY <2>1, <2>2, <2>3, <2>4 DEF ProcOK
  <1> QED
    BY <1>1, <1>2, <1>3, <1>4, <1>6, UpdateKeeps DEF Becomes

\* The first step of CleanupAgent: the calls of the agent end under sm.mutex.
LEMMA CleanCallsStep ==
  ASSUME FlowInv, NEW p \in Handlers, CleanCalls(p), UNCHANGED <<currentAgent, channel, sent>>
  PROVE  FlowInv'
  <1>1. /\ proc[p].pc = "cleanCalls" /\ CleanupCallsForAgent(proc[p].agent)
        /\ smLock = None /\ smLock' = p
        /\ UNCHANGED <<agents, currentAgent, channel, sent>>
        /\ proc' = [proc EXCEPT ![p].pc = "cleanAgent"]
    BY DEF CleanCalls, At, Goto, Acquire
  <1>2. proc[p].agent \in AgentIDs /\ p \in Procs /\ p # None
    BY <1>1, HandlerFacts DEF AgentPcs, CleanPcs
  <1>3. Becomes(p, "cleanAgent", proc[p].agent, proc[p].call, proc[p].end)
    BY <1>1, HandlerFacts, Moves DEF Pcs, CleanPcs
  <1>4. ProcOK(p)' /\ KeepsCall(p)
    BY <1>1, <1>2, <1>3, NoCallOK DEF LockedPcs
  <1>5. CMInv' /\ Grown
    BY <1>1, <1>2, CleanupCallsForAgentStep DEF FlowInv
  <1>6. /\ UNCHANGED <<calls, callsByAgent, callsByChannel>>
        /\ \A d \in CallIDs : /\ call'[d].agentID = call[d].agentID
                              /\ call'[d].channel = call[d].channel
                              /\ call'[d].startedAt = call[d].startedAt
    BY <1>1 DEF CleanupCallsForAgent, FlowInv, CMInv, CMTypeOK, CallRecord
  <1>7. \A d \in CallIDs : call'[d].startedAt # 0 => call[d].channel # None
    BY <1>6 DEF FlowInv, SharedOK, BindingSound
  <1>8. Others(p) /\ LockFrame(p) /\ LatestFrame(p)
    BY <1>1, <1>3 DEF Becomes, LockFrame, LatestFrame
  <1> QED
    BY <1>1, <1>2, <1>3, <1>4, <1>5, <1>6, <1>7, <1>8, StoreKeeps DEF Becomes

\* An event that marks its call DIALING or RINGING, and no more.
LEMMA HandleProgressStep ==
  ASSUME FlowInv, NEW p \in EventProcs, HandleChannelCreated(p) \/ HandleRing(p)
  PROVE  FlowInv'
  <1> DEFINE c == CallOf(p)
  <1>1. PICK s \in {"DIALING", "RINGING"} :
          /\ proc[p].pc = "spawned" /\ c # None /\ UpdateCallState(c, s)
          /\ UNCHANGED <<agents, smLock, currentAgent, channel, sent>>
          /\ proc' = [proc EXCEPT ![p] = Done]
    BY DEF HandleChannelCreated, HandleRing, Spawned, At
  <1>2. c \in CallIDs /\ p \in Procs
    BY <1>1, EventFacts
  <1>3. Becomes(p, "done", None, None, None)
    BY <1>1, <1>2, GoroutineFacts, Moves
  <1>4. ProcOK(p)' /\ KeepsCall(p)
    BY <1>1, <1>2, <1>3, GoroutineFacts, DoneOK DEF LockedPcs
  <1>5. Others(p) /\ LockFrame(p)
    BY <1>1, <1>3 DEF Becomes, LockFrame
  <1>6. s \in CallStates /\ s \notin TerminalStates /\ s # "IN_PROGRESS"
    BY DEF CallStates, TerminalStates
  <1> HIDE DEF c
  <1> QED
    BY <1>1, <1>2, <1>3, <1>4, <1>5, <1>6, UpdateKeeps DEF Becomes

\* An event that connects its call, or ends it, and goes on to tell the peer.
LEMMA HandleUpDownStep ==
  ASSUME FlowInv, NEW p \in EventProcs, HandleUp(p) \/ HandleDown(p)
  PROVE  FlowInv'
  <1> DEFINE c == CallOf(p)
  <1>1. /\ proc[p].pc = "spawned" /\ c # None
        /\ UNCHANGED <<agents, smLock, currentAgent, channel, sent>>
    BY DEF HandleUp, HandleDown, Spawned, At
  <1>2. /\ c \in calls /\ c \in CallIDs /\ call[c].channel = p[1] /\ p[1] # None
        /\ p \in Procs /\ p \notin Handlers
        /\ proc[p].end = None /\ Rank(p[2]) <= Rank(channel[p[1]].phase)
    BY <1>1, EventFacts, NoneIsFresh
  <1>3. PICK s \in {"IN_PROGRESS", "ENDED"}, e \in {None, "ENDED"} :
          /\ UpdateCallState(c, s)
          /\ Becomes(p, "report", proc[p].agent, c, e)
          /\ s = "IN_PROGRESS" <=> e = None
    <2>1. "report" \in Pcs /\ "ENDED" \in TerminalStates
      BY DEF Pcs, CallerPcs, TerminalStates
    <2>2. CASE HandleUp(p)
      <3>1. proc' = [proc EXCEPT ![p].pc = "report", ![p].call = c]
        BY <2>2 DEF HandleUp
      <3>2. Becomes(p, "report", proc[p].agent, c, None)
        BY <1>2, <2>1, <3>1, GoroutineFacts, Moves
      <3> QED
        BY <2>2, <3>2 DEF HandleUp
    <2>3. CASE HandleDown(p)
      <3>1. proc' = [proc EXCEPT ![p] =
                       [@ EXCEPT !.pc = "report", !.call = c, !.end = "ENDED"]]
        BY <2>3 DEF HandleDown
      <3>2. Becomes(p, "report", proc[p].agent, c, "ENDED")
        BY <1>2, <2>1, <3>1, GoroutineFacts, Moves
      <3>3. "ENDED" # None
        BY <2>1, NoneIsFresh
      <3> QED
        BY <2>3, <3>2, <3>3 DEF HandleDown
    <2> QED
      BY <2>2, <2>3
  <1> HIDE DEF c
  <1>4. /\ s \in CallStates /\ (s \in TerminalStates <=> s = "ENDED")
        /\ e # None => e \in TerminalStates
    BY DEF CallStates, TerminalStates
  <1>5. /\ calls' = calls /\ call'[c].channel = call[c].channel
        /\ s = "IN_PROGRESS" => call'[c].startedAt # 0
        /\ s \in TerminalStates => call'[c].endedAt # 0
    BY <1>2, <1>3, <1>4, UpdateFacts DEF FlowInv
  <1>6. ProcOK(p)'
    <2>1. LocalSound(p)'
      BY <1>2, <1>3, <1>5 DEF LocalSound, Becomes, EventPcs, AgentPcs, StartPcs, CleanPcs, EndPcs
    <2>2. (proc[p].pc \in LockedPcs <=> smLock = p)'
      BY <1>1, <1>2, <1>3, GoroutineFacts DEF Becomes, LockedPcs
    <2>3. BoundOrNot(p)'
      BY <1>1, <1>2, <1>3, <1>5 DEF BoundOrNot, EndPcs, Becomes
    <2>4. Recorded(p)' /\ Latest(p)'
      BY <1>2, <1>3, <1>4, <1>5 DEF Recorded, Latest, Becomes
    <2> QED
      BY <2>1, <2>2, <2>3, <2>4 DEF ProcOK
  <1>7. Others(p) /\ LockFrame(p) /\ KeepsCall(p)
    BY <1>1, <1>3 DEF Becomes, LockFrame, KeepsCall
  <1> QED
    BY <1>1, <1>2, <1>3, <1>4, <1>6, <1>7, UpdateKeeps DEF Becomes

\* StartCall creates the call: it is nobody else's, and the agent's latest.
LEMMA StartCreateStep ==
  ASSUME FlowInv, NEW p \in Handlers, NEW c \in CallIDs, NEW r \in RefIDs \cup {None},
         StartCreate(p, c, r), UNCHANGED <<currentAgent, channel, sent>>
  PROVE  FlowInv'
  <1> DEFINE b == proc[p].agent
  <1>1. /\ proc[p].pc = "create" /\ CreateCall(c, b, r)
        /\ UNCHANGED <<agents, smLock, currentAgent, channel, sent>>
        /\ proc' = [proc EXCEPT ![p].pc = "setBusy", ![p].call = c]
    BY DEF StartCreate, At
  <1>2. p \in Procs /\ p \notin EventProcs /\ b \in AgentIDs /\ smLock = p
    BY <1>1, HandlerFacts DEF AgentPcs, StartPcs, LockedPcs
  <1>3. Becomes(p, "setBusy", b, c, proc[p].end)
    BY <1>1, HandlerFacts, Moves DEF Pcs, StartPcs
  <1>4. CMInv' /\ Grown
    BY <1>1, <1>2, CreateCallStep DEF FlowInv
  <1>5. c \notin calls /\ call[c] = NoCall
    BY <1>1 DEF CreateCall, FlowInv, CMInv, UnusedClean
  <1>6. /\ calls' = calls \cup {c} /\ callsByChannel' = callsByChannel
        /\ callsByAgent' = [callsByAgent EXCEPT ![b] = c]
        /\ \A d \in CallIDs : d # c => call'[d] = call[d]
        /\ call'[c] = NewCall(b, r)
    BY <1>1 DEF CreateCall, FlowInv, CMInv, CMTypeOK
  <1>7. call'[c].agentID = b /\ call'[c].channel = None
        /\ call'[c].startedAt = 0 /\ call'[c].endedAt = 0
    BY <1>6 DEF NewCall, NoCall
  <1>8. callsByAgent'[b] = c /\ \A d \in AgentIDs : d # b => callsByAgent'[d] = callsByAgent[d]
    BY <1>2, <1>6 DEF FlowInv, CMInv, CMTypeOK
  <1>9. calls \subseteq CallIDs
    BY DEF FlowInv, CMInv, CMTypeOK
  <1>10. Others(p) /\ FlowTypes'
    BY <1>1, <1>3 DEF Becomes, FlowInv, FlowTypes
  <1>11. Frame(p)
    BY <1>1, <1>2, <1>5, <1>6, <1>9 DEF Frame, LockFrame, BindingFrame, RecordFrame, LatestFrame, Told
  <1>12. ProcOK(p)'
    <2>1. LocalSound(p)'
      BY <1>2, <1>3, <1>6 DEF LocalSound, Becomes, HandlerPcs, StartPcs, EndPcs
    <2>2. (proc[p].pc \in LockedPcs <=> smLock = p)'
      BY <1>1, <1>2, <1>3 DEF Becomes, LockedPcs
    <2>3. BoundOrNot(p)' /\ Recorded(p)'
      BY <1>2, <1>3, <1>7 DEF BoundOrNot, Recorded, Becomes
    <2>4. Latest(p)'
      BY <1>3, <1>7, <1>8 DEF Latest, Becomes
    <2> QED
      BY <2>1, <2>2, <2>3, <2>4 DEF ProcOK
  <1>13. OneOwner'
    <2>1. \A q \in Handlers \ {p} : /\ proc'[q] = proc[q]
                                    /\ proc[q].pc \in CallPcs => proc[q].call # c
      BY <1>5, <1>10, HandlerFacts DEF Others
    <2>2. proc'[p].call = c
      BY <1>3 DEF Becomes
    <2> QED
      BY <2>1, <2>2 DEF OneOwner, FlowInv
  <1>14. CallsHaveAgents' /\ FreeChannels'
    BY <1>1, <1>2, <1>6, <1>7, <1>9 DEF FlowInv, SharedOK, CallsHaveAgents, FreeChannels
  <1>15. BindingSound'
    BY <1>1, <1>6, <1>7 DEF FlowInv, SharedOK, BindingSound
  <1>16. TruthfulReports'
    BY <1>1, <1>4, StampsStay DEF FlowInv, SharedOK, TruthfulReports, Told, Precedes
  <1>17. CurrentCallIndexed'
    <2> SUFFICES ASSUME NEW d \in AgentIDs, agents'[d].callID \notin {None, callsByAgent'[d]}
                 PROVE  \E q \in Procs : At(q, "setBusy")' /\ proc'[q].agent = d
      BY DEF CurrentCallIndexed
    <2>1. CASE d = b
      BY <1>2, <1>3, <2>1 DEF Becomes, At
    <2>2. CASE d # b
      <3>1. PICK q \in Procs : At(q, "setBusy") /\ proc[q].agent = d
        BY <1>1, <1>8, <2>2 DEF FlowInv, SharedOK, CurrentCallIndexed
      <3>2. q # p /\ proc'[q] = proc[q]
        BY <1>1, <1>10, <3>1 DEF Others, At
      <3> QED
        BY <3>1, <3>2 DEF At
    <2> QED
      BY <2>1, <2>2
  <1> QED
    BY <1>2, <1>4, <1>10, <1>11, <1>12, <1>13, <1>14, <1>15, <1>16, <1>17, StepKeeps DEF SharedOK

\* The answer of Asterisk binds the call to the channel it took for it.
LEMMA OriginateReplyStep ==
  ASSUME FlowInv, NEW p \in Handlers, NEW ch \in Channels, OriginateReply(p, ch)
  PROVE  FlowInv'
  <1> DEFINE c == proc[p].call
  <1>1. /\ proc[p].pc = "originate" /\ SetCallChannel(c, ch) /\ channel[ch].call = c
        /\ UNCHANGED <<agents, smLock, currentAgent, channel, sent>>
        /\ proc' = [proc EXCEPT ![p].pc = "dial"]
    BY DEF OriginateReply, At, Goto
  <1>2. /\ c \in calls /\ c \in CallIDs /\ p \in Procs /\ p \notin EventProcs
        /\ call[c].channel = None /\ c # None /\ ch # None
    BY <1>1, HandlerFacts, NoneIsFresh
    DEF CallPcs, ProcOK, BoundOrNot, UnboundPcs, FlowInv, CMInv, CMTypeOK
  <1>3. Becomes(p, "dial", proc[p].agent, c, proc[p].end)
    BY <1>1, HandlerFacts, Moves DEF Pcs, CallerPcs
  <1> HIDE DEF c
  <1>4. CMInv' /\ Grown
    BY <1>1, <1>2, SetCallChannelStep DEF FlowInv
  <1>5. /\ UNCHANGED <<calls, callsByAgent>>
        /\ call'[c].channel = ch
        /\ \A d \in CallIDs : d # c => call'[d].channel = call[d].channel
        /\ \A d \in CallIDs : /\ call'[d].agentID = call[d].agentID
                              /\ call'[d].startedAt = call[d].startedAt
                              /\ call'[d].endedAt = call[d].endedAt
    BY <1>1, <1>2 DEF SetCallChannel, FlowInv, CMInv, CMTypeOK, CallRecord
  <1>6. /\ callsByChannel'[ch] = c
        /\ \A x \in Channels : x # ch => callsByChannel'[x] = callsByChannel[x]
    BY <1>1, <1>2, NoneIsFresh DEF SetCallChannel
  <1>7. calls \subseteq CallIDs
    BY DEF FlowInv, CMInv, CMTypeOK
  <1>8. Others(p) /\ FlowTypes' /\ KeepsCall(p)
    BY <1>1, <1>3 DEF Becomes, FlowInv, FlowTypes, KeepsCall, CallPcs, c
  <1>9. OneOwner'
    BY <1>2, <1>8, OwnerKept
  <1>10. Frame(p)
    BY <1>1, <1>2, <1>5, <1>7 DEF Frame, LockFrame, BindingFrame, RecordFrame, LatestFrame, Told,
       CallPcs, c
  <1>11. ProcOK(p)'
    <2>1. LocalSound(p)'
      BY <1>2, <1>3, <1>5 DEF LocalSound, Becomes, HandlerPcs, AgentPcs, StartPcs, CleanPcs, EndPcs
    <2>2. (proc[p].pc \in LockedPcs <=> smLock = p)'
      BY <1>1, <1>3, HandlerFacts DEF Becomes, LockedPcs
    <2>3. BoundOrNot(p)' /\ Recorded(p)' /\ Latest(p)'
      BY <1>2, <1>3 DEF BoundOrNot, UnboundPcs, EndPcs, Recorded, Latest, Becomes
    <2> QED
      BY <2>1, <2>2, <2>3 DEF ProcOK
  <1>12. CallsHaveAgents' /\ FreeChannels'
    BY <1>1, <1>5, <1>7 DEF FlowInv, SharedOK, CallsHaveAgents, FreeChannels
  <1>13. BindingSound'
    <2>1. \A d \in CallIDs : d # c => call[d].channel # ch
      BY <1>1, <1>2 DEF FlowInv, SharedOK, BindingSound
    <2>2. \A d \in CallIDs : call[d].channel \in Channels \cup {None}
      BY DEF FlowInv, CMInv, CMTypeOK, CallRecord
    <2> QED
      BY <1>1, <1>2, <1>5, <1>6, <2>1, <2>2 DEF FlowInv, SharedOK, BindingSound
  <1>14. TruthfulReports'
    BY <1>1, <1>5 DEF FlowInv, SharedOK, TruthfulReports, Told, Precedes
  <1>15. CurrentCallIndexed'
    BY <1>1, <1>2, <1>5, <1>8, IndexedKept
  <1> QED
    BY <1>2, <1>4, <1>8, <1>9, <1>10, <1>11, <1>12, <1>13, <1>14, <1>15, StepKeeps DEF SharedOK

----------------------------------------------------------------------------
(* The steps that change a channel. *)

\* A channel moves on, or is taken by a call; no call is bound anew.
LEMMA ChannelKeeps ==
  ASSUME FlowInv, NEW p \in Procs, Others(p), KeepsCall(p), LockFrame(p),
         UNCHANGED <<cmVars, agents, currentAgent, sent>>, proc' \in [Procs -> Local],
         proc[p].pc # "setBusy", ProcOK(p)',
         channel' \in [Channels -> [phase : Range(Phases), call : CallIDs \cup {None}]],
         \A ch \in Channels :
           /\ channel'[ch].phase # "free" \/ channel'[ch] = channel[ch]
           /\ channel'[ch].call = channel[ch].call \/ channel[ch].phase = "free"
           /\ channel[ch].phase = "free" \/ Rank(channel[ch].phase) <= Rank(channel'[ch].phase)
  PROVE  FlowInv'
  <1>1. CMInv' /\ Grown
    BY NextInv DEF FlowInv
  <1>2. \A ch \in Channels, e \in EventTypes :
          Rank(e) <= Rank(channel[ch].phase) => Rank(e) <= Rank(channel'[ch].phase)
    <2>1. \A ch \in Channels : channel[ch].phase \in Range(Phases) /\ channel'[ch].phase \in Range(Phases)
      BY DEF FlowInv, FlowTypes
    <2>2. \A x \in Range(Phases) : Rank(x) \in 1..7
      BY RankFacts
    <2>3. \A e \in EventTypes : Rank(e) \in 1..7 /\ Rank(e) > 2 /\ Rank("free") = 1
      BY RankFacts
    <2> QED
      BY <2>1, <2>2, <2>3
  <1>3. Frame(p)
    BY <1>2 DEF Frame, BindingFrame, RecordFrame, LatestFrame, Told, cmVars
  <1>4. OneOwner'
    BY OwnerKept
  <1>5. FlowTypes'
    BY DEF FlowInv, FlowTypes, LockFrame
  <1>6. CurrentCallIndexed'
    BY IndexedKept DEF cmVars
  <1>7. CallsHaveAgents' /\ TruthfulReports'
    BY DEF FlowInv, SharedOK, CallsHaveAgents, TruthfulReports, Told, Precedes, cmVars
  <1>8. FreeChannels'
    BY DEF FlowInv, SharedOK, FreeChannels
  <1>9. BindingSound'
    <2>1. \A c \in CallIDs : c # None /\ call[c].channel \in Channels \cup {None}
      BY NoneIsFresh DEF FlowInv, CMInv, CMTypeOK, CallRecord
    <2> QED
      BY <2>1 DEF FlowInv, SharedOK, BindingSound, FreeChannels, cmVars
  <1> QED
    BY <1>1, <1>3, <1>4, <1>5, <1>6, <1>7, <1>8, <1>9, StepKeeps DEF SharedOK

\* An answer without an id changes nothing in the store.
LEMMA NoIdBindsNothing ==
  ASSUME FlowInv, NEW p \in Handlers, OriginateReplyNoId(p)
  PROVE  UNCHANGED cmVars
  <1> DEFINE c == proc[p].call
  <1>1. proc[p].pc = "originate" /\ SetCallChannel(c, None)
    BY DEF OriginateReplyNoId, At
  <1>2. c \in CallIDs /\ call[c].channel = None /\ call \in [CallIDs -> CallRecord]
    BY <1>1, HandlerFacts
    DEF CallPcs, ProcOK, BoundOrNot, UnboundPcs, FlowInv, CMInv, CMTypeOK
  <1> HIDE DEF c
  <1>3. call' = [call EXCEPT ![c].channel = None] /\ UNCHANGED <<calls, callsByRefID, callsByAgent>>
    BY <1>1 DEF SetCallChannel
  <1>4. [call[c] EXCEPT !.channel = None] = call[c]
    BY <1>2 DEF CallRecord
  <1>5. call' = call
    BY <1>2, <1>3, <1>4
  <1>6. callsByChannel' = callsByChannel
    <2>1. callsByChannel' = [x \in Channels |-> IF x = None THEN c
                                               ELSE IF x = call[c].channel THEN None
                                               ELSE callsByChannel[x]]
      BY <1>1 DEF SetCallChannel
    <2>2. callsByChannel \in [Channels -> CallIDs \cup {None}] /\ None \notin Channels
      BY NoneIsFresh DEF FlowInv, CMInv, CMTypeOK
    <2> QED
      BY <1>2, <2>1, <2>2
  <1> QED
    BY <1>3, <1>5, <1>6 DEF cmVars

\* Asterisk may take a channel for the call that is placed.
LEMMA PlaceStep ==
  ASSUME FlowInv, NEW p \in Handlers,
         EmulateIncomingCall(p) \/ OriginateReplyNoId(p) \/ \E ch \in Channels : Originate(p, ch)
  PROVE  FlowInv'
  <1> DEFINE c == proc[p].call
  <1>1. PICK pc \in {"dial", "originate"} :
          /\ proc[p].pc \in {"process", "originate"}
          /\ UNCHANGED <<cmVars, agents, smLock, currentAgent, sent>>
          /\ channel' = channel \/ \E ch \in Channels : NewChannel(ch, c)
          /\ proc' = [proc EXCEPT ![p].pc = pc]
    BY NoIdBindsNothing DEF EmulateIncomingCall, Originate, OriginateReplyNoId, At, Goto
  <1>2. /\ c \in calls /\ c \in CallIDs /\ p \in Procs /\ p \notin EventProcs
        /\ call[c].channel = None
    BY <1>1, HandlerFacts DEF CallPcs, ProcOK, BoundOrNot, UnboundPcs, FlowInv, CMInv, CMTypeOK
  <1>3. Becomes(p, pc, proc[p].agent, c, proc[p].end)
    BY <1>1, HandlerFacts, Moves DEF Pcs, CallerPcs
  <1>4. ProcOK(p)'
    <2>1. LocalSound(p)'
      BY <1>1, <1>2, <1>3 DEF LocalSound, Becomes, HandlerPcs, AgentPcs, StartPcs, CleanPcs, EndPcs,
         cmVars
    <2>2. (proc[p].pc \in LockedPcs <=> smLock = p)'
      BY <1>1, <1>3, HandlerFacts DEF Becomes, LockedPcs
    <2>3. BoundOrNot(p)' /\ Recorded(p)' /\ Latest(p)'
      BY <1>1, <1>2, <1>3 DEF BoundOrNot, Recorded, Latest, Becomes, cmVars
    <2> QED
      BY <2>1, <2>2, <2>3 DEF ProcOK
  <1>5. Others(p) /\ LockFrame(p) /\ KeepsCall(p)
    BY <1>1, <1>3 DEF Becomes, LockFrame, KeepsCall, CallPcs
  <1>6. /\ channel' \in [Channels -> [phase : Range(Phases), call : CallIDs \cup {None}]]
        /\ \A ch \in Channels :
             /\ channel'[ch].phase # "free" \/ channel'[ch] = channel[ch]
             /\ channel'[ch].call = channel[ch].call \/ channel[ch].phase = "free"
             /\ channel[ch].phase = "free" \/ Rank(channel[ch].phase) <= Rank(channel'[ch].phase)
    <2>1. /\ channel \in [Channels -> [phase : Range(Phases), call : CallIDs \cup {None}]]
          /\ \A ch \in Channels : Rank(channel[ch].phase) \in 1..7
      BY RankFacts DEF FlowInv, FlowTypes
    <2>2. CASE channel' = channel
      BY <2>1, <2>2
    <2>3. CASE \E ch \in Channels : NewChannel(ch, c)
      <3>1. PICK x \in Channels : NewChannel(x, c)
        BY <2>3
      <3>2. "new" \in Range(Phases)
        BY RankFacts
      <3>3. /\ channel[x].phase = "free"
            /\ channel' = [channel EXCEPT ![x] = [phase |-> "new", call |-> c]]
        BY <3>1 DEF NewChannel
      <3> QED
        BY <1>2, <2>1, <3>2, <3>3
    <2> QED
      BY <1>1, <2>2, <2>3
  <1> QED
    BY <1>1, <1>2, <1>3, <1>4, <1>5, <1>6, ChannelKeeps DEF Becomes

\* Asterisk reports a channel: the goroutine of the event begins.
LEMMA ChannelEventStep ==
  ASSUME FlowInv, NEW ch \in Channels, NEW e \in EventTypes, ChannelEvent(ch, e)
  PROVE  FlowInv'
  <1> DEFINE p == <<ch, e>>
  <1>1. /\ channel[ch].phase # "free" /\ Rank(channel[ch].phase) < Rank(e)
        /\ channel' = [channel EXCEPT ![ch].phase = e]
        /\ proc' = [proc EXCEPT ![p].pc = "spawned"]
        /\ UNCHANGED <<cmVars, agents, smLock, currentAgent, sent>>
    BY DEF ChannelEvent
  <1>2. p \in EventProcs /\ p[1] = ch /\ p[2] = e
    BY ProcKinds
  <1> HIDE DEF p
  <1>3. p \in Procs /\ p \notin Handlers /\ ProcOK(p)
    BY <1>2, EventFacts, GoroutineFacts
  <1>4. /\ channel[ch].phase \in Range(Phases) /\ e \in Range(Phases)
        /\ Rank(channel[ch].phase) \in 1..7 /\ Rank(e) \in 1..7 /\ e # "free"
        /\ \A x \in Channels : Rank(channel[x].phase) \in 1..7
    <2>1. \A x \in Channels : channel[x].phase \in Range(Phases)
      BY DEF FlowInv, FlowTypes
    <2>2. e \in Range(Phases) /\ Rank(e) > 2 /\ Rank("free") = 1
      BY RankFacts
    <2>3. \A x \in Range(Phases) : Rank(x) \in 1..7
      BY RankFacts
    <2> QED
      BY <2>1, <2>2, <2>3
  <1>5. proc[p].pc = "idle" /\ proc[p].end = None
    BY <1>1, <1>2, <1>3, <1>4 DEF ProcOK, BoundOrNot, LocalSound
  <1>6. Becomes(p, "spawned", proc[p].agent, proc[p].call, proc[p].end)
    BY <1>1, <1>3, GoroutineFacts, Moves DEF Pcs, CallerPcs
  <1>7. channel \in [Channels -> [phase : Range(Phases), call : CallIDs \cup {None}]]
    BY DEF FlowInv, FlowTypes
  <1>8. /\ channel' \in [Channels -> [phase : Range(Phases), call : CallIDs \cup {None}]]
        /\ channel'[ch].phase = e
        /\ \A x \in Channels : channel'[x].call = channel[x].call
        /\ \A x \in Channels : x # ch => channel'[x] = channel[x]
    BY <1>1, <1>4, <1>7
  <1>9. ProcOK(p)'
    <2>1. LocalSound(p)'
      BY <1>3, <1>5, <1>6 DEF LocalSound, Becomes, EventPcs, AgentPcs, StartPcs, CleanPcs, CallPcs,
         EndPcs
    <2>2. (proc[p].pc \in LockedPcs <=> smLock = p)'
      BY <1>1, <1>3, <1>5, <1>6 DEF ProcOK, Becomes, LockedPcs
    <2>3. BoundOrNot(p)' /\ Recorded(p)' /\ Latest(p)'
      BY <1>2, <1>3, <1>4, <1>6, <1>8 DEF BoundOrNot, EndPcs, Recorded, Latest, Becomes
    <2> QED
      BY <2>1, <2>2, <2>3 DEF ProcOK
  <1>10. Others(p) /\ LockFrame(p) /\ KeepsCall(p)
    BY <1>1, <1>2, <1>6 DEF Becomes, LockFrame, KeepsCall
  <1>11. \A x \in Channels :
           /\ channel'[x].phase # "free" \/ channel'[x] = channel[x]
           /\ channel'[x].call = channel[x].call \/ channel[x].phase = "free"
           /\ channel[x].phase = "free" \/ Rank(channel[x].phase) <= Rank(channel'[x].phase)
    BY <1>1, <1>4, <1>8
  <1> QED
    BY <1>1, <1>3, <1>5, <1>6, <1>8, <1>9, <1>10, <1>11, ChannelKeeps DEF Becomes

----------------------------------------------------------------------------
(* The steps that send a message. *)

\* One more name at the end of what was sent about a call.
LEMMA SendFacts ==
  ASSUME FlowInv, NEW c \in CallIDs, NEW name \in MessageNames, Send(c, name)
  PROVE  /\ sent' \in [CallIDs -> Seq(MessageNames)]
         /\ \A d \in CallIDs, n \in MessageNames :
              Told(d, n)' <=> Told(d, n) \/ (d = c /\ n = name)
         /\ (name = "success" => Told(c, "callStarted")) =>
              \A d \in CallIDs : Precedes(d, "callStarted", "success")'
  <1>1. /\ sent \in [CallIDs -> Seq(MessageNames)]
        /\ sent' = [sent EXCEPT ![c] = Append(sent[c], name)]
        /\ \A d \in CallIDs : Precedes(d, "callStarted", "success")
    BY DEF Send, FlowInv, FlowTypes, SharedOK, TruthfulReports
  <1>2. sent' \in [CallIDs -> Seq(MessageNames)] /\ sent'[c] = Append(sent[c], name)
    BY <1>1
  <1>3. \A d \in CallIDs : d # c => sent'[d] = sent[d]
    BY <1>1
  <1> DEFINE s == sent[c]
             t == Append(s, name)
  <1>4. /\ s \in Seq(MessageNames) /\ Len(s) \in Nat
        /\ DOMAIN s = 1..Len(s) /\ DOMAIN t = 1..(Len(s) + 1)
        /\ t[Len(s) + 1] = name
        /\ \A i \in 1..Len(s) : t[i] = s[i]
    BY <1>1
  <1>5. \A n : n \in Range(t) <=> n \in Range(s) \/ n = name
    <2> HIDE DEF s, t
    <2>1. \A n : /\ n \in Range(s) <=> \E i \in 1..Len(s) : s[i] = n
                 /\ n \in Range(t) <=> \E i \in 1..(Len(s) + 1) : t[i] = n
      BY <1>4 DEF Range
    <2> QED
      BY <1>4, <2>1
  <1>6. \A d \in CallIDs, n \in MessageNames :
          Told(d, n)' <=> Told(d, n) \/ (d = c /\ n = name)
    BY <1>2, <1>3, <1>5 DEF Told
  <1>7. ASSUME name = "success" => Told(c, "callStarted"), NEW d \in CallIDs
        PROVE  Precedes(d, "callStarted", "success")'
    <2>1. CASE d # c
      BY <1>1, <1>3, <2>1 DEF Precedes
    <2>2. CASE d = c
      <3>1. name = "success" => \E i \in 1..Len(s) : s[i] = "callStarted"
        BY <1>4, <1>7 DEF Told, Range
      <3>2. \A j \in 1..Len(s) : s[j] = "success" => \E i \in 1..(j - 1) : s[i] = "callStarted"
        BY <1>1, <1>4 DEF Precedes
      <3> SUFFICES \A j \in 1..(Len(s) + 1) :
                     t[j] = "success" => \E i \in 1..(j - 1) : t[i] = "callStarted"
        BY <1>2, <1>4, <2>2 DEF Precedes
      <3> HIDE DEF s, t
      <3> QED
        BY <1>4, <3>1, <3>2
    <2> QED
      BY <2>1, <2>2
  <1> QED
    BY <1>2, <1>6, <1>7

\* A goroutine tells the peer what is true.
LEMMA SendKeeps ==
  ASSUME FlowInv, NEW p \in Procs, Others(p), KeepsCall(p),
         UNCHANGED <<cmVars, agents, smLock, currentAgent, channel>>,
         NEW c \in CallIDs, NEW name \in MessageNames, Send(c, name),
         name \in {"callEnded", "callFailed"} => call[c].endedAt # 0,
         name = "callConnected" => call[c].startedAt # 0,
         name = "success" => Told(c, "callStarted"),
         proc' \in [Procs -> Local], proc[p].pc # "setBusy", ProcOK(p)'
  PROVE  FlowInv'
  <1>1. CMInv' /\ Grown
    BY NextInv DEF FlowInv
  <1>2. /\ sent' \in [CallIDs -> Seq(MessageNames)]
        /\ \A d \in CallIDs, n \in MessageNames :
             Told(d, n)' <=> Told(d, n) \/ (d = c /\ n = name)
        /\ \A d \in CallIDs : Precedes(d, "callStarted", "success")'
    BY SendFacts
  <1>3. Frame(p)
    BY <1>2 DEF Frame, LockFrame, BindingFrame, RecordFrame, LatestFrame, cmVars
  <1>4. OneOwner'
    BY OwnerKept
  <1>5. FlowTypes'
    BY <1>2 DEF FlowInv, FlowTypes
  <1>6. CurrentCallIndexed'
    BY IndexedKept DEF cmVars
  <1>7. CallsHaveAgents' /\ FreeChannels' /\ BindingSound'
    BY DEF FlowInv, SharedOK, CallsHaveAgents, FreeChannels, BindingSound, cmVars
  <1>8. TruthfulReports'
    BY <1>2 DEF FlowInv, SharedOK, TruthfulReports, MessageNames, cmVars
  <1> QED
    BY <1>1, <1>3, <1>4, <1>5, <1>6, <1>7, <1>8, StepKeeps DEF SharedOK

\* The peer hears callStarted.
LEMMA SendStartedStep ==
  ASSUME FlowInv, NEW p \in Handlers, SendStarted(p)
  PROVE  FlowInv'
  <1>1. /\ proc[p].pc = "started" /\ Send(proc[p].call, "callStarted")
        /\ UNCHANGED <<cmVars, agents, smLock, currentAgent, channel>>
        /\ proc' = [proc EXCEPT ![p].pc = "success"]
    BY DEF SendStarted, At, Goto
  <1>2. proc[p].call \in calls /\ proc[p].call \in CallIDs /\ p \in Procs /\ p \notin EventProcs
    BY <1>1, HandlerFacts DEF CallPcs, FlowInv, CMInv, CMTypeOK
  <1>3. PICK c \in CallIDs : c = proc[p].call
    BY <1>2
  <1>4. Becomes(p, "success", proc[p].agent, c, proc[p].end)
    BY <1>1, <1>3, HandlerFacts, Moves DEF Pcs, CallerPcs
  <1>5. "callStarted" \in MessageNames /\ Send(c, "callStarted")
    BY <1>1, <1>3 DEF MessageNames
  <1>6. Told(c, "callStarted")'
    BY <1>5, SendFacts
  <1>7. ProcOK(p)'
    <2>1. LocalSound(p)'
      BY <1>1, <1>2, <1>3, <1>4 DEF LocalSound, Becomes, HandlerPcs, AgentPcs, StartPcs, CleanPcs,
         CallPcs, EndPcs, cmVars
    <2>2. (proc[p].pc \in LockedPcs <=> smLock = p)'
      BY <1>1, <1>4, HandlerFacts DEF Becomes, LockedPcs
    <2>3. BoundOrNot(p)' /\ Recorded(p)' /\ Latest(p)'
      BY <1>2, <1>4, <1>6 DEF BoundOrNot, UnboundPcs, EndPcs, Recorded, Latest, Becomes
    <2> QED
      BY <2>1, <2>2, <2>3 DEF ProcOK
  <1>8. Others(p) /\ KeepsCall(p)
    BY <1>1, <1>3, <1>4 DEF Becomes, KeepsCall, CallPcs
  <1> QED
    BY <1>1, <1>2, <1>3, <1>4, <1>5, <1>7, <1>8, SendKeeps DEF Becomes

\* The peer hears of the success, if its command had a refId.
LEMMA SendSuccessStep ==
  ASSUME FlowInv, NEW p \in Handlers, SendSuccess(p)
  PROVE  FlowInv'
  <1> DEFINE c == proc[p].call
  <1>1. /\ proc[p].pc = "success" /\ (Send(c, "success") \/ UNCHANGED sent)
        /\ UNCHANGED <<cmVars, agents, smLock, currentAgent, channel>>
        /\ proc' = [proc EXCEPT ![p] = Idle]
    BY DEF SendSuccess, At, Finish
  <1>2. c \in CallIDs /\ p \in Procs /\ Told(c, "callStarted")
    BY <1>1, HandlerFacts DEF CallPcs, ProcOK, Recorded, FlowInv, CMInv, CMTypeOK
  <1>3. Becomes(p, "idle", None, None, None)
    BY <1>1, <1>2, HandlerFacts, Moves
  <1>4. ProcOK(p)' /\ KeepsCall(p)
    BY <1>1, <1>3, HandlerFacts, NoCallOK DEF LockedPcs, AgentPcs, StartPcs, CleanPcs
  <1>5. (FlowTypes' /\ LockFrame(p) /\ CurrentCallIndexed') \/ Send(c, "success")
    BY <1>1, <1>2, <1>3, IndexedKept DEF FlowInv, FlowTypes, LockFrame, Becomes, cmVars
  <1>6. "success" \in MessageNames
    BY DEF MessageNames
  <1> HIDE DEF c
  <1> QED
    BY <1>1, <1>2, <1>3, <1>4, <1>5, <1>6, SendKeeps, QuietKeeps DEF Becomes

\* The outcome of a call is announced, after it was recorded.
LEMMA ReportStep ==
  ASSUME FlowInv, NEW p \in Procs, Report(p)
  PROVE  FlowInv'
  <1> DEFINE c == proc[p].call
             name == Outcome(proc[p].end)
  <1>1. /\ proc[p].pc = "report" /\ Send(c, name)
        /\ UNCHANGED <<cmVars, agents, smLock, currentAgent, channel>>
        /\ proc' = [proc EXCEPT ![p] = IF p \in Handlers THEN Idle ELSE Done]
    BY DEF Report, At
  <1>2. /\ c \in CallIDs
        /\ IF proc[p].end = None THEN call[c].startedAt # 0 ELSE call[c].endedAt # 0
    BY <1>1, GoroutineFacts DEF ProcOK, Recorded
  <1>3. /\ name \in MessageNames /\ name # "success"
        /\ name \in {"callEnded", "callFailed"} => proc[p].end # None
        /\ name = "callConnected" => proc[p].end = None
    BY GoroutineFacts, NoneIsFresh DEF Outcome, MessageNames, TerminalStates
  <1>4. ProcOK(p)' /\ KeepsCall(p) /\ Others(p) /\ proc' \in [Procs -> Local]
    <2>1. CASE p \in Handlers
      <3>1. Becomes(p, "idle", None, None, None)
        BY <1>1, <2>1, HandlerFacts, Moves
      <3>2. smLock' # p
        BY <1>1, GoroutineFacts DEF LockedPcs
      <3> QED
        BY <2>1, <3>1, <3>2, NoCallOK DEF LockedPcs, AgentPcs, StartPcs, CleanPcs, Becomes
    <2>2. CASE p \in EventProcs
      <3>1. Becomes(p, "done", None, None, None)
        BY <1>1, <2>2, EventFacts, GoroutineFacts, Moves
      <3>2. smLock' # p
        BY <1>1, GoroutineFacts DEF LockedPcs
      <3> QED
        BY <1>1, <2>2, <3>1, <3>2, DoneOK DEF Becomes
    <2> QED
      BY <2>1, <2>2, GoroutineFacts
  <1> HIDE DEF c, name
  <1> QED
    BY <1>1, <1>2, <1>3, <1>4, SendKeeps

----------------------------------------------------------------------------
(* All steps together. *)

\* The steps of the operations of the StateManager, by their goroutine.
LEMMA StateManagerStepKeeps ==
  ASSUME FlowInv, NEW p \in Procs, StateManagerStep(p)
  PROVE  FlowInv'
  <1>1. UNCHANGED <<currentAgent, channel, sent>>
    BY DEF StateManagerStep
  <1>2. CASE EndCallStep(p)
    BY <1>1, <1>2, EndCallStateStep, CheckBusyStep, FreeAgentStep DEF EndCallStep
  <1>3. CASE StartCallStep(p) \/ CleanupStep(p)
    <2>1. p \in Handlers
      <3>1. proc[p].pc \in StartPcs \cup CleanPcs
        BY <1>3 DEF StartCallStep, CleanupStep, CheckAgent, CheckCall, CheckPcs, StartCreate, SetBusy,
           CleanCalls, CleanAgent, At, StartPcs, CleanPcs
      <3> QED
        BY <3>1, GoroutineFacts DEF ProcOK, LocalSound, EventPcs, EndPcs, StartPcs, CleanPcs
    <2>2. CASE StartCallStep(p)
      <3>1. CASE CheckAgent(p) \/ CheckCall(p)
        BY <1>1, <2>1, <3>1, StartChecksStep
      <3>2. CASE \E c \in CallIDs, r \in RefIDs \cup {None} : StartCreate(p, c, r)
        BY <1>1, <2>1, <3>2, StartCreateStep
      <3>3. CASE SetBusy(p, "BUSY")
        BY <1>1, <2>1, <3>3, SetBusyStep
      <3> QED
        BY <2>2, <3>1, <3>2, <3>3 DEF StartCallStep
    <2>3. CASE CleanupStep(p)
      BY <1>1, <2>1, <2>3, CleanCallsStep, CleanAgentStep DEF CleanupStep
    <2> QED
      BY <1>3, <2>2, <2>3
  <1> QED
    BY <1>2, <1>3 DEF StateManagerStep

\* The steps of a command beyond the StateManager.
LEMMA HandlerStepKeeps ==
  ASSUME FlowInv, NEW p \in Handlers, HandlerStep(p)
  PROVE  FlowInv'
  <1>1. CASE SetCurrentAgent(p)
    BY <1>1, SetCurrentAgentStep
  <1>2. CASE Rejected(p)
    <2>1. None \in MsgAgentIDs
      BY DEF MsgAgentIDs
    <2> QED
      BY <1>2, <2>1, CommandStep
  <1>3. CASE PlaceFails(p) \/ OriginateFails(p)
    BY <1>3, FailsStep
  <1>4. CASE \/ EmulateIncomingCall(p) \/ OriginateReplyNoId(p)
             \/ \E ch \in Channels : Originate(p, ch)
    BY <1>4, PlaceStep
  <1>5. CASE \E ch \in Channels : OriginateReply(p, ch)
    BY <1>5, OriginateReplyStep
  <1>6. CASE Dial(p)
    BY <1>6, DialStep
  <1>7. CASE SendStarted(p)
    BY <1>7, SendStartedStep
  <1>8. CASE SendSuccess(p)
    BY <1>8, SendSuccessStep
  <1> QED
    BY <1>1, <1>2, <1>3, <1>4, <1>5, <1>6, <1>7, <1>8 DEF HandlerStep

\* The steps of an event beyond the StateManager.
LEMMA EventStepKeeps ==
  ASSUME FlowInv, NEW p \in EventProcs, EventStep(p)
  PROVE  FlowInv'
  BY NoCallFoundStep, HandleProgressStep, HandleUpDownStep, HandleDestroyedStep DEF EventStep

\* The first step of a command.
LEMMA CommandKeeps ==
  ASSUME FlowInv, NEW p \in Handlers, Command(p)
  PROVE  FlowInv'
  <1>1. CASE \E a \in AgentIDs : AgentRegister(p, a)
    BY <1>1, AgentRegisterStep
  <1>2. ASSUME NEW m \in MsgAgentIDs, AgentLogin(p, m)
        PROVE  FlowInv'
    <2>1. "LOGGED_IN" \in AgentStates
      BY DEF AgentStates
    <2> QED
      BY <1>2, <2>1, AgentStateStep DEF AgentLogin
  <1>3. ASSUME NEW m \in MsgAgentIDs, NEW s \in {"READY", "BUSY"}, AgentChangeState(p, m, s)
        PROVE  FlowInv'
    <2>1. s \in AgentStates
      BY DEF AgentStates
    <2> QED
      BY <1>3, <2>1, AgentStateStep DEF AgentChangeState
  <1>4. ASSUME NEW m \in MsgAgentIDs, AgentLogout(p, m) \/ MakeCall(p, m)
        PROVE  FlowInv'
    BY <1>4, CommandStep
  <1> QED
    BY <1>1, <1>2, <1>3, <1>4 DEF Command

\* The write of an agent that another one overlaps.
LEMMA OverlappingWriteKeeps ==
  ASSUME FlowInv, NEW p \in Procs, OverlappingWrite(p)
  PROVE  FlowInv'
  <1>1. UNCHANGED <<currentAgent, channel, sent>>
    BY DEF OverlappingWrite
  <1>2. CASE SetBusy(p, "TORN")
    <2>1. p \in Handlers
      BY <1>2, GoroutineFacts DEF SetBusy, At, ProcOK, LocalSound, EventPcs, EndPcs
    <2> QED
      BY <1>1, <1>2, <2>1, SetBusyStep
  <1>3. CASE FreeAgent(p, "TORN")
    BY <1>1, <1>3, FreeAgentStep
  <1> QED
    BY <1>2, <1>3 DEF OverlappingWrite

\* Nothing has happened yet.
LEMMA FlowInitInv == FlowInit => FlowInv
  <1> SUFFICES ASSUME FlowInit PROVE FlowInv
    OBVIOUS
  <1>1. CMInv
    BY InitInv DEF FlowInit
  <1>2. FlowTypes
    <2>1. Idle \in Local
      BY DEF Idle, Local, CallerPcs
    <2>2. NoAgent \in AgentRecord
      BY DEF NoAgent, AgentRecord
    <2>3. "free" \in Range(Phases)
      BY RankFacts
    <2>4. <<>> \in Seq(MessageNames)
      OBVIOUS
    <2> QED
      BY <2>1, <2>2, <2>3, <2>4 DEF FlowInit, AMInit, FlowTypes
  <1>3. ASSUME NEW p \in Procs PROVE ProcOK(p)
    <2>1. /\ proc[p].pc = "idle" /\ proc[p].end = None /\ smLock # p
      BY <1>3, ProcKinds DEF FlowInit, Idle
    <2> QED
      BY <2>1 DEF ProcOK, LocalSound, HandlerPcs, EventPcs, AgentPcs, StartPcs, CleanPcs, CallPcs,
         EndPcs, LockedPcs, BoundOrNot, UnboundPcs, Recorded, Latest
  <1>4. OneOwner
    <2>1. \A p \in Handlers : proc[p].pc = "idle"
      BY ProcKinds DEF FlowInit, Idle
    <2> QED
      BY <2>1 DEF OneOwner, CallPcs, EndPcs
  <1>5. SharedOK
    <2>1. CallsHaveAgents
      BY DEF FlowInit, CMInit, CallsHaveAgents
    <2>2. FreeChannels
      BY DEF FlowInit, FreeChannels
    <2>3. BindingSound
      BY DEF FlowInit, CMInit, NoCall, BindingSound
    <2>4. TruthfulReports
      <3>1. \A c \in CallIDs : sent[c] = <<>>
        BY DEF FlowInit
      <3>2. DOMAIN <<>> = {} /\ Range(<<>>) = {}
        BY DEF Range
      <3> QED
        BY <3>1, <3>2 DEF TruthfulReports, Told, Precedes
    <2>5. CurrentCallIndexed
      BY DEF FlowInit, AMInit, NoAgent, CurrentCallIndexed
    <2> QED
      BY <2>1, <2>2, <2>3, <2>4, <2>5 DEF SharedOK
  <1> QED
    BY <1>1, <1>2, <1>3, <1>4, <1>5 DEF FlowInv

\* A step of nobody changes nothing.
LEMMA FlowStutterInv ==
  ASSUME FlowInv, UNCHANGED flowVars
  PROVE  FlowInv'
  <1>1. UNCHANGED <<call, calls, callsByRefID, callsByAgent, callsByChannel, agents, smLock, proc,
                    currentAgent, channel, sent>>
    BY DEF flowVars, smVars, cmVars
  <1>2. CMInv'
    BY <1>1, NextInv DEF FlowInv, cmVars
  <1>3. FlowTypes' /\ OneOwner' /\ SharedOK'
    BY <1>1 DEF FlowInv, FlowTypes, OneOwner, SharedOK, CallsHaveAgents, FreeChannels, BindingSound,
       TruthfulReports, Told, Precedes, CurrentCallIndexed, At
  <1>4. ASSUME NEW p \in Procs PROVE ProcOK(p)'
    BY <1>1 DEF FlowInv, ProcOK, LocalSound, BoundOrNot, Recorded, Told, Latest
  <1> QED
    BY <1>2, <1>3, <1>4 DEF FlowInv

\* Every step keeps the invariant.
LEMMA FlowNextInv == FlowInv /\ [FlowNext]_flowVars => FlowInv'
  <1> SUFFICES ASSUME FlowInv, [FlowNext]_flowVars PROVE FlowInv'
    OBVIOUS
  <1>1. CASE UNCHANGED flowVars
    BY <1>1, FlowStutterInv
  <1>2. ASSUME NEW p \in Procs, ProcStep(p)
        PROVE  FlowInv'
    BY <1>2, StateManagerStepKeeps, ReportStep, HandlerStepKeeps, EventStepKeeps DEF ProcStep
  <1>3. ASSUME NEW p \in Procs, OverlappingWrite(p)
        PROVE  FlowInv'
    BY <1>3, OverlappingWriteKeeps
  <1>4. ASSUME NEW p \in Handlers, Command(p)
        PROVE  FlowInv'
    BY <1>4, CommandKeeps
  <1>5. ASSUME NEW ch \in Channels, NEW e \in EventTypes, ChannelEvent(ch, e)
        PROVE  FlowInv'
    BY <1>5, ChannelEventStep
  <1> QED
    BY <1>1, <1>2, <1>3, <1>4, <1>5 DEF FlowNext

\* The invariant holds in every state of the flow.
THEOREM FlowInvariance == FlowSpec => []FlowInv
  BY FlowInitInv, FlowNextInv, PTL DEF FlowSpec

\* The variables of the flow have their types, whatever runs.
THEOREM FlowTypeCorrect == FlowSpec => []FlowTypeOK
  <1>1. FlowInv => FlowTypeOK
    <2> SUFFICES ASSUME FlowInv PROVE FlowTypeOK
      OBVIOUS
    <2>1. \A c \in CallIDs : Range(sent[c]) \subseteq MessageNames
      <3>1. \A c \in CallIDs : sent[c] \in Seq(MessageNames)
        BY DEF FlowInv, FlowTypes
      <3>2. \A c \in CallIDs : /\ DOMAIN sent[c] = 1..Len(sent[c])
                               /\ \A i \in 1..Len(sent[c]) : sent[c][i] \in MessageNames
        BY <3>1
      <3> QED
        BY <3>2 DEF Range
    <2> QED
      BY <2>1 DEF FlowInv, FlowTypes, FlowTypeOK, AMTypeOK, CMInv
  <1> QED
    BY FlowInvariance, <1>1, PTL

\* sm.mutex is held exactly inside the operations: every return path of
\* StartCall, EndCall and CleanupAgent releases it.
THEOREM LockIsHeldInside == FlowSpec => []LockHeldInside
  <1>1. FlowInv => LockHeldInside
    BY DEF FlowInv, ProcOK, LockHeldInside
  <1> QED
    BY FlowInvariance, <1>1, PTL

\* Concurrent originate requests never swap or lose each other's channel.
THEOREM BindingsSound == FlowSpec => []BindingSound
  <1>1. FlowInv => BindingSound
    BY DEF FlowInv, SharedOK
  <1> QED
    BY FlowInvariance, <1>1, PTL

\* The peer is told only what has been recorded.
THEOREM ReportsAreTruthful == FlowSpec => []TruthfulReports
  <1>1. FlowInv => TruthfulReports
    BY DEF FlowInv, SharedOK
  <1> QED
    BY FlowInvariance, <1>1, PTL

\* Outside StartCall an agent's CallID is the call its index leads to.
THEOREM CurrentCallsIndexed == FlowSpec => []CurrentCallIndexed
  <1>1. FlowInv => CurrentCallIndexed
    BY DEF FlowInv, SharedOK
  <1> QED
    BY FlowInvariance, <1>1, PTL

\* EndCall is never run for one call by two goroutines at the same time: two
\* commands would own it, two events would be the destruction of its one
\* channel, and a command ends only a call without a channel.
THEOREM EndersAreAlone == FlowSpec => []OneEnder
  <1>1. FlowInv => OneEnder
    <2> SUFFICES ASSUME FlowInv, NEW p \in Procs, proc[p].pc \in EndPcs
                 PROVE  /\ p \in Handlers <=> call[proc[p].call].channel = None
                        /\ \A q \in Procs :
                             proc[q].pc \in EndPcs /\ proc[q].call = proc[p].call => q = p
      BY DEF OneEnder
    <2>1. \A q \in Procs : /\ q \in Handlers \/ q \in EventProcs
                           /\ ~(q \in Handlers /\ q \in EventProcs)
      BY ProcKinds
    <2>2. ASSUME NEW q \in Procs, proc[q].pc \in EndPcs
          PROVE  /\ q \in Handlers => call[proc[q].call].channel = None
                 /\ q \in EventProcs => /\ call[proc[q].call].channel = q[1]
                                        /\ q[2] = "Destroyed" /\ q[1] # None
                                        /\ q = <<q[1], q[2]>>
      BY <2>2, ProcKinds, NoneIsFresh DEF FlowInv, ProcOK, BoundOrNot, UnboundPcs
    <2>3. p \in Handlers <=> call[proc[p].call].channel = None
      BY <2>1, <2>2
    <2>4. ASSUME NEW q \in Procs, proc[q].pc \in EndPcs, proc[q].call = proc[p].call
          PROVE  q = p
      <3>1. q \in Handlers <=> p \in Handlers
        BY <2>1, <2>2, <2>3, <2>4
      <3>2. CASE p \in Handlers
        BY <2>4, <3>1, <3>2 DEF FlowInv, OneOwner, CallPcs
      <3>3. CASE p \in EventProcs
        <4>1. q \in EventProcs
          BY <2>1, <3>1, <3>3
        <4> QED
          BY <2>2, <2>4, <3>3, <4>1
      <3> QED
        BY <2>1, <3>2, <3>3
    <2> QED
      BY <2>3, <2>4
  <1> QED
    BY FlowInvariance, <1>1, PTL

----------------------------------------------------------------------------
(* The store inside the flow. *)

\* What a step of the flow does to the store is a method of it, or nothing.
LEMMA StoreStep ==
  ASSUME FlowInv, [FlowNext]_flowVars
  PROVE  [CMNext]_cmVars
  <1>1. ASSUME NEW p \in Procs, StateManagerStep(p)
        PROVE  [CMNext]_cmVars
    <2>1. CASE EndCallState(p)
      <3>1. proc[p].call \in CallIDs /\ proc[p].end \in CallStates
        BY <2>1, GoroutineFacts DEF EndCallState, At, EndPcs, TerminalStates, CallStates
      <3> QED
        BY <2>1, <3>1 DEF EndCallState, CMNext
    <2>2. CASE CleanCalls(p)
      <3>1. proc[p].agent \in AgentIDs
        BY <2>2, GoroutineFacts DEF CleanCalls, At, ProcOK, LocalSound, AgentPcs, CleanPcs
      <3> QED
        BY <2>2, <3>1 DEF CleanCalls, CMNext
    <2>3. CASE \E c \in CallIDs, r \in RefIDs \cup {None} : StartCreate(p, c, r)
      <3>1. proc[p].agent \in AgentIDs
        BY <2>3, GoroutineFacts DEF StartCreate, At, ProcOK, LocalSound, AgentPcs, StartPcs
      <3> QED
        BY <2>3, <3>1 DEF StartCreate, CMNext
    <2> QED
      BY <1>1, <2>1, <2>2, <2>3
      DEF StateManagerStep, StartCallStep, EndCallStep, CleanupStep, CheckAgent, CheckCall, SetBusy,
          CheckBusy, FreeAgent, CleanAgent
  <1>2. ASSUME NEW p \in Handlers, HandlerStep(p)
        PROVE  [CMNext]_cmVars
    <2>1. proc[p].pc \in {"originate", "dial"} => proc[p].call \in CallIDs
      BY HandlerFacts DEF CallPcs, FlowInv, CMInv, CMTypeOK
    <2>2. CASE Dial(p)
      BY <2>1, <2>2 DEF Dial, At, CMNext, CallStates
    <2>3. CASE \E ch \in Channels : OriginateReply(p, ch)
      BY <2>1, <2>3 DEF OriginateReply, At, CMNext
    <2>4. CASE OriginateReplyNoId(p)
      BY <2>4, NoIdBindsNothing
    <2> QED
      BY <1>2, <2>2, <2>3, <2>4
      DEF HandlerStep, SetCurrentAgent, Rejected, PlaceFails, EmulateIncomingCall, Originate,
          OriginateFails, SendStarted, SendSuccess
  <1>3. ASSUME NEW p \in EventProcs, EventStep(p)
        PROVE  [CMNext]_cmVars
    <2>1. CallOf(p) # None => CallOf(p) \in CallIDs
      BY EventFacts
    <2>2. \A s \in CallStates :
            CallOf(p) # None /\ UpdateCallState(CallOf(p), s) => [CMNext]_cmVars
      BY <2>1 DEF CMNext
    <2> QED
      BY <1>3, <2>2
      DEF EventStep, NoCallFound, HandleChannelCreated, HandleRing, HandleUp, HandleDown,
          HandleChannelDestroyed, CallStates
  <1>4. ASSUME NEW p \in Procs, Report(p) \/ OverlappingWrite(p)
        PROVE  [CMNext]_cmVars
    BY <1>4 DEF Report, OverlappingWrite, SetBusy, FreeAgent
  <1>5. ASSUME NEW p \in Handlers, Command(p)
        PROVE  [CMNext]_cmVars
    BY <1>5 DEF Command, AgentRegister, AgentLogin, AgentChangeState, AgentLogout, MakeCall
  <1>6. ASSUME NEW ch \in Channels, NEW e \in EventTypes, ChannelEvent(ch, e)
        PROVE  [CMNext]_cmVars
    BY <1>6 DEF ChannelEvent
  <1>7. CASE UNCHANGED flowVars
    BY <1>7 DEF flowVars, smVars
  <1> QED
    BY <1>1, <1>2, <1>3, <1>4, <1>5, <1>6, <1>7 DEF FlowNext, ProcStep

\* The flow uses the call store by its methods only: what is proved of every
\* use of the store (IndexSound, StampsSound, StampsOnlyGrow) holds in it.
THEOREM FlowUsesStore == FlowSpec => CMSpec
  <1>1. FlowInit => CMInit
    BY DEF FlowInit
  <1>2. FlowInv /\ [FlowNext]_flowVars => [CMNext]_cmVars
    BY StoreStep
  <1> QED
    BY FlowInvariance, <1>1, <1>2, PTL DEF FlowSpec, CMSpec

\* Hence, although the commands and the events write calls from goroutines of
\* their own and in the middle of each other's operations, no index leads to a
\* wrong call, a call's stamps fit its state, and no stamp is ever taken back.
THEOREM FlowKeepsStore == FlowSpec => []IndexSound /\ []StampsSound /\ StampsOnlyGrow
  BY FlowUsesStore, IndexesSound, StampsAreSound, StampsGrow, PTL
=============================================================================
