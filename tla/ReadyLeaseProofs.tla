-------------------------- MODULE ReadyLeaseProofs --------------------------
(***************************************************************************)
(* CallFlow implements ReadyLease, for any sets of agents, calls,          *)
(* channels, command goroutines, events and commands.                      *)
(*                                                                         *)
(* The invariant of the flow is enough.  A READY agent is used up by the   *)
(* write of StartCall that makes it BUSY, and the goroutine that has seen  *)
(* READY holds sm.mutex until that write: there is one such goroutine, so  *)
(* nothing else opens a call meanwhile.  A call is closed once because the *)
(* goroutines that end one find its end recorded or record it first.       *)
(***************************************************************************)
EXTENDS CallFlowProofs

\* The state of the lease, as CallFlow maps it.
ReadyAgents == {a \in AgentIDs : MayOpenCall(a)}

Owners == [c \in CallIDs |-> Opener(c)]

ClosedCalls == {c \in CallIDs : call[c].endedAt # 0}

Announced == {c \in CallIDs : Told(c, "callEnded") \/ Told(c, "callFailed")}

leaseState == <<ReadyAgents, Owners, ClosedCalls, Announced>>

\* What a step of the flow must be to the lease.
Leased == [Lease!LeaseNext]_leaseState

\* A goroutine that has seen its agent READY and may open a call on it.
OpeningPcs == {"checkCall", "checkRinging", "checkInProgress", "create", "setBusy"}

Opens(p, a) == proc[p].agent = a /\ proc[p].pc \in OpeningPcs

\* The goroutine of p goes to pc, with agent a and call c.
Moved(p, pc, a, c) ==
  /\ Others(p)
  /\ proc'[p].pc = pc /\ proc'[p].agent = a /\ proc'[p].call = c

----------------------------------------------------------------------------
(* The steps of the lease. *)

\* A step that leaves every agent but one as ready as before.
LEMMA GrantOrRevoke ==
  ASSUME NEW a \in AgentIDs,
         \A d \in AgentIDs \ {a} : MayOpenCall(d)' <=> MayOpenCall(d),
         UNCHANGED <<Owners, ClosedCalls, Announced>>
  PROVE  Leased
  <1>1. CASE MayOpenCall(a)'
    <2>1. ReadyAgents' = ReadyAgents \cup {a}
      BY <1>1 DEF ReadyAgents
    <2> QED
      BY <2>1 DEF Leased, Lease!LeaseNext, Lease!Grant, ReadyAgents, Owners, ClosedCalls, Announced
  <1>2. CASE ~MayOpenCall(a)'
    <2>1. ReadyAgents' = ReadyAgents \ {a}
      BY <1>2 DEF ReadyAgents
    <2> QED
      BY <2>1 DEF Leased, Lease!LeaseNext, Lease!Revoke, ReadyAgents, Owners, ClosedCalls, Announced
  <1> QED
    BY <1>1, <1>2

\* A step the lease does not see.
LEMMA Unseen ==
  ASSUME \A a \in AgentIDs : MayOpenCall(a)' <=> MayOpenCall(a),
         UNCHANGED <<Owners, ClosedCalls, Announced>>
  PROVE  Leased
  <1>1. ReadyAgents' = ReadyAgents
    BY DEF ReadyAgents
  <1> QED
    BY <1>1 DEF Leased, leaseState

\* A step that ends calls of one agent, none of which had ended.
LEMMA Closes ==
  ASSUME \A a \in AgentIDs : MayOpenCall(a)' <=> MayOpenCall(a),
         UNCHANGED <<Owners, Announced>>,
         NEW b \in AgentIDs, ClosedCalls \subseteq ClosedCalls',
         \A c \in ClosedCalls' \ ClosedCalls : Opener(c) = b
  PROVE  Leased
  <1>1. ReadyAgents' = ReadyAgents
    BY DEF ReadyAgents
  <1>2. PICK S \in SUBSET CallIDs : S = ClosedCalls' \ ClosedCalls
    BY DEF ClosedCalls
  <1>3. /\ \A c \in S : Owners[c] = b /\ c \notin ClosedCalls
        /\ ClosedCalls' = ClosedCalls \cup S
    BY <1>2 DEF Owners
  <1>4. Lease!Close(b, S)
    BY <1>1, <1>3 DEF Lease!Close, ReadyAgents, Owners, ClosedCalls, Announced
  <1> QED
    BY <1>4 DEF Leased, Lease!LeaseNext

----------------------------------------------------------------------------
(* What the goroutines have to do with it. *)

\* The goroutine between two accesses of an operation is alone there.
LEMMA Alone ==
  ASSUME FlowInv, NEW p \in Procs, NEW q \in Procs,
         proc[p].pc \in LockedPcs, proc[q].pc \in LockedPcs
  PROVE  p = q
  BY DEF FlowInv, ProcOK

\* An agent is as ready as before if its state is and p has as much to do with it.
LEMMA ReadyKept ==
  ASSUME NEW p \in Procs, Others(p), NEW a \in AgentIDs,
         agents'[a].state = "READY" <=> agents[a].state = "READY",
         Opens(p, a)' <=> Opens(p, a)
  PROVE  MayOpenCall(a)' <=> MayOpenCall(a)
  <1>1. \A q \in Procs : Opens(q, a)' <=> Opens(q, a)
    BY DEF Others, Opens
  <1> QED
    BY <1>1 DEF MayOpenCall, Opens, OpeningPcs, StartPcs

\* The owners stay if the calls keep their agents and p is not about to write one.
LEMMA OwnersKept ==
  ASSUME NEW p \in Procs, Others(p), proc[p].pc # "setBusy", proc'[p].pc # "setBusy",
         \A c \in CallIDs : call'[c].agentID = call[c].agentID
  PROVE  Owners' = Owners
  <1>1. \A q \in Procs, c \in CallIDs :
          At(q, "setBusy")' /\ proc'[q].call = c <=> At(q, "setBusy") /\ proc[q].call = c
    BY DEF Others, At
  <1>2. \A c \in CallIDs : Opener(c)' = Opener(c)
    BY <1>1 DEF Opener
  <1> QED
    BY <1>2 DEF Owners

\* The assignments to local variables there are.
LEMMA Fields ==
  ASSUME FlowInv, NEW p \in Procs, NEW pc, NEW a, NEW c, NEW e
  PROVE  /\ proc' = [proc EXCEPT ![p].pc = pc]
              => Moved(p, pc, proc[p].agent, proc[p].call)
         /\ proc' = [proc EXCEPT ![p].pc = pc, ![p].agent = a]
              => Moved(p, pc, a, proc[p].call)
         /\ proc' = [proc EXCEPT ![p].pc = pc, ![p].call = c]
              => Moved(p, pc, proc[p].agent, c)
         /\ proc' = [proc EXCEPT ![p].pc = pc, ![p].end = e]
              => Moved(p, pc, proc[p].agent, proc[p].call)
         /\ proc' = [proc EXCEPT ![p] = [@ EXCEPT !.pc = pc, !.call = c, !.end = e]]
              => Moved(p, pc, proc[p].agent, c)
         /\ proc' = [proc EXCEPT ![p] = Idle] => Moved(p, "idle", None, None)
         /\ proc' = [proc EXCEPT ![p] = Done] => Moved(p, "done", None, None)
         /\ proc' = proc => Moved(p, proc[p].pc, proc[p].agent, proc[p].call)
  <1>1. proc \in [Procs -> Local] /\ proc[p] \in Local
    BY DEF FlowInv, FlowTypes
  <1> DEFINE l1 == [proc[p] EXCEPT !.pc = pc]
             l2 == [proc[p] EXCEPT !.pc = pc, !.agent = a]
             l3 == [proc[p] EXCEPT !.pc = pc, !.call = c]
             l4 == [proc[p] EXCEPT !.pc = pc, !.end = e]
             l5 == [proc[p] EXCEPT !.pc = pc, !.call = c, !.end = e]
             after(l) == proc' = [proc EXCEPT ![p] = l]
  <1>2. \A l : after(l) => Moved(p, l.pc, l.agent, l.call)
    BY <1>1 DEF Moved, Others
  <1>3. /\ l1.pc = pc /\ l1.agent = proc[p].agent /\ l1.call = proc[p].call
        /\ l2.pc = pc /\ l2.agent = a /\ l2.call = proc[p].call
        /\ l3.pc = pc /\ l3.agent = proc[p].agent /\ l3.call = c
        /\ l4.pc = pc /\ l4.agent = proc[p].agent /\ l4.call = proc[p].call
        /\ l5.pc = pc /\ l5.agent = proc[p].agent /\ l5.call = c
        /\ Idle.pc = "idle" /\ Idle.agent = None /\ Idle.call = None
        /\ Done.pc = "done" /\ Done.agent = None /\ Done.call = None
    BY <1>1 DEF Local, Idle, Done
  <1>4. /\ proc' = [proc EXCEPT ![p].pc = pc] => after(l1)
        /\ proc' = [proc EXCEPT ![p].pc = pc, ![p].agent = a] => after(l2)
        /\ proc' = [proc EXCEPT ![p].pc = pc, ![p].call = c] => after(l3)
        /\ proc' = [proc EXCEPT ![p].pc = pc, ![p].end = e] => after(l4)
        /\ proc' = [proc EXCEPT ![p] = [@ EXCEPT !.pc = pc, !.call = c, !.end = e]] => after(l5)
        /\ proc' = [proc EXCEPT ![p] = Idle] => after(Idle)
        /\ proc' = [proc EXCEPT ![p] = Done] => after(Done)
    BY <1>1
  <1> HIDE DEF after, l1, l2, l3, l4, l5
  <1>5. /\ after(l1) => Moved(p, pc, proc[p].agent, proc[p].call)
        /\ after(l2) => Moved(p, pc, a, proc[p].call)
        /\ after(l3) => Moved(p, pc, proc[p].agent, c)
        /\ after(l4) => Moved(p, pc, proc[p].agent, proc[p].call)
        /\ after(l5) => Moved(p, pc, proc[p].agent, c)
        /\ after(Idle) => Moved(p, "idle", None, None)
        /\ after(Done) => Moved(p, "done", None, None)
    <2>1. \A l : after(l) => Moved(p, l.pc, l.agent, l.call)
      BY <1>2
    <2>2. /\ after(l1) => Moved(p, l1.pc, l1.agent, l1.call)
          /\ after(l2) => Moved(p, l2.pc, l2.agent, l2.call)
          /\ after(l3) => Moved(p, l3.pc, l3.agent, l3.call)
          /\ after(l4) => Moved(p, l4.pc, l4.agent, l4.call)
          /\ after(l5) => Moved(p, l5.pc, l5.agent, l5.call)
          /\ after(Idle) => Moved(p, Idle.pc, Idle.agent, Idle.call)
          /\ after(Done) => Moved(p, Done.pc, Done.agent, Done.call)
      BY <2>1
    <2> QED
      BY <1>3, <2>2
  <1>6. proc' = proc => Moved(p, proc[p].pc, proc[p].agent, proc[p].call)
    BY DEF Moved, Others
  <1> QED
    BY <1>4, <1>5, <1>6

----------------------------------------------------------------------------
(* The steps of the flow. *)

\* A step of a goroutine that neither sees nor writes an agent, ends no call
\* and announces no outcome.
LEMMA QuietLease ==
  ASSUME NEW p \in Procs, Others(p), agents' = agents,
         proc[p].pc \notin OpeningPcs, proc'[p].pc \notin OpeningPcs,
         \A c \in CallIDs : /\ call'[c].agentID = call[c].agentID
                            /\ call'[c].endedAt # 0 <=> call[c].endedAt # 0,
         \A c \in CallIDs, n \in {"callEnded", "callFailed"} : Told(c, n)' <=> Told(c, n)
  PROVE  Leased
  <1>1. \A a \in AgentIDs : MayOpenCall(a)' <=> MayOpenCall(a)
    BY ReadyKept DEF Opens
  <1>2. Owners' = Owners
    BY OwnersKept DEF OpeningPcs
  <1>3. ClosedCalls' = ClosedCalls /\ Announced' = Announced
    BY DEF ClosedCalls, Announced
  <1> QED
    BY <1>1, <1>2, <1>3, Unseen

\* A step of a goroutine that has to do with agent a only, and with no call.
LEMMA AgentLease ==
  ASSUME NEW p \in Procs, Others(p), NEW a \in AgentIDs,
         \A d \in AgentIDs \ {a} : /\ agents'[d] = agents[d]
                                   /\ ~Opens(p, d) /\ ~Opens(p, d)',
         proc[p].pc # "setBusy", proc'[p].pc # "setBusy",
         UNCHANGED <<call, sent>>
  PROVE  Leased
  <1>1. \A d \in AgentIDs \ {a} : MayOpenCall(d)' <=> MayOpenCall(d)
    BY ReadyKept
  <1>2. Owners' = Owners
    BY OwnersKept
  <1>3. ClosedCalls' = ClosedCalls /\ Announced' = Announced
    BY DEF ClosedCalls, Announced, Told
  <1> QED
    BY <1>1, <1>2, <1>3, GrantOrRevoke

\* The checks of StartCall: an agent that is refused may have lost its READY.
LEMMA StartChecksLease ==
  ASSUME FlowInv, NEW p \in Handlers, CheckAgent(p) \/ CheckCall(p), sent' = sent
  PROVE  Leased
  <1>1. PICK pc \in {"checkCall", "checkRinging", "checkInProgress", "create", "rejected"} :
          /\ proc[p].pc \in {"checkAgent", "checkCall", "checkRinging", "checkInProgress"}
          /\ proc' = [proc EXCEPT ![p].pc = pc]
          /\ UNCHANGED <<cmVars, agents>>
    BY DEF CheckAgent, CheckCall, CheckPcs, AfterCheck, At, Goto
  <1>2. proc[p].agent \in AgentIDs /\ p \in Procs
    BY <1>1, HandlerFacts DEF AgentPcs, StartPcs
  <1>3. Moved(p, pc, proc[p].agent, proc[p].call)
    BY <1>1, <1>2, Fields
  <1> QED
    BY <1>1, <1>2, <1>3, AgentLease DEF Moved, Opens, cmVars

\* The call StartCall creates has no owner until the agent is written.
LEMMA StartCreateLease ==
  ASSUME FlowInv, NEW p \in Handlers, NEW c \in CallIDs, NEW r \in RefIDs \cup {None},
         StartCreate(p, c, r), sent' = sent
  PROVE  Leased
  <1>1. /\ proc[p].pc = "create" /\ CreateCall(c, proc[p].agent, r) /\ agents' = agents
        /\ proc' = [proc EXCEPT ![p].pc = "setBusy", ![p].call = c]
    BY DEF StartCreate, At
  <1>2. p \in Procs /\ p # None
    BY HandlerFacts
  <1>3. Moved(p, "setBusy", proc[p].agent, c)
    BY <1>1, <1>2, Fields
  <1>4. /\ call[c] = NoCall /\ call'[c] = NewCall(proc[p].agent, r)
        /\ \A d \in CallIDs : d # c => call'[d] = call[d]
    BY <1>1 DEF CreateCall, FlowInv, CMInv, CMTypeOK, UnusedClean
  <1>5. call[c].agentID = None /\ call[c].endedAt = 0 /\ call'[c].endedAt = 0
    BY <1>4 DEF NoCall, NewCall
  <1>6. \A q \in Procs : proc[q].pc # "setBusy"
    BY <1>1, <1>2, Alone DEF LockedPcs
  <1>7. \A q \in Procs : At(q, "setBusy")' <=> q = p
    BY <1>2, <1>3, <1>6 DEF Moved, Others, At
  <1>8. \A d \in CallIDs : Opener(d)' = Opener(d)
    <2>1. Opener(c)' = None /\ Opener(c) = None
      BY <1>2, <1>3, <1>5, <1>6, <1>7 DEF Opener, Moved, At
    <2>2. ASSUME NEW d \in CallIDs, d # c
          PROVE  Opener(d)' = Opener(d)
      BY <1>3, <1>4, <1>6, <1>7, <2>2 DEF Opener, Moved, At
    <2> QED
      BY <2>1, <2>2
  <1>9. UNCHANGED <<Owners, ClosedCalls, Announced>>
    BY <1>4, <1>5, <1>8 DEF Owners, ClosedCalls, Announced, Told
  <1>10. \A a \in AgentIDs : MayOpenCall(a)' <=> MayOpenCall(a)
    BY <1>1, <1>2, <1>3, ReadyKept DEF Moved, Opens, OpeningPcs
  <1> QED
    BY <1>9, <1>10, Unseen

\* The agent is written: the call is opened, and the READY is used up.
LEMMA SetBusyLease ==
  ASSUME FlowInv, NEW p \in Handlers, NEW written \in {"BUSY", "TORN"}, SetBusy(p, written),
         sent' = sent
  PROVE  Leased
  <1> DEFINE b == proc[p].agent
             c == proc[p].call
  <1>1. /\ proc[p].pc = "setBusy" /\ UNCHANGED cmVars
        /\ proc' = [proc EXCEPT ![p].pc = "process", ![p].agent = None]
        /\ agents' = [agents EXCEPT ![b] = [state |-> written, callID |-> c]]
    BY DEF SetBusy, At
  <1>2. /\ p \in Procs /\ b \in AgentIDs /\ c \in CallIDs /\ call[c].agentID = b
    BY <1>1, HandlerFacts
    DEF AgentPcs, StartPcs, CallPcs, ProcOK, Latest, FlowInv, CMInv, CMTypeOK
  <1>3. Moved(p, "process", None, c)
    BY <1>1, <1>2, Fields
  <1>4. PICK o \in CallIDs, a \in AgentIDs : o = c /\ a = b
    BY <1>2
  <1>5. \A q \in Procs : proc[q].pc \in OpeningPcs => q = p
    BY <1>1, <1>2, Alone DEF LockedPcs, OpeningPcs
  <1>6. \A q \in Procs : proc'[q].pc \notin OpeningPcs
    BY <1>3, <1>5 DEF Moved, Others, OpeningPcs
  <1>7. /\ MayOpenCall(a) /\ ~MayOpenCall(a)'
        /\ \A d \in AgentIDs \ {a} : MayOpenCall(d)' <=> MayOpenCall(d)
    <2>1. agents'[a].state = written /\ \A d \in AgentIDs \ {a} : agents'[d] = agents[d]
      BY <1>1, <1>2, <1>4 DEF FlowInv, FlowTypes
    <2>2. MayOpenCall(a)
      BY <1>1, <1>2, <1>4 DEF MayOpenCall, StartPcs
    <2>3. ~MayOpenCall(a)'
      BY <1>6, <2>1 DEF MayOpenCall, OpeningPcs, StartPcs
    <2>4. \A d \in AgentIDs \ {a} : MayOpenCall(d)' <=> MayOpenCall(d)
      BY <1>4, <1>5, <1>6, <2>1 DEF MayOpenCall, OpeningPcs, StartPcs
    <2> QED
      BY <2>2, <2>3, <2>4
  <1>8. ReadyAgents' = ReadyAgents \ {a} /\ a \in ReadyAgents
    BY <1>7 DEF ReadyAgents
  <1>9. /\ Opener(o) = None /\ Opener(o)' = a
        /\ \A d \in CallIDs : d # o => Opener(d)' = Opener(d)
    <2>1. \A q \in Procs : ~At(q, "setBusy")' /\ (At(q, "setBusy") => q = p)
      BY <1>5, <1>6 DEF At, OpeningPcs
    <2>2. Opener(o) = None
      BY <1>1, <1>2, <1>4 DEF Opener, At
    <2>3. \A d \in CallIDs : Opener(d)' = call[d].agentID
      BY <1>1, <2>1 DEF Opener, cmVars
    <2>4. \A d \in CallIDs : d # o => Opener(d) = call[d].agentID
      BY <1>4, <2>1 DEF Opener
    <2> QED
      BY <1>2, <1>4, <2>2, <2>3, <2>4
  <1>10. Owners' = [Owners EXCEPT ![o] = a] /\ Owners[o] = None
    BY <1>9 DEF Owners
  <1>11. UNCHANGED <<ClosedCalls, Announced>>
    BY <1>1 DEF ClosedCalls, Announced, Told, cmVars
  <1>12. Lease!Open(a, o)
    BY <1>8, <1>10, <1>11 DEF Lease!Open, ReadyAgents, Owners, ClosedCalls, Announced
  <1> QED
    BY <1>12 DEF Leased, Lease!LeaseNext

\* The agent of a call is freed, or an agent is cleaned up.
LEMMA FreedLease ==
  ASSUME FlowInv, NEW p \in Procs, sent' = sent,
         CleanAgent(p) \/ \E written \in {"READY", "TORN"} : FreeAgent(p, written)
  PROVE  Leased
  <1>1. PICK a \in AgentIDs, x \in {proc[p].agent, None} :
          /\ proc[p].pc \in {"freeAgent", "cleanAgent"} /\ UNCHANGED cmVars
          /\ \A d \in AgentIDs \ {a} : agents'[d] = agents[d]
          /\ \E pc \in {"report", "idle"} : Moved(p, pc, x, proc[p].call)
    <2>1. CASE CleanAgent(p)
      <3>1. proc[p].agent \in AgentIDs
        BY <2>1, GoroutineFacts DEF CleanAgent, At, ProcOK, LocalSound, AgentPcs, CleanPcs
      <3>2. Moved(p, "idle", None, proc[p].call)
        BY <2>1, Fields DEF CleanAgent
      <3> QED
        BY <2>1, <3>1, <3>2 DEF CleanAgent, At, CleanupAgent, FlowInv, FlowTypes
    <2>2. ASSUME NEW written \in {"READY", "TORN"}, FreeAgent(p, written)
          PROVE  \E a \in AgentIDs :
                   /\ proc[p].pc = "freeAgent" /\ UNCHANGED cmVars
                   /\ \A d \in AgentIDs \ {a} : agents'[d] = agents[d]
                   /\ Moved(p, "report", proc[p].agent, proc[p].call)
      <3>1. call[proc[p].call].agentID \in AgentIDs
        BY <2>2, GoroutineFacts DEF FreeAgent, At, EndPcs
      <3>2. Moved(p, "report", proc[p].agent, proc[p].call)
        BY <2>2, Fields DEF FreeAgent, Goto
      <3> QED
        BY <2>2, <3>1, <3>2 DEF FreeAgent, At, FlowInv, FlowTypes
    <2> QED
      BY <2>1, <2>2
  <1> QED
    BY <1>1, AgentLease DEF Moved, Opens, OpeningPcs, cmVars

\* A command of the peer changes the state of one agent.
LEMMA AgentCommandLease ==
  ASSUME FlowInv, NEW p \in Handlers,
         \/ \E a \in AgentIDs : AgentRegister(p, a)
         \/ \E m \in MsgAgentIDs : \/ AgentLogin(p, m)
                                   \/ \E s \in {"READY", "BUSY"} : AgentChangeState(p, m, s)
  PROVE  Leased
  <1>1. p \in Procs
    BY HandlerFacts
  <1>2. PICK a \in AgentIDs :
          /\ proc[p].pc = "idle" /\ UNCHANGED <<cmVars, sent>>
          /\ \A d \in AgentIDs \ {a} : agents'[d] = agents[d]
          /\ \E x \in {proc[p].agent, a}, pc \in {"idle", "registered"} :
               Moved(p, pc, x, proc[p].call)
    <2>1. ASSUME NEW a \in AgentIDs, AgentRegister(p, a)
          PROVE  /\ proc[p].pc = "idle" /\ UNCHANGED <<cmVars, sent>>
                 /\ \A d \in AgentIDs \ {a} : agents'[d] = agents[d]
                 /\ Moved(p, "registered", a, proc[p].call)
      BY <1>1, <2>1, Fields DEF AgentRegister, At, CreateAgent, FlowInv, FlowTypes
    <2>2. ASSUME NEW m \in MsgAgentIDs, NEW s, At(p, "idle"), UpdateAgentState(GetAgentID(m), s),
                 UNCHANGED <<cmVars, proc, sent>>
          PROVE  \E a \in AgentIDs :
                   /\ proc[p].pc = "idle" /\ UNCHANGED <<cmVars, sent>>
                   /\ \A d \in AgentIDs \ {a} : agents'[d] = agents[d]
                   /\ Moved(p, "idle", proc[p].agent, proc[p].call)
      <3>1. GetAgentID(m) \in AgentIDs
        BY <2>2, MsgAgents DEF UpdateAgentState, AgentExists
      <3>2. Moved(p, "idle", proc[p].agent, proc[p].call)
        BY <2>2 DEF Moved, Others, At
      <3> QED
        BY <2>2, <3>1, <3>2 DEF At, UpdateAgentState, FlowInv, FlowTypes
    <2>3. ASSUME NEW m \in MsgAgentIDs,
                 AgentLogin(p, m) \/ \E s \in {"READY", "BUSY"} : AgentChangeState(p, m, s)
          PROVE  \E a \in AgentIDs :
                   /\ proc[p].pc = "idle" /\ UNCHANGED <<cmVars, sent>>
                   /\ \A d \in AgentIDs \ {a} : agents'[d] = agents[d]
                   /\ Moved(p, "idle", proc[p].agent, proc[p].call)
      BY <2>2, <2>3 DEF AgentLogin, AgentChangeState
    <2> QED
      BY <2>1, <2>3
  <1> QED
    BY <1>1, <1>2, AgentLease DEF Moved, Opens, OpeningPcs, cmVars

\* UpdateCallState by EndCall or by an event: nobody is about to write the
\* agent of the call, so it is owned, and it ends now or had ended before.
LEMMA UpdateLease ==
  ASSUME FlowInv, NEW p \in Procs, Others(p), NEW c \in calls, NEW s \in CallStates,
         UpdateCallState(c, s), UNCHANGED <<agents, sent>>,
         proc[p].pc \notin OpeningPcs, proc'[p].pc \notin OpeningPcs,
         s \in TerminalStates => smLock = None \/ call[c].channel # None
  PROVE  Leased
  <1>1. c \in CallIDs /\ CMInv
    BY DEF FlowInv, CMInv, CMTypeOK
  <1>2. /\ \A d \in CallIDs : d # c => call'[d] = call[d]
        /\ \A d \in CallIDs : call'[d].agentID = call[d].agentID
        /\ s \notin TerminalStates => call'[c].endedAt = call[c].endedAt
        /\ s \in TerminalStates => call'[c].endedAt # 0
    BY <1>1, UpdateFacts
  <1>3. CASE s \notin TerminalStates \/ call[c].endedAt # 0
    <2>1. call'[c].endedAt # 0 <=> call[c].endedAt # 0
      BY <1>2, <1>3
    <2>2. \A d \in CallIDs, n \in {"callEnded", "callFailed"} : Told(d, n)' <=> Told(d, n)
      BY DEF Told
    <2>3. \A d \in CallIDs : call'[d].endedAt # 0 <=> call[d].endedAt # 0
      BY <1>2, <2>1
    <2> QED
      BY <1>2, <2>2, <2>3, QuietLease
  <1>4. CASE s \in TerminalStates /\ call[c].endedAt = 0
    <2>1. \A q \in Procs : At(q, "setBusy") => proc[q].call # c
      <3> SUFFICES ASSUME NEW q \in Procs, proc[q].pc = "setBusy", proc[q].call = c
                   PROVE  FALSE
        BY DEF At
      <3>1. smLock = q /\ q # None /\ q \in Handlers
        BY GoroutineFacts DEF LockedPcs, ProcOK, LocalSound, EventPcs, EndPcs
      <3>2. call[c].channel = None
        BY <3>1 DEF FlowInv, ProcOK, BoundOrNot, UnboundPcs
      <3> QED
        BY <1>4, <3>1, <3>2
    <2>2. Opener(c) = call[c].agentID /\ call[c].agentID \in AgentIDs
      BY <2>1 DEF Opener, FlowInv, SharedOK, CallsHaveAgents
    <2>3. \A a \in AgentIDs : MayOpenCall(a)' <=> MayOpenCall(a)
      BY ReadyKept DEF Opens
    <2>4. Owners' = Owners /\ Announced' = Announced
      BY <1>2, OwnersKept DEF Announced, Told, OpeningPcs
    <2>5. ClosedCalls' = ClosedCalls \cup {c}
      BY <1>1, <1>2, <1>4 DEF ClosedCalls
    <2> QED
      BY <2>2, <2>3, <2>4, <2>5, Closes
  <1> QED
    BY <1>3, <1>4

\* A logout ends the calls of its agent; nobody is about to write an agent.
LEMMA CleanCallsLease ==
  ASSUME FlowInv, NEW p \in Handlers, CleanCalls(p), sent' = sent
  PROVE  Leased
  <1>1. /\ proc[p].pc = "cleanCalls" /\ CleanupCallsForAgent(proc[p].agent)
        /\ smLock = None /\ agents' = agents
        /\ proc' = [proc EXCEPT ![p].pc = "cleanAgent"]
    BY DEF CleanCalls, At, Goto, Acquire
  <1>2. p \in Procs /\ proc[p].agent \in AgentIDs
    BY <1>1, HandlerFacts DEF AgentPcs, CleanPcs
  <1>3. Moved(p, "cleanAgent", proc[p].agent, proc[p].call)
    BY <1>1, <1>2, Fields
  <1>4. PICK b \in AgentIDs : b = proc[p].agent
    BY <1>2
  <1>5. \A d \in CallIDs : /\ call'[d].agentID = call[d].agentID
                           /\ call'[d].endedAt # call[d].endedAt => call[d].agentID = b
    BY <1>1, <1>4 DEF CleanupCallsForAgent, FlowInv, CMInv, CMTypeOK, CallRecord
  <1>6. CMInv' /\ Grown
    BY <1>1, <1>2, CleanupCallsForAgentStep DEF FlowInv
  <1>7. \A d \in CallIDs : call[d].endedAt # 0 => call'[d].endedAt # 0
    BY <1>6, StampsStay DEF FlowInv
  <1>8. \A q \in Procs : ~At(q, "setBusy")
    BY <1>1, GoroutineFacts DEF At, LockedPcs
  <1>9. \A d \in CallIDs : Opener(d) = call[d].agentID
    BY <1>8 DEF Opener
  <1>10. /\ ClosedCalls \subseteq ClosedCalls'
         /\ \A d \in ClosedCalls' \ ClosedCalls : Opener(d) = b
    BY <1>5, <1>7, <1>9 DEF ClosedCalls
  <1>11. Owners' = Owners /\ Announced' = Announced
    BY <1>1, <1>2, <1>3, <1>5, OwnersKept DEF Moved, Announced, Told
  <1>12. \A a \in AgentIDs : MayOpenCall(a)' <=> MayOpenCall(a)
    BY <1>1, <1>2, <1>3, ReadyKept DEF Moved, Opens, OpeningPcs
  <1> QED
    BY <1>10, <1>11, <1>12, Closes

\* An outcome is announced for a call that has ended.
LEMMA ReportLease ==
  ASSUME FlowInv, NEW p \in Procs, Report(p)
  PROVE  Leased
  <1>1. /\ proc[p].pc = "report" /\ Send(proc[p].call, Outcome(proc[p].end))
        /\ UNCHANGED <<cmVars, agents>>
        /\ proc' = [proc EXCEPT ![p] = IF p \in Handlers THEN Idle ELSE Done]
    BY DEF Report, At
  <1>2. /\ proc[p].call \in CallIDs
        /\ proc[p].end # None => call[proc[p].call].endedAt # 0
        /\ proc[p].end \in {None, "ENDED", "FAILED"}
    BY <1>1, GoroutineFacts DEF ProcOK, Recorded, TerminalStates
  <1>3. PICK c \in CallIDs, name \in MessageNames :
          /\ Send(c, name)
          /\ name \in {"callEnded", "callFailed"} => call[c].endedAt # 0
          /\ name # "success"
    <2>1. /\ Outcome(proc[p].end) \in MessageNames /\ Outcome(proc[p].end) # "success"
          /\ Outcome(proc[p].end) \in {"callEnded", "callFailed"} => proc[p].end # None
      BY <1>2, NoneIsFresh DEF Outcome, MessageNames, TerminalStates
    <2> QED
      BY <1>1, <1>2, <2>1
  <1>4. Others(p) /\ proc'[p].pc \in {"idle", "done"}
    <2>1. CASE p \in Handlers
      BY <1>1, <2>1, Fields DEF Moved
    <2>2. CASE p \notin Handlers
      BY <1>1, <2>2, Fields DEF Moved
    <2> QED
      BY <2>1, <2>2
  <1>5. \A d \in CallIDs, n \in MessageNames :
          Told(d, n)' <=> Told(d, n) \/ (d = c /\ n = name)
    BY <1>3, SendFacts
  <1>6. CASE name \notin {"callEnded", "callFailed"}
    <2>1. \A d \in CallIDs, n \in {"callEnded", "callFailed"} : Told(d, n)' <=> Told(d, n)
      BY <1>5, <1>6 DEF MessageNames
    <2> QED
      BY <1>1, <1>4, <2>1, QuietLease DEF OpeningPcs, cmVars
  <1>7. CASE name \in {"callEnded", "callFailed"}
    <2>1. c \in ClosedCalls /\ Announced' = Announced \cup {c}
      BY <1>3, <1>5, <1>7 DEF ClosedCalls, Announced, MessageNames
    <2>2. \A a \in AgentIDs : MayOpenCall(a)' <=> MayOpenCall(a)
      BY <1>1, <1>4, ReadyKept DEF Opens, OpeningPcs
    <2>3. ReadyAgents' = ReadyAgents
      BY <2>2 DEF ReadyAgents
    <2>4. Owners' = Owners /\ ClosedCalls' = ClosedCalls
      BY <1>1, <1>4, OwnersKept DEF cmVars, ClosedCalls
    <2>5. Lease!Announce(c)
      BY <2>1, <2>3, <2>4 DEF Lease!Announce, ReadyAgents, Owners, ClosedCalls, Announced
    <2> QED
      BY <2>5 DEF Leased, Lease!LeaseNext
  <1> QED
    BY <1>6, <1>7

\* A step of a goroutine that changes its own variables and channels only.
LEMMA LocalLease ==
  ASSUME NEW p \in Procs, NEW pc, pc \notin OpeningPcs, NEW a, NEW c, Moved(p, pc, a, c),
         proc[p].pc \notin OpeningPcs, UNCHANGED <<cmVars, agents, sent>>
  PROVE  Leased
  <1>1. \A d \in CallIDs, n \in {"callEnded", "callFailed"} : Told(d, n)' <=> Told(d, n)
    BY DEF Told
  <1> QED
    BY <1>1, QuietLease DEF Moved, cmVars

\* A command marks its call, binds it, or says that it began.
LEMMA CommandLease ==
  ASSUME FlowInv, NEW p \in Handlers,
         HandlerStep(p) \/ \E m \in MsgAgentIDs : AgentLogout(p, m) \/ MakeCall(p, m)
  PROVE  Leased
  <1>1. p \in Procs
    BY HandlerFacts
  <1>2. CASE SetCurrentAgent(p) \/ Rejected(p)
    BY <1>1, <1>2, Fields, LocalLease DEF SetCurrentAgent, Rejected, At, Finish, OpeningPcs
  <1>3. CASE PlaceFails(p) \/ OriginateFails(p)
    <2>1. proc' = [proc EXCEPT ![p].pc = "endCall", ![p].end = "FAILED"]
      BY <1>3 DEF PlaceFails, OriginateFails
    <2>2. Moved(p, "endCall", proc[p].agent, proc[p].call)
      BY <1>1, <2>1, Fields
    <2> QED
      BY <1>1, <1>3, <2>2, LocalLease DEF PlaceFails, OriginateFails, At, OpeningPcs
  <1>4. CASE \/ EmulateIncomingCall(p) \/ OriginateReplyNoId(p)
             \/ \E ch \in Channels : Originate(p, ch)
    <2>1. \E pc \in {"dial", "originate"} : proc' = [proc EXCEPT ![p].pc = pc]
      BY <1>4 DEF EmulateIncomingCall, OriginateReplyNoId, Originate, Goto
    <2>2. UNCHANGED <<cmVars, agents, sent>> /\ proc[p].pc \in {"process", "originate"}
      BY <1>4, NoIdBindsNothing DEF EmulateIncomingCall, OriginateReplyNoId, Originate, At
    <2>3. \E pc \in {"dial", "originate"} : Moved(p, pc, proc[p].agent, proc[p].call)
      BY <1>1, <2>1, Fields
    <2> QED
      BY <1>1, <2>2, <2>3, LocalLease DEF OpeningPcs
  <1>5. ASSUME NEW ch \in Channels, OriginateReply(p, ch)
        PROVE  Leased
    <2>1. /\ SetCallChannel(proc[p].call, ch) /\ proc[p].pc = "originate"
          /\ Moved(p, "dial", proc[p].agent, proc[p].call)
          /\ UNCHANGED <<agents, sent>>
      BY <1>1, <1>5, Fields DEF OriginateReply, At, Goto
    <2>2. \A d \in CallIDs : /\ call'[d].agentID = call[d].agentID
                             /\ call'[d].endedAt = call[d].endedAt
      BY <2>1 DEF SetCallChannel, FlowInv, CMInv, CMTypeOK, CallRecord
    <2>3. \A d \in CallIDs, n \in {"callEnded", "callFailed"} : Told(d, n)' <=> Told(d, n)
      BY <2>1 DEF Told
    <2> QED
      BY <1>1, <2>1, <2>2, <2>3, QuietLease DEF Moved, OpeningPcs
  <1>6. CASE Dial(p)
    <2>1. /\ UpdateCallState(proc[p].call, "DIALING") /\ proc[p].pc = "dial"
          /\ Moved(p, "started", proc[p].agent, proc[p].call)
          /\ UNCHANGED <<agents, sent>> /\ proc[p].call \in calls
      BY <1>1, <1>6, Fields, HandlerFacts DEF Dial, At, Goto, CallPcs
    <2>2. "DIALING" \in CallStates /\ "DIALING" \notin TerminalStates
      BY DEF CallStates, TerminalStates
    <2> QED
      BY <1>1, <2>1, <2>2, UpdateLease DEF Moved, OpeningPcs
  <1>7. CASE SendStarted(p) \/ SendSuccess(p)
    <2>1. /\ proc[p].pc \in {"started", "success"} /\ UNCHANGED <<cmVars, agents>>
          /\ Others(p) /\ proc'[p].pc \in {"success", "idle"}
      <3>1. CASE SendStarted(p)
        BY <1>1, <3>1, Fields DEF SendStarted, At, Goto, Moved
      <3>2. CASE SendSuccess(p)
        BY <1>1, <3>2, Fields DEF SendSuccess, At, Finish, Moved
      <3> QED
        BY <1>7, <3>1, <3>2
    <2>2. PICK c \in CallIDs : c = proc[p].call
      BY <2>1, HandlerFacts DEF CallPcs, FlowInv, CMInv, CMTypeOK
    <2>3. UNCHANGED sent \/ Send(c, "callStarted") \/ Send(c, "success")
      BY <1>7, <2>2 DEF SendStarted, SendSuccess
    <2>4. \A d \in CallIDs, n \in {"callEnded", "callFailed"} : Told(d, n)' <=> Told(d, n)
      <3>1. CASE UNCHANGED sent
        BY <3>1 DEF Told
      <3>2. CASE Send(c, "callStarted")
        BY <3>2, SendFacts DEF MessageNames
      <3>3. CASE Send(c, "success")
        BY <3>3, SendFacts DEF MessageNames
      <3> QED
        BY <2>3, <3>1, <3>2, <3>3
    <2> QED
      BY <1>1, <2>1, <2>4, QuietLease DEF OpeningPcs, cmVars
  <1>8. ASSUME NEW m \in MsgAgentIDs, AgentLogout(p, m) \/ MakeCall(p, m)
        PROVE  Leased
    <2>1. \E pc \in {"cleanCalls", "checkAgent"} :
            Moved(p, pc, GetAgentID(m), proc[p].call)
      BY <1>1, <1>8, Fields DEF AgentLogout, MakeCall
    <2> QED
      BY <1>1, <1>8, <2>1, LocalLease DEF AgentLogout, MakeCall, At, OpeningPcs
  <1> QED
    BY <1>2, <1>3, <1>4, <1>5, <1>6, <1>7, <1>8 DEF HandlerStep

\* An event marks its call, or sets out to end it.
LEMMA EventLease ==
  ASSUME FlowInv, NEW p \in EventProcs, EventStep(p)
  PROVE  Leased
  <1> DEFINE c == CallOf(p)
  <1>1. /\ p \in Procs /\ p[1] # None
        /\ c # None => c \in calls /\ call[c].channel = p[1]
    BY EventFacts, NoneIsFresh
  <1>2. CASE NoCallFound(p)
    BY <1>1, <1>2, Fields, LocalLease DEF NoCallFound, At, OpeningPcs
  <1>3. CASE HandleChannelDestroyed(p)
    <2>1. Moved(p, "endCall", proc[p].agent, c)
      BY <1>1, <1>3, Fields DEF HandleChannelDestroyed
    <2> QED
      BY <1>1, <1>3, <2>1, LocalLease DEF HandleChannelDestroyed, Spawned, At, OpeningPcs
  <1>4. CASE \/ HandleChannelCreated(p) \/ HandleRing(p)
             \/ HandleUp(p) \/ HandleDown(p)
    <2>1. \E s \in CallStates : UpdateCallState(c, s)
      BY <1>4 DEF HandleChannelCreated, HandleRing, HandleUp, HandleDown, CallStates
    <2>2. c # None /\ proc[p].pc = "spawned" /\ UNCHANGED <<agents, sent>>
      BY <1>4 DEF HandleChannelCreated, HandleRing, HandleUp, HandleDown, Spawned, At
    <2>3. Others(p) /\ proc'[p].pc \in {"done", "report"}
      <3>1. CASE HandleChannelCreated(p) \/ HandleRing(p)
        BY <1>1, <3>1, Fields DEF HandleChannelCreated, HandleRing, Moved
      <3>2. CASE HandleUp(p)
        BY <1>1, <3>2, Fields DEF HandleUp, Moved
      <3>3. CASE HandleDown(p)
        BY <1>1, <3>3, Fields DEF HandleDown, Moved
      <3> QED
        BY <1>4, <3>1, <3>2, <3>3
    <2> HIDE DEF c
    <2> QED
      BY <1>1, <2>1, <2>2, <2>3, UpdateLease DEF OpeningPcs
  <1> QED
    BY <1>2, <1>3, <1>4 DEF EventStep

\* Asterisk reports a channel.
LEMMA ChannelEventLease ==
  ASSUME FlowInv, NEW ch \in Channels, NEW e \in EventTypes, ChannelEvent(ch, e)
  PROVE  Leased
  <1>1. PICK p \in EventProcs : p = <<ch, e>>
    BY ProcKinds
  <1>2. p \in Procs /\ proc[p].pc \notin OpeningPcs
    BY EventFacts, GoroutineFacts
    DEF ProcOK, LocalSound, EventPcs, EndPcs, OpeningPcs
  <1>3. Moved(p, "spawned", proc[p].agent, proc[p].call)
    BY <1>1, <1>2, Fields DEF ChannelEvent
  <1> QED
    BY <1>2, <1>3, LocalLease DEF ChannelEvent, OpeningPcs

\* The steps of the operations of the StateManager.
LEMMA StateManagerLease ==
  ASSUME FlowInv, NEW p \in Procs, StateManagerStep(p)
  PROVE  Leased
  <1>1. UNCHANGED <<currentAgent, channel, sent>>
    BY DEF StateManagerStep
  <1>2. CASE EndCallState(p)
    <2>1. /\ UpdateCallState(proc[p].call, proc[p].end) /\ proc[p].pc = "endCall"
          /\ Moved(p, "endAgent", proc[p].agent, proc[p].call)
          /\ agents' = agents /\ smLock = None
      BY <1>2, Fields DEF EndCallState, At, Goto, Acquire
    <2>2. proc[p].call \in calls /\ proc[p].end \in CallStates
      BY <2>1, GoroutineFacts DEF EndPcs, TerminalStates, CallStates
    <2> QED
      BY <1>1, <2>1, <2>2, UpdateLease DEF Moved, OpeningPcs
  <1>3. CASE CheckBusy(p)
    <2>1. \E pc \in {"freeAgent", "report"} : proc' = [proc EXCEPT ![p].pc = pc]
      BY <1>3 DEF CheckBusy, Goto
    <2>2. \E pc \in {"freeAgent", "report"} : Moved(p, pc, proc[p].agent, proc[p].call)
      BY <2>1, Fields
    <2> QED
      BY <1>1, <1>3, <2>2, LocalLease DEF CheckBusy, At, OpeningPcs
  <1>4. CASE CleanAgent(p) \/ FreeAgent(p, "READY")
    BY <1>1, <1>4, FreedLease
  <1>5. CASE StartCallStep(p) \/ CleanCalls(p)
    <2>1. p \in Handlers
      <3>1. proc[p].pc \in StartPcs \cup CleanPcs
        BY <1>5 DEF StartCallStep, CheckAgent, CheckCall, CheckPcs, StartCreate, SetBusy, CleanCalls,
           At, StartPcs, CleanPcs
      <3> QED
        BY <3>1, GoroutineFacts DEF ProcOK, LocalSound, EventPcs, EndPcs, StartPcs, CleanPcs
    <2> QED
      BY <1>1, <1>5, <2>1, StartChecksLease, StartCreateLease, SetBusyLease, CleanCallsLease
      DEF StartCallStep
  <1> QED
    BY <1>2, <1>3, <1>4, <1>5 DEF StateManagerStep, EndCallStep, CleanupStep

\* Every step of the flow is one of the lease, or none.
LEMMA LeaseStep ==
  ASSUME FlowInv, [FlowNext]_flowVars
  PROVE  Leased
  <1>1. ASSUME NEW p \in Procs, ProcStep(p)
        PROVE  Leased
    BY <1>1, StateManagerLease, ReportLease, CommandLease, EventLease DEF ProcStep
  <1>2. ASSUME NEW p \in Procs, OverlappingWrite(p)
        PROVE  Leased
    <2>1. CASE SetBusy(p, "TORN")
      <3>1. p \in Handlers
        BY <2>1, GoroutineFacts DEF SetBusy, At, ProcOK, LocalSound, EventPcs, EndPcs
      <3> QED
        BY <1>2, <2>1, <3>1, SetBusyLease DEF OverlappingWrite
    <2>2. CASE FreeAgent(p, "TORN")
      BY <1>2, <2>2, FreedLease DEF OverlappingWrite
    <2> QED
      BY <1>2, <2>1, <2>2 DEF OverlappingWrite
  <1>3. ASSUME NEW p \in Handlers, Command(p)
        PROVE  Leased
    <2>1. CASE \/ \E a \in AgentIDs : AgentRegister(p, a)
               \/ \E m \in MsgAgentIDs : \/ AgentLogin(p, m)
                                         \/ \E s \in {"READY", "BUSY"} : AgentChangeState(p, m, s)
      BY <2>1, AgentCommandLease
    <2>2. CASE \E m \in MsgAgentIDs : AgentLogout(p, m) \/ MakeCall(p, m)
      BY <2>2, CommandLease
    <2> QED
      BY <1>3, <2>1, <2>2 DEF Command
  <1>4. ASSUME NEW ch \in Channels, NEW e \in EventTypes, ChannelEvent(ch, e)
        PROVE  Leased
    BY <1>4, ChannelEventLease
  <1>5. CASE UNCHANGED flowVars
    <2>1. UNCHANGED <<call, agents, proc, sent>>
      BY <1>5 DEF flowVars, smVars, cmVars
    <2>2. \A a \in AgentIDs : MayOpenCall(a)' <=> MayOpenCall(a)
      BY <2>1 DEF MayOpenCall, StartPcs
    <2>3. UNCHANGED <<Owners, ClosedCalls, Announced>>
      BY <2>1 DEF Owners, Opener, At, ClosedCalls, Announced, Told
    <2> QED
      BY <2>2, <2>3, Unseen
  <1> QED
    BY <1>1, <1>2, <1>3, <1>4, <1>5 DEF FlowNext

\* Nobody is READY, no call is opened.
LEMMA LeaseInitially == FlowInit => Lease!LeaseInit
  <1> SUFFICES ASSUME FlowInit PROVE Lease!LeaseInit
    OBVIOUS
  <1>1. /\ \A a \in AgentIDs : agents[a].state = "UNUSED"
        /\ \A p \in Procs : proc[p].pc = "idle"
        /\ \A c \in CallIDs : call[c].agentID = None /\ call[c].endedAt = 0 /\ sent[c] = <<>>
    BY DEF FlowInit, AMInit, NoAgent, CMInit, NoCall, Idle
  <1>2. \A a \in AgentIDs : ~MayOpenCall(a)
    <2>1. "idle" \notin StartPcs
      BY DEF StartPcs
    <2> QED
      BY <1>1, <2>1 DEF MayOpenCall
  <1>3. \A c \in CallIDs : Opener(c) = None
    BY <1>1 DEF Opener, At
  <1>4. Range(<<>>) = {}
    BY DEF Range
  <1>5. \A c \in CallIDs : ~Told(c, "callEnded") /\ ~Told(c, "callFailed")
    BY <1>1, <1>4 DEF Told
  <1> QED
    BY <1>1, <1>2, <1>3, <1>5 DEF Lease!LeaseInit

\* One READY of an agent opens at most one call, a call is closed once, and
\* its outcome is announced only afterwards, through every interleaving of
\* commands and events.
THEOREM FlowImplementsLease == FlowSpec => ReadyLeaseSpec
  <1>1. FlowInv /\ [FlowNext]_flowVars => [Lease!LeaseNext]_leaseState
    BY LeaseStep DEF Leased
  <1>2. FlowInv /\ [FlowNext]_flowVars => [Lease!LeaseNext]_(Lease!leaseVars)
    BY <1>1 DEF Lease!leaseVars, leaseState, ReadyAgents, Owners, ClosedCalls, Announced
  <1> QED
    BY LeaseInitially, FlowInvariance, <1>2, PTL DEF FlowSpec, ReadyLeaseSpec, Lease!LeaseSpec
=============================================================================
