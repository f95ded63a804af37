---------------------------- MODULE StateManager ----------------------------
(***************************************************************************)
(* internal/domain/state.go: the operations that change an agent and its   *)
(* call together.  sm.mutex is held for the whole operation, but the agent *)
(* registry and the call store keep mutexes of their own, and the handlers *)
(* call those directly: UpdateAgentState, UpdateCallState, SetCallChannel  *)
(* and CreateAgent run in the middle of StartCall, EndCall and             *)
(* CleanupAgent.  Each operation is therefore a sequence of steps of the   *)
(* goroutine that runs it, one per access to shared state.                 *)
(*                                                                         *)
(* proc[p] is the local state of goroutine p: pc, and the variables of the *)
(* function it runs.  An operation starts at the pc its caller sets and    *)
(* leaves p at a pc that names its result.                                 *)
(***************************************************************************)
EXTENDS CallManager, AgentManager

CONSTANT Procs        \* every goroutine that may run an operation

VARIABLES
  smLock,   \* the goroutine that holds sm.mutex for writing, or None
  proc      \* [Procs -> local state]

smVars == <<cmVars, agents, smLock, proc>>

ASSUME ProcsAreNotNone == None \notin Procs

\* The pcs of the three operations, in the order they are taken.
StartPcs ==
  {"checkAgent", "checkCall", "checkRinging", "checkInProgress", "create", "setBusy"}
EndPcs == {"endCall", "endAgent", "freeAgent"}
CleanPcs == {"cleanCalls", "cleanAgent"}

\* The pcs at which a goroutine is inside a critical section of sm.mutex.
LockedPcs ==
  {"checkCall", "checkRinging", "checkInProgress", "create", "setBusy", "endAgent",
   "freeAgent", "cleanAgent"}

\* The pcs of the goroutines outside the three operations (see CallFlow).
CallerPcs ==
  {"idle", "registered", "rejected", "process", "originate", "dial", "started", "success",
   "spawned", "report", "done"}

Local ==
  [ pc    : StartPcs \cup EndPcs \cup CleanPcs \cup CallerPcs,
    agent : AgentIDs \cup {None},
    call  : CallIDs \cup {None},
    end   : TerminalStates \cup {None} ]

At(p, pc) == proc[p].pc = pc

Goto(p, pc) == proc' = [proc EXCEPT ![p].pc = pc]

Acquire(p) == smLock = None /\ smLock' = p

Release(p) == smLock' = None

\* IsAgentReady under sm.mutex.RLock, and the test StartCall repeats.
IsAgentReady(a) == AgentExists(a) /\ agents[a].state = "READY"

----------------------------------------------------------------------------
(* StartCall *)

\* Mutant of CheckAgent: the check is made under the read lock.
CheckAgentUnlocked(p) ==
  /\ At(p, "checkAgent")
  /\ smLock = None
  /\ IF IsAgentReady(proc[p].agent) THEN Goto(p, "checkCall") ELSE Goto(p, "rejected")
  /\ UNCHANGED <<cmVars, agents, smLock>>

\* The lock is taken; an agent that is not READY is refused at once.
CheckAgent(p) ==
  /\ At(p, "checkAgent")
  /\ smLock = None
  /\ IF IsAgentReady(proc[p].agent)
     THEN smLock' = p /\ Goto(p, "checkCall")
     ELSE UNCHANGED smLock /\ Goto(p, "rejected")
  /\ UNCHANGED <<cmVars, agents>>

CheckPcs == {"checkCall", "checkRinging", "checkInProgress"}

\* The state of the agent's latest call is read for every comparison anew, and
\* without cm.mutex: commands and events write it in between.
Compared(pc) ==
  CASE pc = "checkCall"       -> "DIALING"
    [] pc = "checkRinging"    -> "RINGING"
    [] pc = "checkInProgress" -> "IN_PROGRESS"

ActiveCall(p) ==
  LET existing == callsByAgent[proc[p].agent] IN
  existing # None /\ call[existing].state = Compared(proc[p].pc)

AfterCheck(p) ==
  IF callsByAgent[proc[p].agent] = None \/ At(p, "checkInProgress")
  THEN "create"
  ELSE IF At(p, "checkCall") THEN "checkRinging" ELSE "checkInProgress"

\* Mutant of CheckCall: the early return leaves the lock held.
CheckCallKeepsLock(p) ==
  /\ proc[p].pc \in CheckPcs
  /\ Goto(p, IF ActiveCall(p) THEN "rejected" ELSE AfterCheck(p))
  /\ UNCHANGED <<cmVars, agents, smLock>>

\* Only the latest call of the agent is looked at, and CREATED is not active.
CheckCall(p) ==
  /\ proc[p].pc \in CheckPcs
  /\ IF ActiveCall(p)
     THEN Release(p) /\ Goto(p, "rejected")
     ELSE UNCHANGED smLock /\ Goto(p, AfterCheck(p))
  /\ UNCHANGED <<cmVars, agents>>

\* Mutant of StartCreate: the lock is released before the agent is written.
StartCreateUnlocks(p, c, refID) ==
  /\ At(p, "create")
  /\ CreateCall(c, proc[p].agent, refID)
  /\ proc' = [proc EXCEPT ![p].pc = "setBusy", ![p].call = c]
  /\ Release(p)
  /\ UNCHANGED agents

StartCreate(p, c, refID) ==
  /\ At(p, "create")
  /\ CreateCall(c, proc[p].agent, refID)
  /\ proc' = [proc EXCEPT ![p].pc = "setBusy", ![p].call = c]
  /\ UNCHANGED <<agents, smLock>>

\* Written through the agent pointer, without am.mutex: `written' is BUSY, or
\* TORN when the write overlaps one of UpdateAgentState.
SetBusy(p, written) ==
  /\ At(p, "setBusy")
  /\ agents' = [agents EXCEPT ![proc[p].agent] =
                  [state |-> written, callID |-> proc[p].call]]
  /\ Release(p)
  /\ proc' = [proc EXCEPT ![p].pc = "process", ![p].agent = None]
  /\ UNCHANGED cmVars

StartCallStep(p) ==
  \/ CheckAgent(p)
  \/ CheckCall(p)
  \/ \E c \in CallIDs, r \in RefIDs \cup {None} : StartCreate(p, c, r)
  \/ SetBusy(p, "BUSY")

----------------------------------------------------------------------------
(* EndCall.  The caller has set proc[p].call and proc[p].end. *)

EndCallState(p) ==
  /\ At(p, "endCall")
  /\ Acquire(p)
  /\ UpdateCallState(proc[p].call, proc[p].end)
  /\ Goto(p, "endAgent")
  /\ UNCHANGED agents

\* Mutant of CheckBusy: with nothing to free the lock stays held.
CheckBusyKeepsLock(p) ==
  LET a == call[proc[p].call].agentID IN
  /\ At(p, "endAgent")
  /\ Goto(p, IF AgentExists(a) /\ agents[a].state = "BUSY" THEN "freeAgent" ELSE "report")
  /\ UNCHANGED <<cmVars, agents, smLock>>

\* Mutant of CheckBusy: an agent that is not BUSY is an error, on which the
\* callers return.
CheckBusyFails(p) ==
  LET a == call[proc[p].call].agentID IN
  /\ At(p, "endAgent")
  /\ IF AgentExists(a) /\ agents[a].state = "BUSY"
     THEN UNCHANGED smLock /\ Goto(p, "freeAgent")
     ELSE Release(p) /\ Goto(p, "done")
  /\ UNCHANGED <<cmVars, agents>>

\* The agent of the call is freed if it is BUSY, with whichever call it is.
CheckBusy(p) ==
  LET a == call[proc[p].call].agentID IN
  /\ At(p, "endAgent")
  /\ IF AgentExists(a) /\ agents[a].state = "BUSY"
     THEN UNCHANGED smLock /\ Goto(p, "freeAgent")
     ELSE Release(p) /\ Goto(p, "report")
  /\ UNCHANGED <<cmVars, agents>>

\* Mutant of FreeAgent: only the CallID is cleared.
FreeAgentKeepsState(p, written) ==
  /\ At(p, "freeAgent")
  /\ agents' = [agents EXCEPT ![call[proc[p].call].agentID].callID = None]
  /\ Release(p)
  /\ Goto(p, "report")
  /\ UNCHANGED cmVars

FreeAgent(p, written) ==
  /\ At(p, "freeAgent")
  /\ agents' = [agents EXCEPT ![call[proc[p].call].agentID] =
                  [state |-> written, callID |-> None]]
  /\ Release(p)
  /\ Goto(p, "report")
  /\ UNCHANGED cmVars

EndCallStep(p) == EndCallState(p) \/ CheckBusy(p) \/ FreeAgent(p, "READY")

----------------------------------------------------------------------------
(* CleanupAgent.  The caller has set proc[p].agent. *)

CleanCalls(p) ==
  /\ At(p, "cleanCalls")
  /\ Acquire(p)
  /\ CleanupCallsForAgent(proc[p].agent)
  /\ Goto(p, "cleanAgent")
  /\ UNCHANGED agents

CleanAgent(p) ==
  /\ At(p, "cleanAgent")
  /\ CleanupAgent(proc[p].agent)
  /\ Release(p)
  /\ proc' = [proc EXCEPT ![p].pc = "idle", ![p].agent = None]
  /\ UNCHANGED cmVars

CleanupStep(p) == CleanCalls(p) \/ CleanAgent(p)

----------------------------------------------------------------------------
(* Properties of the operations, whoever calls them. *)

\* sm.mutex is held exactly by the goroutine that is between the first and
\* the last access of an operation: every return path releases it.
LockHeldInside ==
  \A p \in Procs : proc[p].pc \in LockedPcs <=> smLock = p

\* Outside StartCall the agent and the call store agree on the current call:
\* an agent's CallID is the call callsByAgent leads to.
CurrentCallIndexed ==
  \A a \in AgentIDs :
    \/ agents[a].callID \in {None, callsByAgent[a]}
    \/ \E p \in Procs : At(p, "setBusy") /\ proc[p].agent = a
============================================================================
