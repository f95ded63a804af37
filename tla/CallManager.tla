---------------------------- MODULE CallManager ----------------------------
(***************************************************************************)
(* internal/domain/call.go: the store of calls and its three secondary     *)
(* indexes.  Every method holds cm.mutex from its first to its last        *)
(* statement, so every method is one action.                               *)
(*                                                                         *)
(* The Go maps hold pointers.  The heap of Call objects is `call', a       *)
(* function of the uuid; `calls' is the key set of cm.calls, and an index  *)
(* maps a key to the uuid of the object it points to, or to None.  A       *)
(* goroutine that kept a pointer keeps reading `call' after a removal.     *)
(*                                                                         *)
(* StartedAt and EndedAt are abstracted to their order: 0 is the nil       *)
(* pointer, and the stamp recorded later has the larger number.            *)
(***************************************************************************)
EXTENDS DomainTypes, Naturals

VARIABLES
  call,            \* the Call objects, by uuid
  calls,           \* keys of cm.calls
  callsByRefID,    \* cm.callsByRefID
  callsByAgent,    \* cm.callsByAgent
  callsByChannel   \* cm.callsByChannel

cmVars == <<call, calls, callsByRefID, callsByAgent, callsByChannel>>

CallRecord ==
  [ agentID   : AgentIDs \cup {None},
    refID     : RefIDs \cup {None},
    state     : CallStates \cup {"UNUSED"},
    channel   : Channels \cup {None},
    startedAt : 0..2,
    endedAt   : 0..3 ]

NoCall ==
  [ agentID |-> None, refID |-> None, state |-> "UNUSED", channel |-> None,
    startedAt |-> 0, endedAt |-> 0 ]

CMInit ==
  /\ call = [c \in CallIDs |-> NoCall]
  /\ calls = {}
  /\ callsByRefID = [r \in RefIDs \cup {None} |-> None]
  /\ callsByAgent = [a \in AgentIDs |-> None]
  /\ callsByChannel = [ch \in Channels |-> None]

----------------------------------------------------------------------------
(* The methods that change the store. *)

NewCall(agentID, refID) ==
  [NoCall EXCEPT !.agentID = agentID, !.refID = refID, !.state = "CREATED"]

\* A fresh uuid is drawn; the call becomes the one its agent and its refId
\* lead to, whatever they led to before.  A command without a refId is
\* indexed under the empty string.
CreateCall(c, agentID, refID) ==
  /\ call[c].state = "UNUSED"
  /\ call' = [call EXCEPT ![c] = NewCall(agentID, refID)]
  /\ calls' = calls \cup {c}
  /\ callsByRefID' = [callsByRefID EXCEPT ![refID] = c]
  /\ callsByAgent' = [callsByAgent EXCEPT ![agentID] = c]
  /\ UNCHANGED callsByChannel

\* Mutant of Updated: a failed call gets no EndedAt.
UpdatedOnlyEnded(obj, state) ==
  [obj EXCEPT
     !.state     = state,
     !.startedAt = IF state = "IN_PROGRESS" /\ @ = 0 THEN obj.endedAt + 1 ELSE @,
     !.endedAt   = IF state = "ENDED" /\ @ = 0 THEN obj.startedAt + 1 ELSE @]

\* Mutant of Updated: a second IN_PROGRESS stamps StartedAt again.
UpdatedRestarts(obj, state) ==
  [obj EXCEPT
     !.state     = state,
     !.startedAt = IF state = "IN_PROGRESS" THEN obj.endedAt + 1 ELSE @,
     !.endedAt   = IF state \in TerminalStates /\ @ = 0 THEN obj.startedAt + 1 ELSE @]

\* The object after UpdateCallState: the first IN_PROGRESS stamps StartedAt,
\* the first ENDED or FAILED stamps EndedAt.  There is no check of the
\* transition: any state may follow any state.
Updated(obj, state) ==
  [obj EXCEPT
     !.state     = state,
     !.startedAt = IF state = "IN_PROGRESS" /\ @ = 0 THEN obj.endedAt + 1 ELSE @,
     !.endedAt   = IF state \in TerminalStates /\ @ = 0 THEN obj.startedAt + 1 ELSE @]

\* For an id that is not in cm.calls the method returns ErrCallNotFound and
\* changes nothing: the guard is its early return.
UpdateCallState(c, state) ==
  /\ c \in calls
  /\ call' = [call EXCEPT ![c] = Updated(@, state)]
  /\ UNCHANGED <<calls, callsByRefID, callsByAgent, callsByChannel>>

\* Mutant of SetCallChannel: the empty channel id is indexed too.
SetCallChannelIndexesEmpty(c, ch) ==
  /\ c \in calls
  /\ call' = [call EXCEPT ![c].channel = ch]
  /\ callsByChannel' =
       [x \in Channels \cup {ch} |-> IF x = ch THEN c
                                    ELSE IF x = call[c].channel THEN None
                                    ELSE callsByChannel[x]]
  /\ UNCHANGED <<calls, callsByRefID, callsByAgent>>

\* The old channel's entry is deleted, whichever call it points to, before
\* the new one is written.
SetCallChannel(c, ch) ==
  /\ c \in calls
  /\ call' = [call EXCEPT ![c].channel = ch]
  /\ callsByChannel' =
       [x \in Channels |-> IF x = ch THEN c
                           ELSE IF x = call[c].channel THEN None
                           ELSE callsByChannel[x]]
  /\ UNCHANGED <<calls, callsByRefID, callsByAgent>>

\* Mutant of RemoveCall: the refId still leads to the call.
RemoveCallKeepsRefID(c) ==
  /\ c \in calls
  /\ calls' = calls \ {c}
  /\ callsByAgent' = [callsByAgent EXCEPT ![call[c].agentID] = None]
  /\ callsByChannel' =
       [x \in Channels |-> IF x = call[c].channel THEN None ELSE callsByChannel[x]]
  /\ UNCHANGED <<call, callsByRefID>>

\* Every key of the call is deleted from every map, whichever call the key
\* points to by now.
RemoveCall(c) ==
  /\ c \in calls
  /\ calls' = calls \ {c}
  /\ callsByRefID' = [callsByRefID EXCEPT ![call[c].refID] = None]
  /\ callsByAgent' = [callsByAgent EXCEPT ![call[c].agentID] = None]
  /\ callsByChannel' =
       [x \in Channels |-> IF x = call[c].channel THEN None ELSE callsByChannel[x]]
  /\ UNCHANGED call

\* Every call of the agent is ENDED and its EndedAt overwritten, including
\* the calls that had ended before.
CleanupCallsForAgent(agentID) ==
  /\ call' = [c \in CallIDs |->
                IF c \in calls /\ call[c].agentID = agentID
                THEN [call[c] EXCEPT !.state = "ENDED", !.endedAt = call[c].startedAt + 1]
                ELSE call[c]]
  /\ UNCHANGED <<calls, callsByRefID, callsByAgent, callsByChannel>>

----------------------------------------------------------------------------
(* The store on its own: any sequence of its methods. *)

CMNext ==
  \/ \E c \in CallIDs, a \in AgentIDs, r \in RefIDs \cup {None} : CreateCall(c, a, r)
  \/ \E c \in CallIDs, s \in CallStates : UpdateCallState(c, s)
  \/ \E c \in CallIDs, ch \in Channels \cup {None} : SetCallChannel(c, ch)
  \/ \E c \in CallIDs : RemoveCall(c)
  \/ \E a \in AgentIDs : CleanupCallsForAgent(a)

CMSpec == CMInit /\ [][CMNext]_cmVars

----------------------------------------------------------------------------
(* Properties. *)

\* Every variable of the store has its type.
CMTypeOK ==
  /\ call \in [CallIDs -> CallRecord]
  /\ calls \in SUBSET CallIDs
  /\ callsByRefID \in [RefIDs \cup {None} -> CallIDs \cup {None}]
  /\ callsByAgent \in [AgentIDs -> CallIDs \cup {None}]
  /\ callsByChannel \in [Channels -> CallIDs \cup {None}]

\* Whatever is created, rebound and removed in whatever order, an index never
\* leads to a call that was removed or that no longer carries the key: the
\* lookups of call.go never hand out a stale call.  The deletes of
\* SetCallChannel and RemoveCall go by key and not by call, so this is not
\* obvious when two calls share a refId, an agent or a channel.
IndexSound ==
  /\ \A r \in RefIDs \cup {None} :
       callsByRefID[r] # None => /\ callsByRefID[r] \in calls
                                 /\ call[callsByRefID[r]].refID = r
  /\ \A a \in AgentIDs :
       callsByAgent[a] # None => /\ callsByAgent[a] \in calls
                                 /\ call[callsByAgent[a]].agentID = a
  /\ \A ch \in Channels :
       callsByChannel[ch] # None => /\ callsByChannel[ch] \in calls
                                    /\ call[callsByChannel[ch]].channel = ch

\* The stamps SendCallEndedEvent computes the duration from are there when it
\* needs them: a call that is IN_PROGRESS has a StartedAt, a call that is
\* ENDED or FAILED has an EndedAt, in whatever order its states came.
StampsSound ==
  \A c \in CallIDs :
    /\ call[c].state = "IN_PROGRESS" => call[c].startedAt # 0
    /\ call[c].state \in TerminalStates => call[c].endedAt # 0

\* A recorded stamp is never cleared, StartedAt is never rewritten and
\* EndedAt never moves back, even by events that reopen an ended call.
StampsOnlyGrow ==
  [][\A c \in CallIDs :
       /\ call[c].startedAt # 0 => call'[c].startedAt = call[c].startedAt
       /\ call'[c].endedAt >= call[c].endedAt]_cmVars
============================================================================
