---------------------------- MODULE AgentManager ----------------------------
(***************************************************************************)
(* internal/domain/agent.go: the registry of agents.  Every method holds   *)
(* am.mutex, so every method is one action.  LastRefID and the time stamps *)
(* are written and never read, and are left out.                           *)
(*                                                                         *)
(* am.mutex protects the map, not the Agent objects: StartCall and EndCall *)
(* of the StateManager write State and CallID through the pointer GetAgent *)
(* returned, without it.  Those writes are actions of StateManager.        *)
(*                                                                         *)
(* A Go string is two words.  When such a write and UpdateAgentState       *)
(* overlap, the pointer of one state and the length of the other may stay: *)
(* TORN is that string.  The states that can meet have different lengths,  *)
(* so it equals no constant of AgentState.  A torn READ needs no value: a  *)
(* comparison of a half-written string with a constant answers what the    *)
(* old string or the new one would.                                        *)
(***************************************************************************)
EXTENDS DomainTypes

VARIABLE agents   \* am.agents, and the Agent objects it points to

AgentRecord ==
  [ state  : AgentStates \cup {"UNUSED", "TORN"},
    callID : CallIDs \cup {None} ]

NoAgent == [state |-> "UNUSED", callID |-> None]

AMInit == agents = [a \in AgentIDs |-> NoAgent]

\* GetAgent finds the agent.
AgentExists(a) == a # None /\ agents[a].state # "UNUSED"

CreateAgent(a) ==
  /\ agents[a].state = "UNUSED"
  /\ agents' = [agents EXCEPT ![a].state = "REGISTERED"]

\* Any state may follow any state.  An unknown agent is ErrAgentNotFound.
UpdateAgentState(a, state) ==
  /\ AgentExists(a)
  /\ agents' = [agents EXCEPT ![a].state = state]

\* The agent stays in the registry: it is marked, not deleted.
CleanupAgent(a) ==
  agents' = [agents EXCEPT ![a] =
               IF AgentExists(a) THEN [state |-> "LOGGED_OUT", callID |-> None] ELSE @]

AMTypeOK == agents \in [AgentIDs -> AgentRecord]
============================================================================
