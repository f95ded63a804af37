---------------------------- MODULE DomainTypes ----------------------------
(***************************************************************************)
(* The vocabulary of internal/domain: the identifiers the managers key     *)
(* their maps with, and the states of an agent and of a call.              *)
(*                                                                         *)
(* None stands for Go's nil pointer and for the empty string, which the    *)
(* code uses as "no agent", "no channel" and "no current call".            *)
(***************************************************************************)
CONSTANTS
  AgentIDs,   \* uuids CreateAgent may draw
  CallIDs,    \* uuids CreateCall may draw
  RefIDs,     \* refId values a CTI command may carry
  Channels,   \* Asterisk channel ids
  None        \* nil, or the empty string

\* The modules add UNUSED, which is not a Go value: it marks a uuid that has
\* not been drawn yet.
AgentStates == {"REGISTERED", "LOGGED_IN", "READY", "BUSY", "LOGGED_OUT"}

CallStates == {"CREATED", "DIALING", "RINGING", "IN_PROGRESS", "ENDED", "FAILED"}

\* The states StartCall and IsAgentBusy count as "active": CREATED is not one.
ActiveStates == {"DIALING", "RINGING", "IN_PROGRESS"}

TerminalStates == {"ENDED", "FAILED"}

ASSUME NoneIsFresh ==
  /\ None \notin AgentIDs
  /\ None \notin CallIDs
  /\ None \notin RefIDs
  /\ None \notin Channels
  /\ None \notin TerminalStates
============================================================================
