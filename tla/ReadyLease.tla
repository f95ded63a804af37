----------------------------- MODULE ReadyLease -----------------------------
(***************************************************************************)
(* What the domain package promises the CTI peer, with the locks, the      *)
(* handlers and the goroutines left out: an agent that becomes READY is    *)
(* good for one call and no more, a call is closed once, and the peer is   *)
(* told of a call's outcome only when the call is closed.                  *)
(*                                                                         *)
(* It does not promise that an agent has one call at a time: a peer that   *)
(* makes a BUSY agent READY again buys it a second one.                    *)
(***************************************************************************)
CONSTANTS Agents, Calls, None

VARIABLES
  ready,      \* agents that may open a call
  owner,      \* [Calls -> the agent that opened it, or None]
  closed,     \* calls that have ended
  announced   \* calls whose outcome was announced

leaseVars == <<ready, owner, closed, announced>>

LeaseInit ==
  /\ ready = {}
  /\ owner = [c \in Calls |-> None]
  /\ closed = {}
  /\ announced = {}

Grant(a) ==
  /\ ready' = ready \cup {a}
  /\ UNCHANGED <<owner, closed, announced>>

Revoke(a) ==
  /\ ready' = ready \ {a}
  /\ UNCHANGED <<owner, closed, announced>>

\* Opening a call uses the grant up.
Open(a, c) ==
  /\ a \in ready
  /\ owner[c] = None
  /\ ready' = ready \ {a}
  /\ owner' = [owner EXCEPT ![c] = a]
  /\ UNCHANGED <<closed, announced>>

\* One call ends, or a logout ends every call of its agent.
Close(a, S) ==
  /\ \A c \in S : owner[c] = a /\ c \notin closed
  /\ closed' = closed \cup S
  /\ UNCHANGED <<ready, owner, announced>>

Announce(c) ==
  /\ c \in closed
  /\ announced' = announced \cup {c}
  /\ UNCHANGED <<ready, owner, closed>>

LeaseNext ==
  \/ \E a \in Agents : Grant(a) \/ Revoke(a)
  \/ \E a \in Agents, c \in Calls : Open(a, c)
  \/ \E a \in Agents, S \in SUBSET Calls : Close(a, S)
  \/ \E c \in Calls : Announce(c)

LeaseSpec == LeaseInit /\ [][LeaseNext]_leaseVars
============================================================================
