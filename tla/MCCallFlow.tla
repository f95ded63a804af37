----------------------------- MODULE MCCallFlow -----------------------------
(***************************************************************************)
(* TLC instances of CallFlow.                                              *)
(***************************************************************************)
EXTENDS CallFlow, TLC

MCProcs == Handlers \cup (Channels \X EventTypes)

Symmetry == Permutations(Handlers) \cup Permutations(CallIDs) \cup Permutations(Channels)
            \cup Permutations(AgentIDs)
============================================================================
