--------------------------- MODULE MCCallManager ---------------------------
(***************************************************************************)
(* TLC instance of CallManager: the store under every sequence of its      *)
(* methods.                                                                *)
(***************************************************************************)
EXTENDS CallManager, TLC

Symmetry == Permutations(CallIDs) \cup Permutations(Channels) \cup Permutations(AgentIDs)
============================================================================
