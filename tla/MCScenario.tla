----------------------------- MODULE MCScenario -----------------------------
(***************************************************************************)
(* TLC instances of Scenario.                                              *)
(***************************************************************************)
EXTENDS Scenario, TLC

MCProcs == Handlers \cup (Channels \X EventTypes)

Symmetry == Permutations(Handlers) \cup Permutations(CallIDs) \cup Permutations(Channels)
            \cup Permutations(AgentIDs) \cup Permutations(Requests)
============================================================================
