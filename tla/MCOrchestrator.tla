---------------------------- MODULE MCOrchestrator ----------------------------
(* Orchestrator with a few descriptors, connections and workers.           *)
EXTENDS Orchestrator, TLC

Names == Permutations(Fd) \cup Permutations(Conn) \cup Permutations(Worker)
=============================================================================
