---------------------------- MODULE MCSharedState ----------------------------
(* A small instance of SharedState for TLC: agents and memory keys are      *)
(* interchangeable.                                                         *)
EXTENDS SharedState, TLC

Interchangeable == Permutations(Agents) \cup Permutations(Keys)
==============================================================================
