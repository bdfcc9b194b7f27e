---------------------------- MODULE MCMembership ----------------------------
(* A small instance of Membership for TLC: agents are interchangeable, and  *)
(* so are the slots; every session sends the same name.                     *)
EXTENDS Membership, TLC

SameHeader == [s \in Sessions |-> CHOOSE n \in Names : TRUE]
Interchangeable == Permutations(Agents) \cup Permutations(Slots)
==============================================================================
