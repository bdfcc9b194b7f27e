----------------------------- MODULE MCHostTurn -----------------------------
(* A small instance of HostTurn for TLC: hosts are interchangeable.         *)
EXTENDS HostTurn, TLC

Interchangeable == Permutations(Hosts)
==============================================================================
