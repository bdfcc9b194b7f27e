--------------------------- MODULE MCTaskScheduler ---------------------------
(* Small instances of TaskScheduler for TLC. *)
EXTENDS TaskScheduler, TLC

(* Agents and tasks are interchangeable: no action or property names one.   *)
(* Used where only safety is checked.                                       *)
AllSymmetry == Permutations(Agents) \cup Permutations(Tasks)
==============================================================================
