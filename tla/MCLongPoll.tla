----------------------------- MODULE MCLongPoll -----------------------------
(* A small instance of LongPoll for TLC.  Readers do not affect one        *)
(* another, so one reader shows what any number would.                     *)
EXTENDS LongPoll

CONSTANTS r1, x

OneReader == [r \in {r1} |-> x]
==============================================================================
