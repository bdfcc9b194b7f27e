------------------------------ MODULE MCPoller ------------------------------
(* A small instance of Poller for TLC.                                      *)
EXTENDS Poller, TLC
==============================================================================
