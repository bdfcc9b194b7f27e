---------------------------- MODULE MCDirectives ----------------------------
(* A small instance of Directives for TLC.                                 *)
EXTENDS Directives
==============================================================================
