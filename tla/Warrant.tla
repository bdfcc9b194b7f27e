------------------------------- MODULE Warrant -------------------------------
(***************************************************************************)
(* What the command guard promises about ONE command that a model wants    *)
(* run, without saying how: the command is run at most once, and only on a *)
(* warrant.  The server warrants what it allows; a human warrants what it  *)
(* has a question about, with a verdict that never changes; and the host   *)
(* itself warrants what its own list does not forbid when the server is    *)
(* not heard.  A warrant that was refused or given up is void for good:    *)
(* no later decision or verdict revives it.                                *)
(*                                                                         *)
(* HostTurn implements this specification for the command of each turn.    *)
(***************************************************************************)
CONSTANTS Commands,
          Denied,     \* those the server never allows
          Forbidden,  \* those the host's own list never allows
          None

VARIABLES command,    \* what is to be run
          decision,   \* what the server decided
          verdicts,   \* what humans were told stands
          warrant     \* who has warranted the command, and whether it was used

case == <<command, decision, verdicts, warrant>>

Warrants == {"server", "human", "host"}

Init == command = None /\ decision = None /\ verdicts = {} /\ warrant = "none"

Ask == /\ command = None
       /\ command' \in Commands
       /\ UNCHANGED <<decision, verdicts, warrant>>

(* The server may decide long after the host has stopped waiting. *)
Decide == /\ command # None /\ decision = None
          /\ decision' \in {"allow", "ask", "deny"}
          /\ command \in Denied => decision' = "deny"
          /\ UNCHANGED <<command, verdicts, warrant>>

(* So may a human. *)
Settle == /\ decision = "ask" /\ verdicts = {}
          /\ \E v \in {"allowed", "denied"} : verdicts' = {v}
          /\ UNCHANGED <<command, decision, warrant>>

Issue == /\ command # None /\ warrant = "none"
         /\ \/ decision = "allow" /\ warrant' = "server"
            \/ decision = "ask" /\ verdicts = {"allowed"} /\ warrant' = "human"
            \/ command \notin Forbidden /\ warrant' = "host"
         /\ UNCHANGED <<command, decision, verdicts>>

Use == /\ warrant \in Warrants
       /\ warrant' = "used"
       /\ UNCHANGED <<command, decision, verdicts>>

Void == /\ command # None /\ warrant \in Warrants \cup {"none"}
        /\ warrant' = "void"
        /\ UNCHANGED <<command, decision, verdicts>>

Next == Ask \/ Decide \/ Settle \/ Issue \/ Use \/ Void

Spec == Init /\ [][Next]_case
==============================================================================
