------------------------------- MODULE OneShot -------------------------------
(***************************************************************************)
(* What ATMcp promises about ONE instruction to an agent, without saying   *)
(* how: it is handed out once and executed at most once; only the executor *)
(* that still has it answers for it, and answers once; the console may     *)
(* cancel it until there is an answer.  What is lost on the way, the grant *)
(* or the executor with it, is lost for good: such an instruction gets no  *)
(* answer, and nobody else gets it.                                        *)
(*                                                                         *)
(* Directives implements this specification for each of its directives.    *)
(***************************************************************************)

VARIABLES status,    \* what the console sees
          executor,  \* who has the instruction
          runs       \* the executions begun, numbered

shot == <<status, executor, runs>>

Answers == {"done", "failed"}

Init == status = "absent" /\ executor = "nobody" /\ runs = {}

Send == /\ status = "absent"
        /\ status' = "pending"
        /\ UNCHANGED <<executor, runs>>

(* Handed out, to a worker that waits for it or to one that has given up. *)
Grant == /\ status = "pending" /\ executor = "nobody"
         /\ status' = "running"
         /\ executor' \in {"chosen", "lost"}
         /\ UNCHANGED runs

(* Whether the console has canceled it meanwhile is not looked at. *)
Begin == /\ executor = "chosen"
         /\ executor' = "at work"
         /\ \E i \in runs' : runs' = {i}
         /\ UNCHANGED status

Lose == /\ executor \in {"chosen", "at work"} /\ status \notin Answers
        /\ executor' = "lost"
        /\ UNCHANGED <<status, runs>>

Answer == /\ status = "running" /\ executor = "at work"
          /\ status' \in Answers
          /\ UNCHANGED <<executor, runs>>

Cancel == /\ status \in {"pending", "running"}
          /\ status' = "canceled"
          /\ UNCHANGED <<executor, runs>>

Next == Send \/ Grant \/ Begin \/ Lose \/ Answer \/ Cancel

Spec == Init /\ [][Next]_shot
==============================================================================
