----------------------------- MODULE Directives -----------------------------
(***************************************************************************)
(* The directive bus of one agent and the workers that serve it: the       *)
(* workbench host, which runs one turn per thread and several threads at   *)
(* once, and the poller, which runs one directive at a time.  Both long-   *)
(* poll the same inbox, claim over HTTP and report over HTTP; requests     *)
(* time out and are served late or never, answers get lost, workers crash, *)
(* and the console may cancel at any moment.                               *)
(*                                                                         *)
(* There is no lease: a directive leaves running only by a report or by a  *)
(* cancellation.  Calls of other agents are refused at the not_yours       *)
(* guards and change nothing; they are left out.                           *)
(***************************************************************************)
EXTENDS Integers, Sequences, FiniteSets

CONSTANTS
  Hosts,         \* processes of atmcp_workbench_host.py for this agent
  Pollers,       \* processes of atmcp_worker_poller.py for this agent
  Threads,       \* session ids; the default thread is one of them
  Priorities,
  Capacity,      \* --max-concurrent
  Limit,         \* directives per inbox answer
  MaxDirectives  \* bound on the directives sent

ASSUME DirectivesAssumption ==
  /\ Hosts \cap Pollers = {}
  /\ Priorities \subseteq Int
  /\ Capacity \in Nat \ {0}
  /\ Limit \in Nat \ {0}

VARIABLES
  directives,  \* the table, in the order of sending
  lateClaims,  \* directives whose claim request outlived its caller
  reports,     \* report requests the server has not served
  pc,          \* what each worker's loop is doing
  inbox,       \* what is left of the inbox answer it goes through
  wanted,      \* the directive it is claiming
  turns,       \* the directives it is executing
  reporting,   \* those of them whose report it has sent
  starts,      \* history: the directives in the order their turns began
  stranded     \* history: directives whose worker, or whose grant, was lost

server == <<directives, lateClaims, reports>>
loop   == <<pc, inbox, wanted>>
lanes  == <<turns, reporting>>
vars   == <<server, loop, lanes, starts, stranded>>

Workers  == Hosts \cup Pollers
Outcomes == {"done", "failed"}
Final    == Outcomes \cup {"canceled"}
Statuses == {"pending", "running"} \cup Final
Stages   == {"polling", "claiming", "granted", "refused"}

Rows    == [thread : Threads, priority : Priorities, status : Statuses]
Ids     == 1..Len(directives)
Pending == {d \in Ids : directives[d].status = "pending"}

Init ==
  /\ directives = <<>>
  /\ lateClaims = {}
  /\ reports = {}
  /\ pc = [w \in Workers |-> "polling"]
  /\ inbox = [w \in Workers |-> {}]
  /\ wanted = [w \in Workers |-> 0]
  /\ turns = [w \in Workers |-> {}]
  /\ reporting = [w \in Workers |-> {}]
  /\ starts = <<>>
  /\ stranded = {}

------------------------------------------------------------------------------
(* The server's side of a directive. *)

SetStatus(d, s) == directives' = [directives EXCEPT ![d].status = s]

SendDirective ==
  \E t \in Threads, p \in Priorities :
    /\ Len(directives) < MaxDirectives
    /\ directives' = Append(directives, [thread |-> t, priority |-> p, status |-> "pending"])
    /\ UNCHANGED <<lateClaims, reports, loop, lanes, starts, stranded>>

(* Mutant of ClaimDirective: a running directive is granted again. *)
ClaimOpen(w) ==
  /\ pc[w] = "claiming"
  /\ \/ /\ directives[wanted[w]].status \in {"pending", "running"}
        /\ SetStatus(wanted[w], "running")
        /\ pc' = [pc EXCEPT ![w] = "granted"]
     \/ /\ directives[wanted[w]].status \notin {"pending", "running"}
        /\ pc' = [pc EXCEPT ![w] = "refused"]
        /\ UNCHANGED directives
  /\ UNCHANGED <<lateClaims, reports, inbox, wanted, lanes, starts, stranded>>

(* claim_directive, from the worker that still waits for the answer. *)
ClaimDirective(w) ==
  /\ pc[w] = "claiming"
  /\ \/ /\ wanted[w] \in Pending
        /\ SetStatus(wanted[w], "running")
        /\ pc' = [pc EXCEPT ![w] = "granted"]
     \/ /\ wanted[w] \notin Pending
        /\ pc' = [pc EXCEPT ![w] = "refused"]
        /\ UNCHANGED directives
  /\ UNCHANGED <<lateClaims, reports, inbox, wanted, lanes, starts, stranded>>

(* The same, when nobody waits any more. *)
LateClaim(d) ==
  /\ lateClaims' = lateClaims \ {d}
  /\ \/ d \in Pending /\ SetStatus(d, "running") /\ stranded' = stranded \cup {d}
     \/ d \notin Pending /\ UNCHANGED <<directives, stranded>>
  /\ UNCHANGED <<reports, loop, lanes, starts>>

(* Mutant of Open: a report is accepted whatever the status. *)
Reportable(d) == TRUE

Open(d) == directives[d].status \notin Final

ReportDirective(r) ==
  /\ reports' = reports \ {r}
  /\ \/ Open(r.directive) /\ SetStatus(r.directive, r.outcome)
     \/ ~Open(r.directive) /\ UNCHANGED directives
  /\ UNCHANGED <<lateClaims, loop, lanes, starts, stranded>>

CancelDirective(d) ==
  /\ Open(d)
  /\ SetStatus(d, "canceled")
  /\ UNCHANGED <<lateClaims, reports, loop, lanes, starts, stranded>>

------------------------------------------------------------------------------
(* A worker's loop. *)

(* ORDER BY priority DESC, created_at ASC *)
Before(d, e) ==
  \/ directives[d].priority > directives[e].priority
  \/ directives[d].priority = directives[e].priority /\ d < e

Page == {d \in Pending : Cardinality({e \in Pending : Before(e, d)}) < Limit}

(* A poller is in its loop only between two directives.  It may also pause *)
(* for its budget.                                                         *)
Poll(w) ==
  /\ pc[w] = "polling" /\ inbox[w] = {}
  /\ w \in Pollers => turns[w] = {}
  /\ Page # {}
  /\ inbox' = [inbox EXCEPT ![w] = Page]
  /\ UNCHANGED <<server, pc, wanted, lanes, starts, stranded>>

(* Mutant of Busy: the host does not look at its lanes. *)
NeverBusy(w, d) == FALSE

(* That thread has a turn running on this host. *)
Busy(w, d) ==
  w \in Hosts /\ \E e \in turns[w] : directives[e].thread = directives[d].thread

Full(w) == w \in Hosts /\ Cardinality(turns[w]) >= Capacity

(* What the loop can pick from the rest of its answer. *)
Pickable(w) == IF Full(w) THEN {} ELSE {d \in inbox[w] : ~Busy(w, d)}

Looking(w) == pc[w] = "polling" /\ inbox[w] # {}

(* Every thread left is busy, or the host is at capacity: next poll. *)
PassOver(w) ==
  /\ Looking(w)
  /\ Pickable(w) = {}
  /\ inbox' = [inbox EXCEPT ![w] = {}]
  /\ UNCHANGED <<server, pc, wanted, lanes, starts, stranded>>

(* The loop skips the busy threads and claims the first directive of       *)
(* another; the request leaves.  The poller looks at one directive only.   *)
Pick(w) ==
  /\ Looking(w)
  /\ \E d \in Pickable(w) :
       /\ \A e \in Pickable(w) \ {d} : Before(d, e)
       /\ wanted' = [wanted EXCEPT ![w] = d]
       /\ inbox' = [inbox EXCEPT ![w] =
                      IF w \in Pollers THEN {} ELSE {e \in @ : Before(d, e)}]
  /\ pc' = [pc EXCEPT ![w] = "claiming"]
  /\ UNCHANGED <<server, lanes, starts, stranded>>

(* The claim is over, one way or the other. *)
Return(w) ==
  /\ pc' = [pc EXCEPT ![w] = "polling"]
  /\ wanted' = [wanted EXCEPT ![w] = 0]

Start(w) ==
  /\ pc[w] = "granted"
  /\ Return(w)
  /\ turns' = [turns EXCEPT ![w] = @ \cup {wanted[w]}]
  /\ starts' = Append(starts, wanted[w])
  /\ UNCHANGED <<server, inbox, reporting, stranded>>

GiveUp(w) ==
  /\ pc[w] = "refused"
  /\ Return(w)
  /\ UNCHANGED <<server, inbox, lanes, starts, stranded>>

(* What is lost when a worker stops waiting for the answer to its claim. *)
ForgetClaim(w) ==
  lateClaims' = IF pc[w] = "claiming" THEN lateClaims \cup {wanted[w]} ELSE lateClaims

Granted(w) == IF pc[w] = "granted" THEN {wanted[w]} ELSE {}

(* Mutant of ClaimTimesOut: no answer is taken for a grant. *)
AssumeGranted(w) ==
  /\ pc[w] = "claiming"
  /\ pc' = [pc EXCEPT ![w] = "granted"]
  /\ ForgetClaim(w)
  /\ UNCHANGED <<directives, reports, inbox, wanted, lanes, starts, stranded>>

(* No answer in 15 seconds: to the worker that is a refusal. *)
ClaimTimesOut(w) ==
  /\ pc[w] \in {"claiming", "granted"}
  /\ Return(w)
  /\ ForgetClaim(w)
  /\ stranded' = stranded \cup Granted(w)
  /\ UNCHANGED <<directives, reports, inbox, lanes, starts>>

------------------------------------------------------------------------------
(* A turn. *)

(* Mutant of SendReport: a failed turn is not reported. *)
SendSuccess(w, d, o) ==
  /\ d \in turns[w] \ reporting[w]
  /\ reporting' = [reporting EXCEPT ![w] = @ \cup {d}]
  /\ reports' = IF o = "done" THEN reports \cup {[directive |-> d, outcome |-> o]} ELSE reports
  /\ UNCHANGED <<directives, lateClaims, loop, turns, starts, stranded>>

(* The executor has ended, its outcome is sent. *)
SendReport(w, d, o) ==
  /\ d \in turns[w] \ reporting[w]
  /\ reporting' = [reporting EXCEPT ![w] = @ \cup {d}]
  /\ reports' = reports \cup {[directive |-> d, outcome |-> o]}
  /\ UNCHANGED <<directives, lateClaims, loop, turns, starts, stranded>>

(* Mutant of EndTurn: the done-callback leaves the lane taken. *)
EndTurnOnly(w, d) ==
  /\ d \in reporting[w]
  /\ reporting' = [reporting EXCEPT ![w] = @ \ {d}]
  /\ UNCHANGED <<server, loop, turns, starts, stranded>>

(* The report is answered or has timed out; the lane is free. *)
EndTurn(w, d) ==
  /\ d \in reporting[w]
  /\ turns' = [turns EXCEPT ![w] = @ \ {d}]
  /\ reporting' = [reporting EXCEPT ![w] = @ \ {d}]
  /\ UNCHANGED <<server, loop, starts, stranded>>

(* An exception ends the turn before it reports. *)
TurnFails(w, d) ==
  /\ d \in turns[w] \ reporting[w]
  /\ turns' = [turns EXCEPT ![w] = @ \ {d}]
  /\ stranded' = stranded \cup {d}
  /\ UNCHANGED <<server, loop, reporting, starts>>

(* The worker stops and is started anew; its executors die with it. *)
Crash(w) ==
  /\ Return(w)
  /\ inbox' = [inbox EXCEPT ![w] = {}]
  /\ turns' = [turns EXCEPT ![w] = {}]
  /\ reporting' = [reporting EXCEPT ![w] = {}]
  /\ ForgetClaim(w)
  /\ stranded' = stranded \cup (turns[w] \ reporting[w]) \cup Granted(w)
  /\ UNCHANGED <<directives, reports, starts>>

------------------------------------------------------------------------------
Server ==
  \/ SendDirective
  \/ \E d \in lateClaims : LateClaim(d)
  \/ \E r \in reports : ReportDirective(r)
  \/ \E d \in Ids : CancelDirective(d)

Loop(w) ==
  \/ Poll(w) \/ PassOver(w) \/ Pick(w)
  \/ ClaimDirective(w) \/ Start(w) \/ GiveUp(w) \/ ClaimTimesOut(w)

Finish(w) == \E d \in turns[w] : TurnFails(w, d) \/ \E o \in Outcomes : SendReport(w, d, o)
Free(w)   == \E d \in reporting[w] : EndTurn(w, d)

Next == Server \/ \E w \in Workers : Loop(w) \/ Finish(w) \/ Free(w) \/ Crash(w)

Spec == Init /\ [][Next]_vars

(* A host keeps looping and its executors come to an end.  Claims may time *)
(* out and the host may crash, but not every time it is about to claim.    *)
Fairness ==
  \A w \in Hosts :
    /\ WF_vars(Poll(w)) /\ WF_vars(PassOver(w))
    /\ SF_vars(Pick(w)) /\ SF_vars(ClaimDirective(w)) /\ WF_vars(GiveUp(w)) /\ WF_vars(Start(w))
    /\ WF_vars(Finish(w)) /\ WF_vars(Free(w))

FairSpec == Spec /\ Fairness
------------------------------------------------------------------------------
(* Properties. *)

DirectivesTypeOK ==
  /\ directives \in Seq(Rows)
  /\ lateClaims \subseteq Ids
  /\ reports \subseteq [directive : Ids, outcome : Outcomes]
  /\ pc \in [Workers -> Stages]
  /\ inbox \in [Workers -> SUBSET Ids]
  /\ wanted \in [Workers -> Ids \cup {0}]
  /\ turns \in [Workers -> SUBSET Ids]
  /\ reporting \in [Workers -> SUBSET Ids]
  /\ \A w \in Workers : reporting[w] \subseteq turns[w]
  /\ starts \in Seq(Ids)
  /\ stranded \subseteq Ids

(* An instruction is executed at most once, whatever is claimed twice, by  *)
(* two workers of the agent, after a timeout or late.                      *)
StartedOnce == \A i, j \in DOMAIN starts : i # j => starts[i] # starts[j]

(* "A conversation can't run two turns at once" (workbench_host.py:16-17), *)
(* as far as one worker can see to it; and no worker runs more turns than  *)
(* it may.                                                                 *)
LanesAreSerial ==
  \A w \in Workers :
    /\ Cardinality(turns[w]) <= IF w \in Hosts THEN Capacity ELSE 1
    /\ \A d, e \in turns[w] : d # e => directives[d].thread # directives[e].thread

(* A running directive has a worker that will report it or has, unless     *)
(* that worker, or the grant of its claim, was lost.                       *)
RunningIsAccountedFor ==
  \A d \in Ids \ stranded :
    directives[d].status = "running" =>
      \/ \E w \in Workers : d \in Granted(w) \cup (turns[w] \ reporting[w])
      \/ \E r \in reports : r.directive = d

(* What the console was told of a directive stays so: no late report       *)
(* overwrites a result or a cancellation.                                  *)
FinalIsFinal ==
  [][\A d \in Ids : directives[d].status \in Final => directives'[d] = directives[d]]_vars

Executions(d) == {i \in DOMAIN starts : starts[i] = d}

(* Who has a directive: nobody yet, a worker that has been granted it, one *)
(* that began its turn; or that worker, or the grant, was lost.            *)
Executor(d) ==
  IF d \in stranded THEN "lost"
  ELSE IF Executions(d) # {} THEN "at work"
  ELSE IF \E w \in Workers : d \in Granted(w) THEN "chosen" ELSE "nobody"

(* Each directive is an instruction with a single shot: claims and reports *)
(* of several workers, late, lost or overtaken by a cancellation, are the  *)
(* steps of one executor; and only a turn that really ran gives a result.  *)
Shot(d) == INSTANCE OneShot WITH
  status <- IF d \in Ids THEN directives[d].status ELSE "absent",
  executor <- Executor(d), runs <- Executions(d)

(* The formula is \A d \in 1..MaxDirectives : Shot(d)!Spec.                *)
ImplementsOneShot ==
  /\ \A d \in 1..MaxDirectives : Shot(d)!Init
  /\ [][\A d \in 1..MaxDirectives : [Shot(d)!Next]_(Shot(d)!shot)]_vars

(* Whatever gets lost, a pending directive is eventually claimed, by a     *)
(* host that is running, or canceled.                                      *)
PendingIsTaken == \A d \in 1..MaxDirectives : d \in Pending ~> d \notin Pending
==============================================================================
