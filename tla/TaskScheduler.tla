---------------------------- MODULE TaskScheduler ----------------------------
(***************************************************************************)
(* The task board of one ATMcp team: atmcp/services/tasks.py, the reaper   *)
(* (atmcp/reaper.py), and the parts of atmcp/services/presence.py and      *)
(* atmcp/services/identity.py that write the tasks and task_claims tables. *)
(*                                                                         *)
(* Every write runs in db.transaction(), under one asyncio lock and one    *)
(* BEGIN IMMEDIATE ... COMMIT, so each handler is one action.  What is NOT *)
(* atomic is kept apart: the reaper reads its candidates on the read       *)
(* connection and takes the lock once per candidate, and handlers read the *)
(* clock before they wait for the lock.  A call the code refuses writes    *)
(* nothing and is a stuttering step.                                       *)
(*                                                                         *)
(* A client may present any fencing token it was ever granted, at any      *)
(* time: that is how a late, a duplicated or a zombie's call looks to the  *)
(* server.                                                                 *)
(***************************************************************************)
EXTENDS Integers, FiniteSets

CONSTANTS
  Agents,       \* agent ids of the team
  Tasks,        \* task ids that create_task may generate
  Ghosts,       \* ids a depends_on may name although no such task exists
  NULL,         \* SQL NULL
  LeaseTTLs,    \* the values clients pass as lease_ttl_s, besides NULL
  DefaultTTL,   \* settings.lease_ttl_s
  MaxAttempts,  \* settings.task_max_attempts
  Priorities,   \* the values clients pass as priority
  LateCalls,    \* do clients use a claim they have ended themselves?
  LockWait,     \* bound: how long a handler may wait for the write lock
  MaxClock,     \* bound on the clock
  MaxToken      \* bound on the claims of one task

ASSUME SchedulerAssumption ==
  /\ NULL \notin Agents \cup Tasks \cup Ghosts \cup Nat
  /\ NULL \notin {"done", "failed", "expired", "released"}
  /\ Ghosts \cap Tasks = {}
  /\ LeaseTTLs \subseteq Nat
  /\ Priorities \subseteq Int
  /\ DefaultTTL \in Nat \ {0}
  /\ MaxAttempts \in Nat \ {0}
  /\ LateCalls \in BOOLEAN
  /\ LockWait \in Nat

VARIABLES
  status, assignee, fencing_token, lease_expires_at,   \* columns of tasks
  lease_ttl_s, priority, attempts,
  depends_on,    \* task_deps, per task
  task_claims,   \* rows of task_claims; outcome NULL while released_at is NULL
  current_task,  \* agents.current_task_id
  candidates,    \* rows the running sweep of the reaper has still to visit
  clock,         \* wall clock, now_ms()
  lastServed     \* history: token of the last call that changed the task

columns == <<status, assignee, fencing_token, lease_expires_at, attempts>>
fixed   == <<lease_ttl_s, priority, depends_on>>
vars    == <<columns, fixed, task_claims, current_task, candidates, clock, lastServed>>

Statuses == {"absent", "open", "claimed", "in_progress", "blocked", "done", "failed"}
Outcomes == {NULL, "done", "failed", "expired", "released"}
Held     == {"claimed", "in_progress", "blocked"}
Leased   == {"claimed", "in_progress"}   \* what heartbeat, leave and reaper look at
Claims   == [task : Tasks, agent : Agents, token : Nat, outcome : Outcomes]

Init ==
  /\ status = [t \in Tasks |-> "absent"]
  /\ assignee = [t \in Tasks |-> NULL]
  /\ fencing_token = [t \in Tasks |-> 0]
  /\ lease_expires_at = [t \in Tasks |-> NULL]
  /\ lease_ttl_s = [t \in Tasks |-> NULL]
  /\ priority = [t \in Tasks |-> 0]
  /\ attempts = [t \in Tasks |-> 0]
  /\ depends_on = [t \in Tasks |-> {}]
  /\ task_claims = {}
  /\ current_task = [a \in Agents |-> NULL]
  /\ candidates = {}
  /\ clock = 0
  /\ lastServed = [t \in Tasks |-> 0]

------------------------------------------------------------------------------
(* Helpers. *)

Created == {t \in Tasks : status[t] # "absent"}

(* Mutant of Unmet: a dead-lettered dependency counts as met. *)
UnmetUnlessOver(t) ==
  {d \in depends_on[t] : d \notin Created \/ status[d] \notin {"done", "failed"}}

(* _deps_unmet: a dependency that is missing counts as unmet. *)
Unmet(t) == {d \in depends_on[t] : d \notin Created \/ status[d] # "done"}

Eligible == {t \in Created : status[t] = "open" /\ Unmet(t) = {}}

(* `lease_ttl_s or default`: at claim time 0 means the default ... *)
ClaimTTL(t) == IF lease_ttl_s[t] \in {NULL, 0} THEN DefaultTTL ELSE lease_ttl_s[t]

(* Mutant of RenewTTL: the task's own lease_ttl_s is ignored. *)
RenewDefault(t) == DefaultTTL

(* ... COALESCE(lease_ttl_s, default): at renewal 0 means 0. *)
RenewTTL(t) == IF lease_ttl_s[t] = NULL THEN DefaultTTL ELSE lease_ttl_s[t]

(* The clock as a handler read it before it waited for the lock. *)
ReadClock == {n \in 0..clock : clock - n <= LockWait}

Expired(t) ==
  /\ status[t] \in Leased
  /\ lease_expires_at[t] # NULL
  /\ lease_expires_at[t] < clock

(* A client knows that a claim is over when it ended it itself, not when   *)
(* the reaper did.  LateCalls lets it use such a claim all the same.       *)
Usable(c) == LateCalls \/ c.outcome \in {NULL, "expired"}

ClaimsOf(a, t) == {c \in task_claims : c.agent = a /\ c.task = t}

Tokens(a, t) == {c.token : c \in {x \in ClaimsOf(a, t) : Usable(x)}}

Believed(a) == {c.task : c \in {x \in task_claims : x.agent = a /\ Usable(x)}}

(* Mutant of Fence: only the assignee is compared. *)
FenceByAgent(a, t, n) == assignee[t] = a

(* assignee and fencing_token of the row match the call's. *)
Fence(a, t, n) == assignee[t] = a /\ fencing_token[t] = n

(* Mutant of Close: the claim row is left open. *)
CloseNothing(ts, a, o) == task_claims

(* UPDATE task_claims SET outcome=o WHERE task, agent AND released_at IS   *)
(* NULL, for each task of ts.                                              *)
Close(ts, a, o) ==
  {IF c.task \in ts /\ c.agent = a /\ c.outcome = NULL THEN [c EXCEPT !.outcome = o] ELSE c :
     c \in task_claims}

(* Mutant of ForgetCurrent: the agent goes on showing the task. *)
KeepCurrent(a, t) == UNCHANGED current_task

(* UPDATE agents SET current_task_id=NULL WHERE agent AND current_task_id=t *)
ForgetCurrent(a, t) ==
  current_task' = [current_task EXCEPT ![a] = IF @ = t THEN NULL ELSE @]

------------------------------------------------------------------------------
(* create_task *)
CreateTask(t, deps, ttl, p) ==
  /\ status[t] = "absent"
  /\ status' = [status EXCEPT ![t] = "open"]
  /\ depends_on' = [depends_on EXCEPT ![t] = deps]
  /\ lease_ttl_s' = [lease_ttl_s EXCEPT ![t] = ttl]
  /\ priority' = [priority EXCEPT ![t] = p]
  /\ UNCHANGED <<assignee, fencing_token, lease_expires_at, attempts, task_claims,
                 current_task, candidates, clock, lastServed>>

(* Mutant of Claimable: any task nobody holds at the moment can be claimed. *)
NotHeld(t) == status[t] \notin Held \cup {"absent"}

(* The condition of the claiming UPDATE. *)
Claimable(t) == status[t] = "open"

(* Mutant of NextToken: the token is not advanced. *)
SameToken(t) == fencing_token[t]

NextToken(t) == fencing_token[t] + 1

(* _do_claim and claim_task: status, deps, then the conditional UPDATE; the *)
(* row, the claim and the agent change together.                           *)
ClaimTask(a, t) ==
  /\ Claimable(t)
  /\ Unmet(t) = {}
  /\ fencing_token[t] < MaxToken
  /\ status' = [status EXCEPT ![t] = "claimed"]
  /\ assignee' = [assignee EXCEPT ![t] = a]
  /\ fencing_token' = [fencing_token EXCEPT ![t] = NextToken(t)]
  /\ lease_expires_at' = [lease_expires_at EXCEPT ![t] = clock + ClaimTTL(t)]
  /\ task_claims' = task_claims \cup
       {[task |-> t, agent |-> a, token |-> NextToken(t), outcome |-> NULL]}
  /\ current_task' = [current_task EXCEPT ![a] = t]
  /\ lastServed' = [lastServed EXCEPT ![t] = NextToken(t)]
  /\ UNCHANGED <<attempts, fixed, candidates, clock>>

(* claim_next_task: the eligible task of highest priority.  Its tie-break  *)
(* on created_at is a free choice here.                                    *)
ClaimNext(a) ==
  \E t \in Eligible :
    /\ \A u \in Eligible : priority[u] <= priority[t]
    /\ ClaimTask(a, t)

(* update_task_progress.  s is the status argument when it is one the code *)
(* accepts and NULL otherwise.  There is no guard on the row's status.     *)
Progress(a, t, n, s, now) ==
  /\ Fence(a, t, n)
  /\ status' = [status EXCEPT ![t] = IF s # NULL THEN s
                                     ELSE IF @ = "claimed" THEN "in_progress" ELSE @]
  /\ lease_expires_at' = [lease_expires_at EXCEPT ![t] = now + RenewTTL(t)]
  /\ current_task' = [current_task EXCEPT ![a] = t]
  /\ lastServed' = [lastServed EXCEPT ![t] = n]
  /\ UNCHANGED <<assignee, fencing_token, attempts, fixed, task_claims, candidates, clock>>

(* complete_task: assignee and fencing_token stay in the row. *)
CompleteTask(a, t, n) ==
  /\ Fence(a, t, n)
  /\ status' = [status EXCEPT ![t] = "done"]
  /\ lease_expires_at' = [lease_expires_at EXCEPT ![t] = NULL]
  /\ task_claims' = Close({t}, a, "done")
  /\ ForgetCurrent(a, t)
  /\ lastServed' = [lastServed EXCEPT ![t] = n]
  /\ UNCHANGED <<assignee, fencing_token, attempts, fixed, candidates, clock>>

(* Mutant of Return: the lease deadline survives. *)
ReturnLeased(t, a, s, outcome) ==
  /\ status' = [status EXCEPT ![t] = s]
  /\ assignee' = [assignee EXCEPT ![t] = NULL]
  /\ task_claims' = Close({t}, a, outcome)
  /\ ForgetCurrent(a, t)
  /\ UNCHANGED lease_expires_at

(* The part fail_task, release_task and the reaper share: the row goes     *)
(* back without assignee and lease, the claim is closed.                   *)
Return(t, a, s, outcome) ==
  /\ status' = [status EXCEPT ![t] = s]
  /\ assignee' = [assignee EXCEPT ![t] = NULL]
  /\ lease_expires_at' = [lease_expires_at EXCEPT ![t] = NULL]
  /\ task_claims' = Close({t}, a, outcome)
  /\ ForgetCurrent(a, t)

(* One more attempt; at max_attempts the task is dead-lettered. *)
Charge(t) == attempts' = [attempts EXCEPT ![t] = @ + 1]

(* Mutant of AfterCharge: one attempt too many. *)
AfterChargeLate(t) == IF attempts[t] + 1 > MaxAttempts THEN "failed" ELSE "open"

AfterCharge(t) == IF attempts[t] + 1 >= MaxAttempts THEN "failed" ELSE "open"

FailTask(a, t, n) ==
  /\ Fence(a, t, n)
  /\ Return(t, a, AfterCharge(t), "failed")
  /\ Charge(t)
  /\ lastServed' = [lastServed EXCEPT ![t] = n]
  /\ UNCHANGED <<fencing_token, fixed, candidates, clock>>

ReleaseTask(a, t, n) ==
  /\ Fence(a, t, n)
  /\ Return(t, a, "open", "released")
  /\ lastServed' = [lastServed EXCEPT ![t] = n]
  /\ UNCHANGED <<fencing_token, attempts, fixed, candidates, clock>>

(* heartbeat and heartbeat_named: renew every leased task the agent holds. *)
Heartbeat(a, reported, now) ==
  /\ current_task' = [current_task EXCEPT ![a] = IF reported = NULL THEN @ ELSE reported]
  /\ lease_expires_at' =
       [t \in Tasks |-> IF assignee[t] = a /\ status[t] \in Leased
                        THEN now + RenewTTL(t) ELSE lease_expires_at[t]]
  /\ UNCHANGED <<status, assignee, fencing_token, attempts, fixed, task_claims,
                 candidates, clock, lastServed>>

(* leave_team: only claimed and in_progress tasks are requeued. *)
LeaveTeam(a) ==
  LET requeued == {t \in Tasks : assignee[t] = a /\ status[t] \in Leased} IN
  /\ status' = [t \in Tasks |-> IF t \in requeued THEN "open" ELSE status[t]]
  /\ assignee' = [t \in Tasks |-> IF t \in requeued THEN NULL ELSE assignee[t]]
  /\ lease_expires_at' =
       [t \in Tasks |-> IF t \in requeued THEN NULL ELSE lease_expires_at[t]]
  /\ task_claims' = Close(requeued, a, "released")
  /\ current_task' = [current_task EXCEPT ![a] = NULL]
  /\ UNCHANGED <<fencing_token, attempts, fixed, candidates, clock, lastServed>>

------------------------------------------------------------------------------
(* The reaper. *)

(* sweep_once reads its candidates outside any transaction. *)
ReaperScan ==
  /\ candidates = {}
  /\ candidates' = {t \in Tasks : Expired(t)}
  /\ UNCHANGED <<columns, fixed, task_claims, current_task, clock, lastServed>>

(* Mutants of StillExpired: the deadline is not compared again; a task in  *)
(* progress is skipped.                                                    *)
StillLeased(t) == status[t] \in Leased
StillUntouched(t) == Expired(t) /\ status[t] = "claimed"

(* The second look, on the row and the clock as they are under the lock. *)
StillExpired(t) == Expired(t)

(* Under the lock the row is read again: a task still expired goes back ... *)
ReapExpired(t) ==
  /\ t \in candidates
  /\ StillExpired(t)
  /\ Return(t, assignee[t], AfterCharge(t), "expired")
  /\ Charge(t)
  /\ candidates' = candidates \ {t}
  /\ UNCHANGED <<fencing_token, fixed, clock, lastServed>>

(* ... and one that was renewed, ended or handed over is left alone. *)
ReapSkip(t) ==
  /\ t \in candidates
  /\ ~StillExpired(t)
  /\ candidates' = candidates \ {t}
  /\ UNCHANGED <<columns, fixed, task_claims, current_task, clock, lastServed>>

ReaperVisit(t) == ReapExpired(t) \/ ReapSkip(t)

(* A sweep that raises is abandoned by _loop, and a restart of the server  *)
(* forgets it; SQLite keeps everything else.                               *)
SweepLost ==
  /\ candidates # {}
  /\ candidates' = {}
  /\ UNCHANGED <<columns, fixed, task_claims, current_task, clock, lastServed>>

Tick ==
  /\ clock < MaxClock
  /\ clock' = clock + 1
  /\ UNCHANGED <<columns, fixed, task_claims, current_task, candidates, lastServed>>

------------------------------------------------------------------------------
Call(a) ==
  \/ ClaimNext(a)
  \/ LeaveTeam(a)
  \/ \E r \in Believed(a) \cup {NULL}, now \in ReadClock : Heartbeat(a, r, now)
  \/ \E t \in Tasks :
       \/ ClaimTask(a, t)
       \/ \E n \in Tokens(a, t) :
            \/ \E s \in {"in_progress", "blocked", NULL}, now \in ReadClock :
                 Progress(a, t, n, s, now)
            \/ CompleteTask(a, t, n)
            \/ FailTask(a, t, n)
            \/ ReleaseTask(a, t, n)

Create ==
  \E t \in Tasks, deps \in SUBSET (Created \cup Ghosts), ttl \in LeaseTTLs \cup {NULL},
     p \in Priorities : CreateTask(t, deps, ttl, p)

Reaper == ReaperScan \/ (\E t \in Tasks : ReaperVisit(t)) \/ SweepLost

Next == Create \/ (\E a \in Agents : Call(a)) \/ Reaper \/ Tick

Spec == Init /\ [][Next]_vars

(* The reaper's loop runs for ever (atmcp/reaper.py:78-91) and time passes; *)
(* a sweep may be lost now and then but not each time, hence the strong    *)
(* fairness of the visit.  Clients owe nothing.                            *)
Fairness ==
  /\ WF_vars(Tick)
  /\ WF_vars(ReaperScan)
  /\ \A t \in Tasks : SF_vars(ReaperVisit(t))

FairSpec == Spec /\ Fairness
------------------------------------------------------------------------------
(* Properties. *)

TypeOK ==
  /\ status \in [Tasks -> Statuses]
  /\ assignee \in [Tasks -> Agents \cup {NULL}]
  /\ fencing_token \in [Tasks -> Nat]
  /\ lease_expires_at \in [Tasks -> Nat \cup {NULL}]
  /\ lease_ttl_s \in [Tasks -> Nat \cup {NULL}]
  /\ priority \in [Tasks -> Int]
  /\ attempts \in [Tasks -> Nat]
  /\ depends_on \in [Tasks -> SUBSET (Tasks \cup Ghosts)]
  /\ task_claims \subseteq Claims
  /\ current_task \in [Agents -> Tasks \cup {NULL}]
  /\ candidates \subseteq Tasks
  /\ clock \in Nat
  /\ lastServed \in [Tasks -> Nat]

(* A task has an assignee exactly when it is held or done, and a task that *)
(* waits or is dead carries no deadline, a held one always does: the       *)
(* reaper looks at status and deadline, and writes the assignee's rows,    *)
(* without checking that they fit together.                                *)
LeaseMatchesStatus ==
  \A t \in Tasks :
    /\ assignee[t] # NULL <=> status[t] \in Held \cup {"done"}
    /\ status[t] \in Held => lease_expires_at[t] # NULL
    /\ assignee[t] = NULL => lease_expires_at[t] = NULL

(* task_claims and tasks, two tables written by the same handlers, agree:  *)
(* an unreleased claim is the claim of the present holder, under the       *)
(* present token.  In particular no task has two open claims.              *)
OpenClaimIsTheHolders ==
  \A c \in task_claims :
    c.outcome = NULL =>
      /\ status[c.task] \in Held
      /\ assignee[c.task] = c.agent
      /\ fencing_token[c.task] = c.token

(* A fencing token is granted once: whatever claims, expiries, releases    *)
(* and re-claims happen, two claims of a task never share a token, and     *)
(* none is ahead of the row's.                                             *)
TokensNeverReused ==
  \A c \in task_claims :
    /\ c.token \in 1..fencing_token[c.task]
    /\ \A d \in task_claims : c.task = d.task /\ c.token = d.token => c = d

(* Retries are bounded by max_attempts and each claim is charged at most   *)
(* once, though fail_task, the reaper and a requeue may race for it: a     *)
(* task is dead-lettered exactly when its attempts are used up, and it has *)
(* had as many claims as attempts.                                         *)
AttemptsAreBudgeted ==
  \A t \in Tasks :
    /\ attempts[t] + (IF assignee[t] = NULL THEN 0 ELSE 1) <= fencing_token[t]
    /\ attempts[t] <= MaxAttempts
    /\ status[t] = "failed" <=> attempts[t] = MaxAttempts

(* "A reaped zombie is rejected at the DB" (atmcp/services/tasks.py:5-6):  *)
(* the last call that changed a task presented the newest token granted    *)
(* for it, so no older claim has had an effect since.                      *)
NoZombieWrite == \A t \in Tasks : lastServed[t] = fencing_token[t]

(* The outcome of the newest claim of a task. *)
Verdict(t) ==
  IF fencing_token[t] = 0 THEN NULL
  ELSE (CHOOSE c \in task_claims : c.task = t /\ c.token = fencing_token[t]).outcome

(* Each task, seen through its row, is a fenced lease: the reaper evicts   *)
(* only when the deadline has passed at the moment it holds the lock, and  *)
(* a task never goes from one holder to the next without being free.       *)
Lease(t) == INSTANCE FencedLease WITH
  Holders <- Agents, Budget <- MaxAttempts, Nobody <- NULL,
  holder <- assignee[t], epoch <- fencing_token[t], expiry <- lease_expires_at[t],
  strikes <- attempts[t], verdict <- Verdict(t), time <- clock

(* The formula is \A t \in Tasks : Lease(t)!Spec, in the form TLC accepts.  *)
ImplementsFencedLease ==
  /\ \A t \in Tasks : Lease(t)!Init
  /\ [][\A t \in Tasks : [Lease(t)!Next]_(Lease(t)!lease)]_vars

(* "No duplicated committed work" (atmcp/services/tasks.py:3): at most one *)
(* claim of a task ends as done.  It holds when no client uses a claim it  *)
(* has ended itself (LateCalls = FALSE), and not otherwise.                *)
CommittedOnce ==
  \A c, d \in task_claims :
    c.task = d.task /\ c.outcome = "done" /\ d.outcome = "done" => c = d

(* While a task is worked on, and after, every task it depends on is done: *)
(* the check at claim time is enough because done is final.  Like          *)
(* CommittedOnce it needs clients that stop using a claim they ended.      *)
DependenciesStayDone ==
  \A t \in Tasks :
    status[t] \in Held \cup {"done"} =>
      \A d \in depends_on[t] : d \in Tasks /\ status[d] = "done"

(* A renewal that waited for the write lock computes its deadline from the *)
(* time before the wait.  It may move the deadline back, but by no more    *)
(* than the wait.                                                          *)
DeadlineSlipsByLockWait ==
  [][\A t \in Tasks :
       assignee[t] # NULL /\ assignee'[t] = assignee[t] /\ status'[t] \in Held =>
         lease_expires_at'[t] + LockWait >= lease_expires_at[t]]_vars

(* What an agent shows as its current task is a task it claimed and has    *)
(* not finished, failed or given back (it may have been reaped).           *)
CurrentTaskIsLive ==
  \A a \in Agents :
    current_task[a] # NULL =>
      \E c \in ClaimsOf(a, current_task[a]) : c.outcome \in {NULL, "expired"}

(* The reaper's promise: a claimed or in_progress task whose deadline has  *)
(* passed does not stay so; it is requeued, dead-lettered, or its holder   *)
(* is heard of again.  (A blocked task is outside the reaper's promise: it *)
(* stays with its holder although its deadline passes.)                    *)
ExpiredIsRequeued == \A t \in Tasks : Expired(t) ~> ~Expired(t)
==============================================================================
