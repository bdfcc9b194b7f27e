------------------------ MODULE TaskScheduler_proofs ------------------------
(***************************************************************************)
(* Machine-checked theorems about TaskScheduler, for every value of its    *)
(* constants: any number of agents, tasks, claims and clock ticks.         *)
(***************************************************************************)
EXTENDS TaskScheduler, TLAPS

(* Facts about the helpers. *)

(* Every row of a closed claim table comes from a row of the table before: *)
(* the same claim, with its outcome perhaps set.                           *)
LEMMA CloseRows ==
  ASSUME task_claims \subseteq Claims,
         NEW ts \in SUBSET Tasks, NEW a \in Agents, NEW o \in Outcomes \ {NULL},
         NEW c \in Close(ts, a, o)
  PROVE  \E d \in task_claims :
           /\ c = IF d.task \in ts /\ d.agent = a /\ d.outcome = NULL
                  THEN [d EXCEPT !.outcome = o] ELSE d
           /\ c.task = d.task /\ c.agent = d.agent /\ c.token = d.token
           /\ c.outcome = NULL => c = d /\ ~(d.task \in ts /\ d.agent = a)
           /\ c \in Claims
  <1>1. PICK d \in task_claims :
          c = IF d.task \in ts /\ d.agent = a /\ d.outcome = NULL
              THEN [d EXCEPT !.outcome = o] ELSE d
    BY DEF Close
  <1>2. d \in Claims
    OBVIOUS
  <1>3. CASE d.task \in ts /\ d.agent = a /\ d.outcome = NULL
    <2>1. c = [d EXCEPT !.outcome = o]
      BY <1>1, <1>3
    <2>2. c \in Claims /\ c.task = d.task /\ c.agent = d.agent /\ c.token = d.token
          /\ c.outcome = o
      BY <2>1, <1>2 DEF Claims
    <2>3. QED
      BY <1>1, <2>2
  <1>4. CASE ~(d.task \in ts /\ d.agent = a /\ d.outcome = NULL)
    <2>1. c = d
      BY <1>1, <1>4
    <2>2. QED
      BY <1>1, <1>2, <1>4, <2>1
  <1>5. QED
    BY <1>3, <1>4

LEMMA CloseType ==
  ASSUME task_claims \subseteq Claims,
         NEW ts \in SUBSET Tasks, NEW a \in Agents, NEW o \in Outcomes \ {NULL}
  PROVE  Close(ts, a, o) \subseteq Claims
  BY CloseRows

(* The two readings of lease_ttl_s are durations. *)
LEMMA TTLType ==
  ASSUME TypeOK, NEW t \in Tasks
  PROVE  ClaimTTL(t) \in Nat /\ RenewTTL(t) \in Nat
  BY SchedulerAssumption DEF TypeOK, ClaimTTL, RenewTTL

------------------------------------------------------------------------------
(* Type correctness. *)

LEMMA InitType == Init => TypeOK
  BY SchedulerAssumption DEF Init, TypeOK, Statuses, Claims

LEMMA ReturnType ==
  ASSUME TypeOK, NEW t \in Tasks, NEW a \in Agents, NEW s \in Statuses,
         NEW o \in Outcomes \ {NULL}, Return(t, a, s, o)
  PROVE  /\ status' \in [Tasks -> Statuses]
         /\ assignee' \in [Tasks -> Agents \cup {NULL}]
         /\ lease_expires_at' \in [Tasks -> Nat \cup {NULL}]
         /\ task_claims' \subseteq Claims
         /\ current_task' \in [Agents -> Tasks \cup {NULL}]
  <1>1. task_claims' \subseteq Claims
    BY CloseType DEF Return, TypeOK
  <1>2. QED
    BY <1>1 DEF Return, ForgetCurrent, TypeOK

LEMMA ClaimType ==
  ASSUME TypeOK, NEW a \in Agents, NEW t \in Tasks, ClaimTask(a, t)
  PROVE  TypeOK'
  <1>1. ClaimTTL(t) \in Nat /\ clock + ClaimTTL(t) \in Nat
    BY TTLType DEF TypeOK
  <1>2. NextToken(t) \in Nat
    BY DEF NextToken, TypeOK
  <1>3. [task |-> t, agent |-> a, token |-> NextToken(t), outcome |-> NULL] \in Claims
    BY <1>2 DEF Claims, Outcomes
  <1>4. task_claims' \subseteq Claims
    BY <1>3 DEF ClaimTask, TypeOK
  <1>5. QED
    BY <1>1, <1>2, <1>4 DEF ClaimTask, TypeOK, Statuses, fixed

(* heartbeat, leave_team and the reaper's visit change columns of several  *)
(* tasks, or none.                                                         *)
LEMMA LeaveType ==
  ASSUME TypeOK, NEW a \in Agents, LeaveTeam(a)
  PROVE  TypeOK'
  <1> DEFINE R == {t \in Tasks : assignee[t] = a /\ status[t] \in Leased}
  <1>1. task_claims' = Close(R, a, "released") /\ R \in SUBSET Tasks
    BY DEF LeaveTeam
  <1>2. "released" \in Outcomes \ {NULL}
    BY SchedulerAssumption DEF Outcomes
  <1>3. task_claims' \subseteq Claims
    BY <1>1, <1>2, CloseType DEF TypeOK
  <1>4. QED
    BY <1>3 DEF LeaveTeam, TypeOK, Statuses, fixed

LEMMA HeartbeatType ==
  ASSUME TypeOK, NEW a \in Agents, NEW r \in Believed(a) \cup {NULL},
         NEW now \in ReadClock, Heartbeat(a, r, now)
  PROVE  TypeOK'
  <1>1. \A t \in Tasks : now + RenewTTL(t) \in Nat
    BY TTLType DEF ReadClock, TypeOK
  <1>2. r \in Tasks \cup {NULL}
    BY DEF Believed, TypeOK, Claims
  <1>3. QED
    BY <1>1, <1>2 DEF Heartbeat, TypeOK, fixed

LEMMA ServedType ==
  ASSUME TypeOK, NEW a \in Agents, NEW t \in Tasks, NEW n \in Tokens(a, t),
         \/ \E s \in {"in_progress", "blocked", NULL}, now \in ReadClock :
              Progress(a, t, n, s, now)
         \/ CompleteTask(a, t, n)
         \/ FailTask(a, t, n)
         \/ ReleaseTask(a, t, n)
  PROVE  TypeOK'
  <1>1. n \in Nat
    BY DEF Tokens, ClaimsOf, TypeOK, Claims
  <1>2. {"done", "failed", "released"} \subseteq Outcomes \ {NULL}
    BY SchedulerAssumption DEF Outcomes
  <1>3. ASSUME NEW s \in {"in_progress", "blocked", NULL}, NEW now \in ReadClock,
               Progress(a, t, n, s, now)
        PROVE  TypeOK'
    <2>1. now + RenewTTL(t) \in Nat
      BY TTLType DEF ReadClock, TypeOK
    <2>2. QED
      BY <1>1, <1>3, <2>1 DEF Progress, TypeOK, Statuses, fixed
  <1>4. CASE CompleteTask(a, t, n)
    <2>1. task_claims' \subseteq Claims
      BY <1>2, <1>4, CloseType DEF CompleteTask, TypeOK
    <2>2. QED
      BY <1>1, <1>4, <2>1 DEF CompleteTask, ForgetCurrent, TypeOK, Statuses, fixed
  <1>5. CASE FailTask(a, t, n)
    <2>1. AfterCharge(t) \in Statuses
      BY DEF AfterCharge, Statuses
    <2>2. QED
      BY <1>1, <1>2, <1>5, <2>1, ReturnType DEF FailTask, Charge, TypeOK, fixed
  <1>6. CASE ReleaseTask(a, t, n)
    <2>1. "open" \in Statuses
      BY DEF Statuses
    <2>2. QED
      BY <1>1, <1>2, <1>6, <2>1, ReturnType DEF ReleaseTask, TypeOK, fixed
  <1>7. QED
    BY <1>3, <1>4, <1>5, <1>6

LEMMA CallType ==
  ASSUME TypeOK, NEW a \in Agents, Call(a)
  PROVE  TypeOK'
  BY ClaimType, LeaveType, HeartbeatType, ServedType DEF Call, ClaimNext, Eligible, Created

(* The reaper needs LeaseMatchesStatus: an expired task has an assignee,   *)
(* whose row it updates.                                                   *)
LEMMA ReaperType ==
  ASSUME TypeOK, LeaseMatchesStatus, Reaper
  PROVE  TypeOK'
  <1>1. CASE ReaperScan \/ SweepLost
    BY <1>1 DEF ReaperScan, SweepLost, TypeOK, columns, fixed
  <1>2. ASSUME NEW t \in Tasks, ReapSkip(t)
        PROVE  TypeOK'
    BY <1>2 DEF ReapSkip, TypeOK, columns, fixed
  <1>3. ASSUME NEW t \in Tasks, ReapExpired(t)
        PROVE  TypeOK'
    <2>1. assignee[t] \in Agents
      BY <1>3 DEF ReapExpired, StillExpired, Expired, LeaseMatchesStatus, TypeOK, Leased, Held
    <2>2. AfterCharge(t) \in Statuses /\ "expired" \in Outcomes \ {NULL}
      BY SchedulerAssumption DEF AfterCharge, Statuses, Outcomes
    <2>3. QED
      BY <1>3, <2>1, <2>2, ReturnType DEF ReapExpired, Charge, TypeOK, fixed
  <1>4. QED
    BY <1>1, <1>2, <1>3 DEF Reaper, ReaperVisit

LEMMA NextType ==
  ASSUME TypeOK, LeaseMatchesStatus, [Next]_vars
  PROVE  TypeOK'
  <1>1. ASSUME NEW t \in Tasks, NEW deps \in SUBSET (Created \cup Ghosts),
               NEW ttl \in LeaseTTLs \cup {NULL}, NEW p \in Priorities,
               CreateTask(t, deps, ttl, p)
        PROVE  TypeOK'
    <2>1. ttl \in Nat \cup {NULL} /\ p \in Int /\ deps \in SUBSET (Tasks \cup Ghosts)
      BY SchedulerAssumption DEF Created
    <2>2. QED
      BY <1>1, <2>1 DEF CreateTask, TypeOK, Statuses
  <1>2. CASE Tick
    BY <1>2 DEF Tick, TypeOK, columns, fixed
  <1>3. CASE UNCHANGED vars
    BY <1>3 DEF vars, columns, fixed, TypeOK
  <1>4. QED
    BY <1>1, <1>2, <1>3, CallType, ReaperType DEF Next, Create

------------------------------------------------------------------------------
(* The inductive invariant.  The rows of tasks: status, assignee, deadline,*)
(* attempts and token agree with one another ...                           *)
RowInv == LeaseMatchesStatus /\ AttemptsAreBudgeted /\ NoZombieWrite

(* ... and the claim table agrees with the rows. *)
ClaimInv == OpenClaimIsTheHolders /\ TokensNeverReused

IInv == TypeOK /\ RowInv /\ ClaimInv

LEMMA InitInv == Init => IInv
  BY InitType, SchedulerAssumption
  DEF Init, IInv, RowInv, ClaimInv, LeaseMatchesStatus, AttemptsAreBudgeted, NoZombieWrite,
      OpenClaimIsTheHolders, TokensNeverReused, Held

(* A task that goes back: the row invariants survive when the status fits  *)
(* the attempts.                                                           *)
LEMMA ReturnRows ==
  ASSUME TypeOK, RowInv, NEW t \in Tasks, assignee[t] # NULL, NEW s, NEW o,
         Return(t, assignee[t], s, o),
         UNCHANGED fencing_token,
         lastServed' = lastServed \/ lastServed' = [lastServed EXCEPT ![t] = fencing_token[t]],
         \/ s = AfterCharge(t) /\ Charge(t)
         \/ s = "open" /\ UNCHANGED attempts
  PROVE  RowInv'
  <1>1. attempts[t] \in Nat /\ attempts[t] < MaxAttempts /\ attempts[t] + 1 <= fencing_token[t]
    BY SchedulerAssumption
    DEF RowInv, LeaseMatchesStatus, AttemptsAreBudgeted, TypeOK, Held
  <1>2. LeaseMatchesStatus'
    BY DEF Return, RowInv, LeaseMatchesStatus, TypeOK, AfterCharge, Held
  <1>3. AttemptsAreBudgeted'
    BY <1>1, SchedulerAssumption
    DEF Return, RowInv, AttemptsAreBudgeted, TypeOK, AfterCharge, Charge
  <1>4. NoZombieWrite'
    BY DEF RowInv, NoZombieWrite, TypeOK
  <1>5. QED
    BY <1>2, <1>3, <1>4 DEF RowInv

(* Closing claims reuses no token. *)
LEMMA CloseTokens ==
  ASSUME TypeOK, TokensNeverReused, UNCHANGED fencing_token,
         NEW ts \in SUBSET Tasks, NEW a \in Agents, NEW o \in Outcomes \ {NULL},
         task_claims' = Close(ts, a, o)
  PROVE  TokensNeverReused'
  <1> SUFFICES ASSUME NEW c \in task_claims'
               PROVE  /\ c.token \in 1..fencing_token[c.task]
                      /\ \A d \in task_claims' :
                           c.task = d.task /\ c.token = d.token => c = d
    BY DEF TokensNeverReused
  <1> task_claims \subseteq Claims /\ c \in Close(ts, a, o)
    BY DEF TypeOK
  <1>1. PICK x \in task_claims :
          /\ c = IF x.task \in ts /\ x.agent = a /\ x.outcome = NULL
                 THEN [x EXCEPT !.outcome = o] ELSE x
          /\ c.task = x.task /\ c.token = x.token
    BY CloseRows
  <1>2. c.token \in 1..fencing_token[c.task]
    BY <1>1 DEF TokensNeverReused
  <1>3. ASSUME NEW d \in task_claims', c.task = d.task, c.token = d.token
        PROVE  c = d
    <2>1. PICK y \in task_claims :
            /\ d = IF y.task \in ts /\ y.agent = a /\ y.outcome = NULL
                   THEN [y EXCEPT !.outcome = o] ELSE y
            /\ d.task = y.task /\ d.token = y.token
      BY CloseRows
    <2>2. x = y
      BY <1>1, <1>3, <2>1 DEF TokensNeverReused
    <2>3. QED
      BY <1>1, <2>1, <2>2
  <1>4. QED
    BY <1>2, <1>3

(* Closing the holder's claims leaves only claims of tasks that keep their *)
(* row.                                                                    *)
LEMMA CloseOpen ==
  ASSUME TypeOK, OpenClaimIsTheHolders,
         NEW ts \in SUBSET Tasks, NEW a \in Agents, NEW o \in Outcomes \ {NULL},
         \A t \in ts : assignee[t] = a,
         task_claims' = Close(ts, a, o),
         \A t \in Tasks \ ts : /\ status'[t] = status[t]
                               /\ assignee'[t] = assignee[t]
                               /\ fencing_token'[t] = fencing_token[t]
  PROVE  OpenClaimIsTheHolders'
  <1> SUFFICES ASSUME NEW c \in task_claims', c.outcome = NULL
               PROVE  /\ status'[c.task] \in Held
                      /\ assignee'[c.task] = c.agent
                      /\ fencing_token'[c.task] = c.token
    BY DEF OpenClaimIsTheHolders
  <1>1. c \in task_claims /\ ~(c.task \in ts /\ c.agent = a) /\ c \in Claims
    BY CloseRows DEF TypeOK
  <1>2. c.task \notin ts /\ c.task \in Tasks
    BY <1>1 DEF OpenClaimIsTheHolders, Claims
  <1>3. QED
    BY <1>1, <1>2 DEF OpenClaimIsTheHolders

LEMMA ReturnInv ==
  ASSUME IInv, NEW t \in Tasks, assignee[t] # NULL, NEW s,
         NEW o \in Outcomes \ {NULL},
         Return(t, assignee[t], s, o),
         UNCHANGED fencing_token,
         lastServed' = lastServed \/ lastServed' = [lastServed EXCEPT ![t] = fencing_token[t]],
         \/ s = AfterCharge(t) /\ Charge(t)
         \/ s = "open" /\ UNCHANGED attempts
  PROVE  RowInv' /\ ClaimInv'
  <1>1. RowInv'
    BY ReturnRows DEF IInv
  <1>2. assignee[t] \in Agents /\ {t} \in SUBSET Tasks
    BY DEF IInv, TypeOK
  <1>3. TokensNeverReused'
    BY <1>2, CloseTokens DEF Return, IInv, ClaimInv
  <1>4. OpenClaimIsTheHolders'
    <2>1. \A u \in Tasks \ {t} : status'[u] = status[u] /\ assignee'[u] = assignee[u]
      BY DEF Return, IInv, TypeOK
    <2>2. QED
      BY <1>2, <2>1, CloseOpen DEF Return, IInv, ClaimInv
  <1>5. QED
    BY <1>1, <1>3, <1>4 DEF ClaimInv

(* One lemma per call. *)

LEMMA ClaimTaskInv ==
  ASSUME IInv, NEW a \in Agents, NEW t \in Tasks, ClaimTask(a, t)
  PROVE  RowInv' /\ ClaimInv'
  <1> USE DEF IInv
  <1>1. status[t] = "open" /\ assignee[t] = NULL /\ a # NULL /\ attempts[t] < MaxAttempts
    <2>1. status[t] = "open" /\ a # NULL
      BY SchedulerAssumption DEF ClaimTask, Claimable
    <2>2. assignee[t] = NULL
      BY <2>1 DEF RowInv, LeaseMatchesStatus, Held
    <2>3. attempts[t] \in Nat /\ attempts[t] <= MaxAttempts /\ attempts[t] # MaxAttempts
      BY <2>1 DEF RowInv, AttemptsAreBudgeted, TypeOK
    <2>4. QED
      BY <2>1, <2>2, <2>3, SchedulerAssumption
  <1>2. LeaseMatchesStatus'
    <2>1. clock + ClaimTTL(t) # NULL
      BY TTLType, SchedulerAssumption DEF TypeOK
    <2>2. QED
      BY <1>1, <2>1 DEF ClaimTask, RowInv, LeaseMatchesStatus, TypeOK, Held
  <1>3. AttemptsAreBudgeted'
    BY <1>1 DEF ClaimTask, NextToken, RowInv, AttemptsAreBudgeted, TypeOK
  <1>4. NoZombieWrite'
    BY DEF ClaimTask, RowInv, NoZombieWrite, TypeOK
  <1> DEFINE new == [task |-> t, agent |-> a, token |-> NextToken(t), outcome |-> NULL]
  <1>5. task_claims' = task_claims \cup {new}
    BY DEF ClaimTask
  <1>6. \A c \in task_claims : /\ c \in Claims /\ c.token \in 1..fencing_token[c.task]
                               /\ c.task = t => c.outcome # NULL /\ c.token < NextToken(t)
    BY <1>1 DEF ClaimInv, OpenClaimIsTheHolders, TokensNeverReused, TypeOK, NextToken, Held, Claims
  <1>7. OpenClaimIsTheHolders'
    BY <1>5, <1>6 DEF ClaimTask, ClaimInv, OpenClaimIsTheHolders, TypeOK, Held, Claims
  <1>8. TokensNeverReused'
    <2>1. \A c \in task_claims : c.token \in 1..fencing_token'[c.task]
      BY <1>6 DEF ClaimTask, NextToken, TypeOK, Claims
    <2>2. new.token \in 1..fencing_token'[new.task]
      BY DEF ClaimTask, NextToken, TypeOK
    <2>3. \A c \in task_claims : c.task = new.task => c.token # new.token
      BY <1>6 DEF NextToken, TypeOK, Claims
    <2>4. \A c \in task_claims, d \in task_claims :
             c.task = d.task /\ c.token = d.token => c = d
      BY DEF ClaimInv, TokensNeverReused
    <2> HIDE DEF new
    <2>5. QED
      BY <1>5, <2>1, <2>2, <2>3, <2>4 DEF TokensNeverReused
  <1>9. QED
    BY <1>2, <1>3, <1>4, <1>7, <1>8 DEF RowInv, ClaimInv

LEMMA ProgressInv ==
  ASSUME IInv, NEW a \in Agents, NEW t \in Tasks, NEW n \in Nat,
         NEW s \in {"in_progress", "blocked", NULL}, NEW now \in ReadClock,
         Progress(a, t, n, s, now)
  PROVE  RowInv' /\ ClaimInv'
  <1> USE DEF IInv
  <1>1. /\ assignee[t] = a /\ a # NULL /\ n = fencing_token[t]
        /\ now + RenewTTL(t) # NULL
    <2>1. now + RenewTTL(t) \in Nat
      BY TTLType DEF ReadClock, TypeOK
    <2>2. QED
      BY <2>1, SchedulerAssumption DEF Progress, Fence
  <1>2. /\ status[t] \in Held => status'[t] \in Held
        /\ status[t] = "done" => status'[t] \in Held \cup {"done"}
        /\ status[t] \in Held \cup {"done"}
        /\ status[t] # "failed" /\ status'[t] # "failed"
    BY <1>1 DEF Progress, RowInv, LeaseMatchesStatus, TypeOK, Held
  <1>3. LeaseMatchesStatus'
    BY <1>1, <1>2 DEF Progress, RowInv, LeaseMatchesStatus, TypeOK
  <1>4. AttemptsAreBudgeted'
    BY <1>2 DEF Progress, RowInv, AttemptsAreBudgeted, TypeOK
  <1>5. NoZombieWrite'
    BY <1>1 DEF Progress, RowInv, NoZombieWrite, TypeOK
  <1>6. OpenClaimIsTheHolders'
    BY <1>2 DEF Progress, ClaimInv, OpenClaimIsTheHolders, TypeOK, Claims
  <1>7. TokensNeverReused'
    BY DEF Progress, ClaimInv, TokensNeverReused
  <1>8. QED
    BY <1>3, <1>4, <1>5, <1>6, <1>7 DEF RowInv, ClaimInv

LEMMA CompleteInv ==
  ASSUME IInv, NEW a \in Agents, NEW t \in Tasks, NEW n \in Nat, CompleteTask(a, t, n)
  PROVE  RowInv' /\ ClaimInv'
  <1> USE DEF IInv
  <1>1. assignee[t] = a /\ a # NULL /\ n = fencing_token[t]
    BY SchedulerAssumption DEF CompleteTask, Fence
  <1>2. LeaseMatchesStatus'
    BY <1>1 DEF CompleteTask, RowInv, LeaseMatchesStatus, TypeOK, Held
  <1>3. AttemptsAreBudgeted'
    <2>1. status[t] # "failed"
      BY <1>1 DEF RowInv, LeaseMatchesStatus, Held
    <2>2. QED
      BY <2>1 DEF CompleteTask, RowInv, AttemptsAreBudgeted, TypeOK
  <1>4. NoZombieWrite'
    BY <1>1 DEF CompleteTask, RowInv, NoZombieWrite, TypeOK
  <1>5. {t} \in SUBSET Tasks /\ "done" \in Outcomes \ {NULL}
        /\ task_claims' = Close({t}, a, "done")
    BY SchedulerAssumption DEF Outcomes, CompleteTask
  <1>6. OpenClaimIsTheHolders'
    <2>1. \A u \in Tasks \ {t} : status'[u] = status[u] /\ assignee'[u] = assignee[u]
      BY DEF CompleteTask, TypeOK
    <2>2. QED
      BY <1>1, <1>5, <2>1, CloseOpen DEF CompleteTask, ClaimInv
  <1>7. TokensNeverReused'
    BY <1>5, CloseTokens DEF CompleteTask, ClaimInv
  <1>8. QED
    BY <1>2, <1>3, <1>4, <1>6, <1>7 DEF RowInv, ClaimInv

LEMMA FailInv ==
  ASSUME IInv, NEW a \in Agents, NEW t \in Tasks, NEW n \in Nat,
         FailTask(a, t, n) \/ ReleaseTask(a, t, n)
  PROVE  RowInv' /\ ClaimInv'
  <1>1. assignee[t] = a /\ assignee[t] # NULL /\ n = fencing_token[t]
    BY SchedulerAssumption DEF FailTask, ReleaseTask, Fence
  <1>2. {"failed", "released"} \subseteq Outcomes \ {NULL}
    BY SchedulerAssumption DEF Outcomes
  <1>3. CASE FailTask(a, t, n)
    BY <1>1, <1>2, <1>3, ReturnInv DEF FailTask
  <1>4. CASE ReleaseTask(a, t, n)
    BY <1>1, <1>2, <1>4, ReturnInv DEF ReleaseTask
  <1>5. QED
    BY <1>3, <1>4

LEMMA ReapInv ==
  ASSUME IInv, NEW t \in Tasks, ReapExpired(t)
  PROVE  RowInv' /\ ClaimInv'
  <1>1. assignee[t] # NULL
    BY DEF ReapExpired, StillExpired, Expired, IInv, RowInv, LeaseMatchesStatus, Leased, Held
  <1>2. "expired" \in Outcomes \ {NULL}
    BY SchedulerAssumption DEF Outcomes
  <1>3. QED
    BY <1>1, <1>2, ReturnInv DEF ReapExpired

LEMMA HeartbeatInv ==
  ASSUME IInv, NEW a \in Agents, NEW r, NEW now \in ReadClock, Heartbeat(a, r, now)
  PROVE  RowInv' /\ ClaimInv'
  <1> USE DEF IInv
  <1>1. \A t \in Tasks : now + RenewTTL(t) # NULL
    <2>1. \A t \in Tasks : now + RenewTTL(t) \in Nat
      BY TTLType DEF ReadClock, TypeOK
    <2>2. QED
      BY <2>1, SchedulerAssumption
  <1>2. LeaseMatchesStatus'
    BY <1>1, SchedulerAssumption DEF Heartbeat, RowInv, LeaseMatchesStatus, TypeOK
  <1>3. QED
    BY <1>2 DEF Heartbeat, RowInv, ClaimInv, AttemptsAreBudgeted, NoZombieWrite,
                OpenClaimIsTheHolders, TokensNeverReused

LEMMA LeaveInv ==
  ASSUME IInv, NEW a \in Agents, LeaveTeam(a)
  PROVE  RowInv' /\ ClaimInv'
  <1> USE DEF IInv
  <1> DEFINE R == {t \in Tasks : assignee[t] = a /\ status[t] \in Leased}
  <1>1. /\ task_claims' = Close(R, a, "released") /\ R \in SUBSET Tasks
        /\ \A t \in R : assignee[t] = a /\ status[t] \in Held
        /\ \A t \in R : status'[t] = "open" /\ assignee'[t] = NULL /\ lease_expires_at'[t] = NULL
        /\ \A t \in Tasks \ R : /\ status'[t] = status[t] /\ assignee'[t] = assignee[t]
                               /\ lease_expires_at'[t] = lease_expires_at[t]
    BY DEF LeaveTeam, Leased, Held
  <1>2. UNCHANGED <<fencing_token, attempts, lastServed>>
    BY DEF LeaveTeam
  <1>3. "released" \in Outcomes \ {NULL} /\ a # NULL
    BY SchedulerAssumption DEF Outcomes
  <1> HIDE DEF R
  <1>4. LeaseMatchesStatus'
    BY <1>1 DEF RowInv, LeaseMatchesStatus, Held
  <1>5. AttemptsAreBudgeted'
    <2> SUFFICES ASSUME NEW t \in Tasks
                 PROVE  /\ attempts[t] + (IF assignee'[t] = NULL THEN 0 ELSE 1) <= fencing_token[t]
                        /\ attempts[t] <= MaxAttempts
                        /\ status'[t] = "failed" <=> attempts[t] = MaxAttempts
      BY <1>2 DEF AttemptsAreBudgeted
    <2>1. CASE t \in R
      BY <1>1, <1>3, <2>1 DEF RowInv, AttemptsAreBudgeted, TypeOK, Held
    <2>2. CASE t \notin R
      BY <1>1, <2>2 DEF RowInv, AttemptsAreBudgeted
    <2>3. QED
      BY <2>1, <2>2
  <1>6. NoZombieWrite'
    BY <1>2 DEF RowInv, NoZombieWrite
  <1>7. OpenClaimIsTheHolders'
    BY <1>1, <1>2, <1>3, CloseOpen DEF ClaimInv
  <1>8. TokensNeverReused'
    BY <1>1, <1>2, <1>3, CloseTokens DEF ClaimInv
  <1>9. QED
    BY <1>4, <1>5, <1>6, <1>7, <1>8 DEF RowInv, ClaimInv

LEMMA CreateInv ==
  ASSUME IInv, NEW t \in Tasks, NEW deps, NEW ttl, NEW p, CreateTask(t, deps, ttl, p)
  PROVE  RowInv' /\ ClaimInv'
  <1> USE DEF IInv
  <1>1. RowInv'
    <2>1. assignee[t] = NULL
      BY DEF CreateTask, RowInv, LeaseMatchesStatus, Held
    <2>2. QED
      BY <2>1 DEF CreateTask, RowInv, LeaseMatchesStatus, AttemptsAreBudgeted, NoZombieWrite,
                  TypeOK, Held
  <1>2. OpenClaimIsTheHolders'
    BY DEF CreateTask, ClaimInv, OpenClaimIsTheHolders, TypeOK, Held, Claims
  <1>3. TokensNeverReused'
    BY DEF CreateTask, ClaimInv, TokensNeverReused
  <1>4. QED
    BY <1>1, <1>2, <1>3 DEF ClaimInv

(* Steps that touch no row and no claim. *)
LEMMA IdleInv ==
  ASSUME IInv, UNCHANGED <<columns, task_claims, lastServed>>
  PROVE  RowInv' /\ ClaimInv'
  BY DEF columns, IInv, RowInv, ClaimInv, LeaseMatchesStatus, AttemptsAreBudgeted,
         NoZombieWrite, OpenClaimIsTheHolders, TokensNeverReused

LEMMA NextInv ==
  ASSUME IInv, [Next]_vars
  PROVE  IInv'
  <1>1. TypeOK'
    BY NextType DEF IInv, RowInv
  <1>2. RowInv' /\ ClaimInv'
    <2>1. CASE Create
      BY <2>1, CreateInv DEF Create
    <2>2. ASSUME NEW a \in Agents, Call(a)
          PROVE  RowInv' /\ ClaimInv'
      <3>1. \A t \in Tasks : Tokens(a, t) \subseteq Nat
        BY DEF Tokens, ClaimsOf, IInv, TypeOK, Claims
      <3>2. CASE ClaimNext(a)
        BY <3>2, ClaimTaskInv DEF ClaimNext, Eligible, Created
      <3>3. CASE LeaveTeam(a)
        BY <3>3, LeaveInv
      <3>4. CASE \E r \in Believed(a) \cup {NULL}, now \in ReadClock : Heartbeat(a, r, now)
        BY <3>4, HeartbeatInv
      <3>5. ASSUME NEW t \in Tasks,
                   \/ ClaimTask(a, t)
                   \/ \E n \in Tokens(a, t) :
                        \/ \E s \in {"in_progress", "blocked", NULL}, now \in ReadClock :
                             Progress(a, t, n, s, now)
                        \/ CompleteTask(a, t, n)
                        \/ FailTask(a, t, n)
                        \/ ReleaseTask(a, t, n)
            PROVE  RowInv' /\ ClaimInv'
        BY <3>1, <3>5, ClaimTaskInv, ProgressInv, CompleteInv, FailInv
      <3>6. QED
        BY <2>2, <3>2, <3>3, <3>4, <3>5 DEF Call
    <2>3. CASE Reaper
      <3>1. ASSUME NEW t \in Tasks, ReapExpired(t)
            PROVE  RowInv' /\ ClaimInv'
        BY <3>1, ReapInv
      <3>2. CASE ReaperScan \/ SweepLost \/ \E t \in Tasks : ReapSkip(t)
        BY <3>2, IdleInv DEF ReaperScan, SweepLost, ReapSkip
      <3>3. QED
        BY <2>3, <3>1, <3>2 DEF Reaper, ReaperVisit
    <2>4. CASE Tick \/ UNCHANGED vars
      BY <2>4, IdleInv DEF Tick, vars
    <2>5. QED
      BY <2>1, <2>2, <2>3, <2>4 DEF Next
  <1>3. QED
    BY <1>1, <1>2 DEF IInv

------------------------------------------------------------------------------
(* Every reachable state satisfies the inductive invariant. *)
THEOREM Invariance == Spec => []IInv
  <1>1. Init => IInv
    BY InitInv
  <1>2. IInv /\ [Next]_vars => IInv'
    BY NextInv
  <1>3. QED
    BY <1>1, <1>2, PTL DEF Spec

(* The columns of tasks, the claim rows and the agents stay in their types. *)
THEOREM TypeCorrect == Spec => []TypeOK
  <1>1. IInv => TypeOK
    BY DEF IInv
  <1>2. QED
    BY <1>1, Invariance, PTL

(* Status, assignee and deadline of a task agree in every reachable state. *)
THEOREM LeaseConsistency == Spec => []LeaseMatchesStatus
  <1>1. IInv => LeaseMatchesStatus
    BY DEF IInv, RowInv
  <1>2. QED
    BY <1>1, Invariance, PTL

(* An open claim is the present holder's, under the present token. *)
THEOREM ClaimExclusion == Spec => []OpenClaimIsTheHolders
  <1>1. IInv => OpenClaimIsTheHolders
    BY DEF IInv, ClaimInv
  <1>2. QED
    BY <1>1, Invariance, PTL

(* No fencing token is granted twice for a task. *)
THEOREM TokenUniqueness == Spec => []TokensNeverReused
  <1>1. IInv => TokensNeverReused
    BY DEF IInv, ClaimInv
  <1>2. QED
    BY <1>1, Invariance, PTL

(* Attempts stay within the budget and are charged once per claim. *)
THEOREM AttemptBudget == Spec => []AttemptsAreBudgeted
  <1>1. IInv => AttemptsAreBudgeted
    BY DEF IInv, RowInv
  <1>2. QED
    BY <1>1, Invariance, PTL

(* No call under an older token has an effect once a newer one is granted. *)
THEOREM ZombieFencing == Spec => []NoZombieWrite
  <1>1. IInv => NoZombieWrite
    BY DEF IInv, RowInv
  <1>2. QED
    BY <1>1, Invariance, PTL

------------------------------------------------------------------------------
(* What holds when no client uses a claim it has ended itself.  The newest *)
(* claim of a held task is open and its holder's; that of a done task is   *)
(* the one that completed it; and only such a claim ends as done.          *)
HeldClaim ==
  \A t \in Tasks : assignee[t] # NULL =>
    \E c \in task_claims :
      /\ c.task = t /\ c.agent = assignee[t] /\ c.token = fencing_token[t]
      /\ status[t] \in Held => c.outcome = NULL
      /\ status[t] = "done" => c.outcome = "done"

DoneClaim ==
  \A c \in task_claims :
    c.outcome = "done" => status[c.task] = "done" /\ c.token = fencing_token[c.task]

Disciplined == HeldClaim /\ DoneClaim /\ DependenciesStayDone /\ CurrentTaskIsLive

(* Closing claims leaves the rows of others alone ... *)
LEMMA CloseKeeps ==
  ASSUME NEW ts, NEW a, NEW o, NEW d \in task_claims,
         ~(d.task \in ts /\ d.agent = a /\ d.outcome = NULL)
  PROVE  d \in Close(ts, a, o)
  BY DEF Close

(* ... and loses none. *)
LEMMA CloseEnds ==
  ASSUME task_claims \subseteq Claims, NEW ts, NEW a, NEW o, NEW d \in task_claims,
         d.task \in ts, d.agent = a, d.outcome = NULL
  PROVE  \E c \in Close(ts, a, o) :
           c.task = d.task /\ c.agent = d.agent /\ c.token = d.token /\ c.outcome = o
  <1>1. [d EXCEPT !.outcome = o] \in Close(ts, a, o)
    BY DEF Close
  <1>2. PICK c : c = [d EXCEPT !.outcome = o]
    OBVIOUS
  <1>3. d \in Claims
    OBVIOUS
  <1>4. c.task = d.task /\ c.agent = d.agent /\ c.token = d.token /\ c.outcome = o
    BY <1>2, <1>3 DEF Claims
  <1>5. QED
    BY <1>1, <1>2, <1>4

(* A fenced call under a claim its client has not ended is the holder's,   *)
(* while it holds the task.                                                *)
LEMMA FencedCallHolds ==
  ASSUME ~LateCalls, IInv, Disciplined, NEW a \in Agents, NEW t \in Tasks,
         NEW n \in Tokens(a, t), Fence(a, t, n)
  PROVE  /\ status[t] \in Held /\ assignee[t] = a /\ a # NULL
         /\ \E c \in ClaimsOf(a, t) : c.token = fencing_token[t] /\ c.outcome = NULL
  <1> USE DEF IInv
  <1>1. assignee[t] = a /\ a # NULL /\ fencing_token[t] = n
    BY SchedulerAssumption DEF Fence
  <1>2. PICK c \in task_claims : /\ c.agent = a /\ c.task = t /\ c.token = n
                                 /\ c.outcome \in {NULL, "expired"}
    BY DEF Tokens, ClaimsOf, Usable
  <1>3. PICK d \in task_claims :
          /\ d.task = t /\ d.token = fencing_token[t]
          /\ status[t] \in Held => d.outcome = NULL
          /\ status[t] = "done" => d.outcome = "done"
    BY <1>1 DEF Disciplined, HeldClaim
  <1>4. c = d
    BY <1>1, <1>2, <1>3 DEF ClaimInv, TokensNeverReused
  <1>5. status[t] \in Held \cup {"done"}
    BY <1>1 DEF RowInv, LeaseMatchesStatus
  <1>6. status[t] # "done"
    BY <1>2, <1>3, <1>4, SchedulerAssumption
  <1>7. QED
    BY <1>1, <1>2, <1>3, <1>4, <1>5, <1>6 DEF ClaimsOf

LEMMA InitDisciplined == Init => Disciplined
  BY DEF Init, Disciplined, HeldClaim, DoneClaim, DependenciesStayDone, CurrentTaskIsLive, Held

LEMMA CreateDisciplined ==
  ASSUME IInv, Disciplined, NEW t \in Tasks, NEW deps, NEW ttl, NEW p,
         CreateTask(t, deps, ttl, p)
  PROVE  Disciplined'
  <1> USE DEF IInv
  <1>1. status[t] = "absent" /\ \A u \in Tasks : u # t => status'[u] = status[u]
    BY DEF CreateTask, TypeOK
  <1>2. status'[t] = "open" /\ assignee[t] = NULL
    BY DEF CreateTask, TypeOK, RowInv, LeaseMatchesStatus, Held
  <1>3. UNCHANGED <<assignee, fencing_token, task_claims, current_task>>
    BY DEF CreateTask
  <1>4. \A u \in Tasks : u # t => depends_on'[u] = depends_on[u]
    BY DEF CreateTask, TypeOK
  <1>5. HeldClaim'
    BY <1>1, <1>2, <1>3 DEF Disciplined, HeldClaim
  <1>6. DoneClaim'
    BY <1>1, <1>3 DEF Disciplined, DoneClaim, TypeOK, Claims
  <1>7. DependenciesStayDone'
    BY <1>1, <1>2, <1>4 DEF Disciplined, DependenciesStayDone, Held
  <1>8. CurrentTaskIsLive'
    BY <1>3 DEF Disciplined, CurrentTaskIsLive, ClaimsOf
  <1>9. QED
    BY <1>5, <1>6, <1>7, <1>8 DEF Disciplined

LEMMA ClaimDisciplined ==
  ASSUME IInv, Disciplined, NEW a \in Agents, NEW t \in Tasks, ClaimTask(a, t)
  PROVE  Disciplined'
  <1> USE DEF IInv
  <1> DEFINE new == [task |-> t, agent |-> a, token |-> NextToken(t), outcome |-> NULL]
  <1>1. /\ status[t] = "open" /\ status'[t] = "claimed"
        /\ assignee'[t] = a /\ fencing_token'[t] = NextToken(t)
        /\ \A u \in Tasks : u # t => /\ status'[u] = status[u] /\ assignee'[u] = assignee[u]
                                     /\ fencing_token'[u] = fencing_token[u]
    BY DEF ClaimTask, Claimable, TypeOK
  <1>2. task_claims' = task_claims \cup {new} /\ UNCHANGED depends_on
    BY DEF ClaimTask, fixed
  <1>3. new.task = t /\ new.agent = a /\ new.token = NextToken(t) /\ new.outcome = NULL
    OBVIOUS
  <1>4. current_task' = [current_task EXCEPT ![a] = t]
    BY DEF ClaimTask
  <1> HIDE DEF new
  <1>5. HeldClaim'
    BY <1>1, <1>2, <1>3 DEF Disciplined, HeldClaim
  <1>6. DoneClaim'
    BY <1>1, <1>2, <1>3, SchedulerAssumption DEF Disciplined, DoneClaim, TypeOK, Claims
  <1>7. DependenciesStayDone'
    <2>1. \A d \in depends_on[t] : d \in Tasks /\ status[d] = "done"
      BY DEF ClaimTask, Unmet, Created
    <2>2. QED
      BY <1>1, <1>2, <2>1 DEF Disciplined, DependenciesStayDone
  <1>8. CurrentTaskIsLive'
    BY <1>2, <1>3, <1>4 DEF Disciplined, CurrentTaskIsLive, ClaimsOf, TypeOK
  <1>9. QED
    BY <1>5, <1>6, <1>7, <1>8 DEF Disciplined

LEMMA ProgressDisciplined ==
  ASSUME ~LateCalls, IInv, Disciplined, NEW a \in Agents, NEW t \in Tasks,
         NEW n \in Tokens(a, t), NEW s \in {"in_progress", "blocked", NULL}, NEW now,
         Progress(a, t, n, s, now)
  PROVE  Disciplined'
  <1> USE DEF IInv
  <1>1. /\ status[t] \in Held /\ assignee[t] = a
        /\ \E c \in ClaimsOf(a, t) : c.token = fencing_token[t] /\ c.outcome = NULL
    BY FencedCallHolds DEF Progress
  <1>2. /\ status'[t] \in Held /\ \A u \in Tasks : u # t => status'[u] = status[u]
        /\ UNCHANGED <<assignee, fencing_token, task_claims, depends_on>>
        /\ current_task' = [current_task EXCEPT ![a] = t]
    BY <1>1 DEF Progress, TypeOK, Held, fixed
  <1>3. status[t] # "done" /\ status'[t] # "done"
    BY <1>1, <1>2 DEF Held
  <1>4. HeldClaim'
    BY <1>1, <1>2, <1>3 DEF Disciplined, HeldClaim
  <1>5. DoneClaim'
    BY <1>2, <1>3 DEF Disciplined, DoneClaim, TypeOK, Claims
  <1>6. DependenciesStayDone'
    BY <1>1, <1>2, <1>3 DEF Disciplined, DependenciesStayDone
  <1>7. CurrentTaskIsLive'
    BY <1>1, <1>2 DEF Disciplined, CurrentTaskIsLive, ClaimsOf, TypeOK
  <1>8. QED
    BY <1>4, <1>5, <1>6, <1>7 DEF Disciplined

(* A set of held tasks leaves its holder: done, or back to the board. *)
LEMMA EndDisciplined ==
  ASSUME IInv, Disciplined, NEW ts \in SUBSET Tasks, NEW a \in Agents,
         NEW o \in Outcomes \ {NULL},
         \A t \in ts : assignee[t] = a /\ status[t] \in Held,
         task_claims' = Close(ts, a, o),
         \A t \in ts : \/ o = "done" /\ status'[t] = "done" /\ assignee'[t] = a
                       \/ o # "done" /\ status'[t] \in {"open", "failed"} /\ assignee'[t] = NULL,
         \A t \in Tasks \ ts : status'[t] = status[t] /\ assignee'[t] = assignee[t],
         current_task' \in [Agents -> Tasks \cup {NULL}],
         \A b \in Agents : current_task'[b] # NULL =>
           current_task'[b] = current_task[b] /\ ~(b = a /\ current_task[b] \in ts),
         UNCHANGED <<fencing_token, depends_on>>
  PROVE  Disciplined'
  <1> USE DEF IInv
  <1> task_claims \subseteq Claims
    BY DEF TypeOK
  <1>1. \A t \in ts : status[t] # "done" /\ status'[t] \notin Held
    BY DEF Held
  <1>2. HeldClaim'
    <2> SUFFICES ASSUME NEW t \in Tasks, assignee'[t] # NULL
                 PROVE  \E c \in task_claims' :
                          /\ c.task = t /\ c.agent = assignee'[t] /\ c.token = fencing_token[t]
                          /\ status'[t] \in Held => c.outcome = NULL
                          /\ status'[t] = "done" => c.outcome = "done"
      BY DEF HeldClaim
    <2>1. assignee[t] # NULL
      BY SchedulerAssumption
    <2>2. PICK d \in task_claims :
            /\ d.task = t /\ d.agent = assignee[t] /\ d.token = fencing_token[t]
            /\ status[t] \in Held => d.outcome = NULL
            /\ status[t] = "done" => d.outcome = "done"
      BY <2>1 DEF Disciplined, HeldClaim
    <2>3. CASE t \in ts
      <3>1. o = "done" /\ status'[t] = "done" /\ assignee'[t] = a
        BY <2>3
      <3>2. \E c \in task_claims' : /\ c.task = d.task /\ c.agent = d.agent
                                    /\ c.token = d.token /\ c.outcome = o
        <4>1. d.task \in ts /\ d.agent = a /\ d.outcome = NULL
          BY <2>2, <2>3
        <4>2. QED
          BY <4>1, CloseEnds
      <3>3. QED
        BY <1>1, <2>2, <2>3, <3>1, <3>2
    <2>4. CASE t \notin ts
      <3>1. d \in task_claims'
        BY <2>2, <2>4, CloseKeeps
      <3>2. QED
        BY <2>2, <2>4, <3>1
    <2>5. QED
      BY <2>3, <2>4
  <1>3. DoneClaim'
    <2> SUFFICES ASSUME NEW c \in task_claims', c.outcome = "done"
                 PROVE  status'[c.task] = "done" /\ c.token = fencing_token[c.task]
      BY DEF DoneClaim
    <2>1. PICK d \in task_claims :
            /\ c = IF d.task \in ts /\ d.agent = a /\ d.outcome = NULL
                   THEN [d EXCEPT !.outcome = o] ELSE d
            /\ c.task = d.task /\ c.agent = d.agent /\ c.token = d.token
      BY CloseRows
    <2>2. d \in Claims
      OBVIOUS
    <2>3. CASE d.task \in ts /\ d.agent = a /\ d.outcome = NULL
      <3>1. c.outcome = o
        BY <2>1, <2>2, <2>3 DEF Claims
      <3>2. fencing_token[d.task] = d.token
        BY <2>3 DEF ClaimInv, OpenClaimIsTheHolders
      <3>3. QED
        BY <2>1, <2>3, <3>1, <3>2
    <2>4. CASE ~(d.task \in ts /\ d.agent = a /\ d.outcome = NULL)
      <3>1. d.outcome = "done"
        BY <2>1, <2>4
      <3>2. status[d.task] = "done" /\ d.token = fencing_token[d.task]
        BY <3>1 DEF Disciplined, DoneClaim
      <3>3. d.task \in Tasks \ ts
        BY <1>1, <2>2, <3>2 DEF Claims
      <3>4. QED
        BY <2>1, <3>2, <3>3
    <2>5. QED
      BY <2>3, <2>4
  <1>4. DependenciesStayDone'
    <2>1. \A t \in Tasks : status[t] = "done" => status'[t] = "done"
      BY <1>1
    <2>2. \A t \in Tasks : status'[t] \in Held \cup {"done"} => status[t] \in Held \cup {"done"}
      OBVIOUS
    <2>3. QED
      BY <2>1, <2>2 DEF Disciplined, DependenciesStayDone
  <1>5. CurrentTaskIsLive'
    <2> SUFFICES ASSUME NEW b \in Agents, current_task'[b] # NULL
                 PROVE  \E c \in task_claims' :
                          /\ c.agent = b /\ c.task = current_task'[b]
                          /\ c.outcome \in {NULL, "expired"}
      BY DEF CurrentTaskIsLive, ClaimsOf
    <2>1. current_task'[b] = current_task[b] /\ ~(b = a /\ current_task[b] \in ts)
      OBVIOUS
    <2>2. PICK d \in task_claims : /\ d.agent = b /\ d.task = current_task[b]
                                   /\ d.outcome \in {NULL, "expired"}
      BY <2>1 DEF Disciplined, CurrentTaskIsLive, ClaimsOf
    <2>3. d \in task_claims'
      BY <2>1, <2>2, CloseKeeps
    <2>4. QED
      BY <2>1, <2>2, <2>3
  <1>6. QED
    BY <1>2, <1>3, <1>4, <1>5 DEF Disciplined

LEMMA NextDisciplined ==
  ASSUME ~LateCalls, IInv, Disciplined, [Next]_vars
  PROVE  Disciplined'
  <1> USE DEF IInv
  <1>1. ASSUME NEW t \in Tasks, NEW s \in {"open", "failed"},
               NEW o \in {"failed", "expired", "released"},
               status[t] \in Held, Return(t, assignee[t], s, o),
               UNCHANGED <<fencing_token, depends_on>>
        PROVE  Disciplined'
    <2>1. assignee[t] \in Agents
      BY <1>1 DEF RowInv, LeaseMatchesStatus, TypeOK
    <2>2. o \in Outcomes \ {NULL} /\ o # "done" /\ {t} \in SUBSET Tasks
      BY SchedulerAssumption DEF Outcomes
    <2>3. /\ status'[t] \in {"open", "failed"} /\ assignee'[t] = NULL
          /\ \A u \in Tasks \ {t} : status'[u] = status[u] /\ assignee'[u] = assignee[u]
      BY <1>1 DEF Return, TypeOK
    <2>4. /\ current_task' \in [Agents -> Tasks \cup {NULL}]
          /\ \A b \in Agents : current_task'[b] # NULL =>
               current_task'[b] = current_task[b] /\ ~(b = assignee[t] /\ current_task[b] \in {t})
      BY <1>1, <2>1 DEF Return, ForgetCurrent, TypeOK
    <2>5. task_claims' = Close({t}, assignee[t], o)
      BY <1>1 DEF Return
    <2>6. QED
      BY <1>1, <2>1, <2>2, <2>3, <2>4, <2>5, EndDisciplined
  <1>2. ASSUME NEW t \in Tasks
        PROVE  AfterCharge(t) \in {"open", "failed"}
    BY DEF AfterCharge
  <1>3. ASSUME NEW a \in Agents, NEW t \in Tasks, NEW n \in Tokens(a, t), CompleteTask(a, t, n)
        PROVE  Disciplined'
    <2>1. status[t] \in Held /\ assignee[t] = a
      BY <1>3, FencedCallHolds DEF CompleteTask
    <2>2. "done" \in Outcomes \ {NULL} /\ {t} \in SUBSET Tasks
      BY SchedulerAssumption DEF Outcomes
    <2>3. /\ status'[t] = "done" /\ assignee'[t] = a
          /\ \A u \in Tasks \ {t} : status'[u] = status[u] /\ assignee'[u] = assignee[u]
      BY <1>3, <2>1 DEF CompleteTask, TypeOK
    <2>4. /\ current_task' \in [Agents -> Tasks \cup {NULL}]
          /\ \A b \in Agents : current_task'[b] # NULL =>
               current_task'[b] = current_task[b] /\ ~(b = a /\ current_task[b] \in {t})
      BY <1>3 DEF CompleteTask, ForgetCurrent, TypeOK
    <2>5. task_claims' = Close({t}, a, "done") /\ UNCHANGED <<fencing_token, depends_on>>
      BY <1>3 DEF CompleteTask, fixed
    <2>6. QED
      BY <2>1, <2>2, <2>3, <2>4, <2>5, EndDisciplined
  <1>4. ASSUME NEW a \in Agents, NEW t \in Tasks, NEW n \in Tokens(a, t),
               FailTask(a, t, n) \/ ReleaseTask(a, t, n)
        PROVE  Disciplined'
    <2>1. status[t] \in Held /\ assignee[t] = a
      BY <1>4, FencedCallHolds DEF FailTask, ReleaseTask
    <2>2. QED
      BY <1>1, <1>2, <1>4, <2>1 DEF FailTask, ReleaseTask, fixed
  <1>5. ASSUME NEW a \in Agents, LeaveTeam(a)
        PROVE  Disciplined'
    <2> DEFINE R == {t \in Tasks : assignee[t] = a /\ status[t] \in Leased}
    <2>1. /\ task_claims' = Close(R, a, "released") /\ R \in SUBSET Tasks
          /\ \A t \in R : assignee[t] = a /\ status[t] \in Held
          /\ \A t \in R : status'[t] = "open" /\ assignee'[t] = NULL
          /\ \A t \in Tasks \ R : status'[t] = status[t] /\ assignee'[t] = assignee[t]
      BY <1>5 DEF LeaveTeam, Leased, Held
    <2>2. "released" \in Outcomes \ {NULL}
      BY SchedulerAssumption DEF Outcomes
    <2>3. UNCHANGED <<fencing_token, depends_on>>
      BY <1>5 DEF LeaveTeam, fixed
    <2>4. /\ current_task' \in [Agents -> Tasks \cup {NULL}]
          /\ \A b \in Agents : current_task'[b] # NULL => current_task'[b] = current_task[b] /\ b # a
      BY <1>5 DEF LeaveTeam, TypeOK
    <2> HIDE DEF R
    <2>5. QED
      BY <2>1, <2>2, <2>3, <2>4, EndDisciplined
  <1>6. ASSUME NEW a \in Agents, NEW r \in Believed(a) \cup {NULL}, NEW now, Heartbeat(a, r, now)
        PROVE  Disciplined'
    <2>1. UNCHANGED <<status, assignee, fencing_token, task_claims, depends_on>>
      BY <1>6 DEF Heartbeat, fixed
    <2>2. CurrentTaskIsLive'
      <3>1. r # NULL => \E c \in ClaimsOf(a, r) : c.outcome \in {NULL, "expired"}
        BY DEF Believed, ClaimsOf, Usable
      <3>2. \A b \in Agents : current_task'[b] = IF b = a /\ r # NULL THEN r ELSE current_task[b]
        BY <1>6 DEF Heartbeat, TypeOK
      <3>3. QED
        BY <2>1, <3>1, <3>2 DEF Disciplined, CurrentTaskIsLive, ClaimsOf
    <2>3. QED
      BY <2>1, <2>2 DEF Disciplined, HeldClaim, DoneClaim, DependenciesStayDone
  <1>7. ASSUME NEW t \in Tasks, ReapExpired(t)
        PROVE  Disciplined'
    <2>1. status[t] \in Held
      BY <1>7 DEF ReapExpired, StillExpired, Expired, Leased, Held
    <2>2. QED
      BY <1>1, <1>2, <1>7, <2>1 DEF ReapExpired, fixed
  <1>8. CASE \/ ReaperScan \/ SweepLost \/ \E t \in Tasks : ReapSkip(t)
             \/ Tick \/ UNCHANGED vars
    <2>1. UNCHANGED <<status, assignee, fencing_token, task_claims, depends_on, current_task>>
      BY <1>8 DEF ReaperScan, SweepLost, ReapSkip, Tick, vars, columns, fixed
    <2>2. QED
      BY <2>1 DEF Disciplined, HeldClaim, DoneClaim, DependenciesStayDone, CurrentTaskIsLive, ClaimsOf
  <1>9. QED
    <2>1. ASSUME NEW a \in Agents, Call(a)
          PROVE  Disciplined'
      BY <2>1, <1>3, <1>4, <1>5, <1>6, ClaimDisciplined, ProgressDisciplined
      DEF Call, ClaimNext, Eligible, Created
    <2>2. CASE Create
      BY <2>2, CreateDisciplined DEF Create
    <2>3. QED
      BY <1>7, <1>8, <2>1, <2>2 DEF Next, Reaper, ReaperVisit

LEMMA DisciplineKept == ~LateCalls => (Spec => [](IInv /\ Disciplined))
  <1> SUFFICES ASSUME ~LateCalls
               PROVE  Spec => [](IInv /\ Disciplined)
    OBVIOUS
  <1>1. Init => IInv /\ Disciplined
    BY InitInv, InitDisciplined
  <1>2. IInv /\ Disciplined /\ [Next]_vars => IInv' /\ Disciplined'
    BY NextInv, NextDisciplined
  <1>3. QED
    BY <1>1, <1>2, PTL DEF Spec

(* At most one claim of a task ends as done, whatever reaping and          *)
(* re-claiming happens in between, unless a client uses a claim it ended.  *)
THEOREM OneCommit == ~LateCalls => (Spec => []CommittedOnce)
  <1> SUFFICES ASSUME ~LateCalls
               PROVE  Spec => []CommittedOnce
    OBVIOUS
  <1>1. IInv /\ Disciplined => CommittedOnce
    BY DEF IInv, ClaimInv, Disciplined, DoneClaim, TokensNeverReused, CommittedOnce
  <1>2. QED
    BY <1>1, DisciplineKept, PTL

(* What a held or finished task depends on is done, and stays so. *)
THEOREM DependenciesHold == ~LateCalls => (Spec => []DependenciesStayDone)
  <1> SUFFICES ASSUME ~LateCalls
               PROVE  Spec => []DependenciesStayDone
    OBVIOUS
  <1>1. Disciplined => DependenciesStayDone
    BY DEF Disciplined
  <1>2. QED
    BY <1>1, DisciplineKept, PTL

(* An agent shows a task it still works on, or one that was reaped. *)
THEOREM CurrentTaskHolds == ~LateCalls => (Spec => []CurrentTaskIsLive)
  <1> SUFFICES ASSUME ~LateCalls
               PROVE  Spec => []CurrentTaskIsLive
    OBVIOUS
  <1>1. Disciplined => CurrentTaskIsLive
    BY DEF Disciplined
  <1>2. QED
    BY <1>1, DisciplineKept, PTL

------------------------------------------------------------------------------
(* A deadline is never further off than one renewal from now, when no task *)
(* has lease_ttl_s 0 (which a claim reads as the default and a renewal as  *)
(* no time at all).                                                        *)
DeadlineNear ==
  \A t \in Tasks :
    /\ lease_ttl_s[t] # 0
    /\ status[t] \in Held => lease_expires_at[t] <= clock + RenewTTL(t)

LEMMA RenewedNear ==
  ASSUME IInv, NEW t \in Tasks, lease_ttl_s[t] # 0
  PROVE  RenewTTL(t) \in Nat /\ ClaimTTL(t) = RenewTTL(t) /\ clock \in Nat
  BY TTLType, SchedulerAssumption DEF IInv, TypeOK, ClaimTTL, RenewTTL

(* Only Tick moves the clock, only create_task sets the terms of a lease. *)
LEMMA TimeAndTerms ==
  ASSUME [Next]_vars
  PROVE  /\ clock' = clock \/ clock' = clock + 1
         /\ ~Create => UNCHANGED lease_ttl_s
  <1>1. CASE Create
    BY <1>1 DEF Create, CreateTask
  <1>2. ASSUME NEW a \in Agents, Call(a)
        PROVE  UNCHANGED <<clock, lease_ttl_s>>
    <2>1. ASSUME NEW t \in Tasks, ClaimTask(a, t)
          PROVE  UNCHANGED <<clock, lease_ttl_s>>
      BY <2>1 DEF ClaimTask, fixed
    <2>2. ASSUME NEW t, NEW n, NEW s, NEW now,
                 \/ Progress(a, t, n, s, now)
                 \/ CompleteTask(a, t, n) \/ FailTask(a, t, n) \/ ReleaseTask(a, t, n)
          PROVE  UNCHANGED <<clock, lease_ttl_s>>
      BY <2>2 DEF Progress, CompleteTask, FailTask, ReleaseTask, fixed
    <2>3. ASSUME NEW r, NEW now, Heartbeat(a, r, now) \/ LeaveTeam(a)
          PROVE  UNCHANGED <<clock, lease_ttl_s>>
      BY <2>3 DEF Heartbeat, LeaveTeam, fixed
    <2>4. QED
      BY <1>2, <2>1, <2>2, <2>3 DEF Call, ClaimNext, Eligible, Created
  <1>3. CASE Reaper
    BY <1>3 DEF Reaper, ReaperScan, ReaperVisit, ReapExpired, ReapSkip, SweepLost, fixed
  <1>4. CASE Tick \/ UNCHANGED vars
    BY <1>4 DEF Tick, vars, fixed
  <1>5. QED
    BY <1>1, <1>2, <1>3, <1>4 DEF Next

LEMMA DeadlineStep ==
  ASSUME 0 \notin LeaseTTLs, ~LateCalls, IInv, Disciplined, DeadlineNear, [Next]_vars
  PROVE  /\ DeadlineNear'
         /\ \A t \in Tasks :
              assignee[t] # NULL /\ assignee'[t] = assignee[t] /\ status'[t] \in Held =>
                lease_expires_at'[t] + LockWait >= lease_expires_at[t]
  <1> USE DEF IInv
  <1> DEFINE Kept(t) == /\ lease_expires_at'[t] = lease_expires_at[t]
                        /\ status[t] \in Held
             Renewed(t) == \E now \in ReadClock : /\ lease_expires_at'[t] = now + RenewTTL(t)
                                                  /\ status[t] \in Held
             Claimed(t) == /\ lease_expires_at'[t] = clock + RenewTTL(t)
                           /\ assignee[t] = NULL
  <1>1. ASSUME NEW t \in Tasks, clock' \in Nat, clock' >= clock, UNCHANGED lease_ttl_s,
               status'[t] \in Held => Kept(t) \/ Renewed(t) \/ Claimed(t)
        PROVE  /\ lease_ttl_s'[t] # 0
               /\ status'[t] \in Held => lease_expires_at'[t] <= clock' + RenewTTL(t)'
               /\ assignee[t] # NULL /\ status'[t] \in Held =>
                    lease_expires_at'[t] + LockWait >= lease_expires_at[t]
    <2>1. lease_ttl_s[t] # 0 /\ RenewTTL(t)' = RenewTTL(t)
      BY <1>1 DEF DeadlineNear, RenewTTL
    <2>2. RenewTTL(t) \in Nat /\ clock \in Nat /\ LockWait \in Nat
      BY <2>1, RenewedNear, SchedulerAssumption
    <2>3. status[t] \in Held =>
            lease_expires_at[t] \in Nat /\ lease_expires_at[t] <= clock + RenewTTL(t)
      BY DEF DeadlineNear, RowInv, LeaseMatchesStatus, TypeOK
    <2>4. CASE Kept(t)
      BY <1>1, <2>1, <2>2, <2>3, <2>4
    <2>5. CASE Renewed(t)
      <3>1. PICK now \in ReadClock : lease_expires_at'[t] = now + RenewTTL(t)
        BY <2>5
      <3>2. now \in Nat /\ now <= clock /\ now + LockWait >= clock
        BY <2>2 DEF ReadClock
      <3>3. status[t] \in Held
        BY <2>5
      <3>4. QED
        BY <1>1, <2>1, <2>2, <2>3, <3>1, <3>2, <3>3
    <2>6. CASE Claimed(t)
      BY <1>1, <2>1, <2>2, <2>6
    <2>7. QED
      BY <1>1, <2>1, <2>4, <2>5, <2>6
  <1> DEFINE Good(t) == /\ lease_ttl_s'[t] # 0
                        /\ status'[t] \in Held => lease_expires_at'[t] <= clock' + RenewTTL(t)'
                        /\ assignee[t] # NULL /\ assignee'[t] = assignee[t] /\ status'[t] \in Held =>
                             lease_expires_at'[t] + LockWait >= lease_expires_at[t]
  <1> SUFFICES ASSUME NEW t \in Tasks
               PROVE  Good(t)
    BY DEF DeadlineNear
  <1>2. clock' \in Nat /\ clock' >= clock
    BY TimeAndTerms DEF TypeOK
  <1>3. CASE Create
    <2>1. PICK u \in Tasks, deps \in SUBSET (Created \cup Ghosts), ttl \in LeaseTTLs \cup {NULL},
               p \in Priorities : CreateTask(u, deps, ttl, p)
      BY <1>3 DEF Create
    <2>2. ttl # 0
      BY SchedulerAssumption
    <2>3. CASE t = u
      BY <2>1, <2>2, <2>3 DEF CreateTask, TypeOK, Held
    <2>4. CASE t # u
      <3>1. /\ lease_ttl_s'[t] = lease_ttl_s[t] /\ status'[t] = status[t]
            /\ UNCHANGED <<lease_expires_at, clock>>
        BY <2>1, <2>4 DEF CreateTask, TypeOK
      <3>2. RenewTTL(t)' = RenewTTL(t) /\ LockWait \in Nat
        BY <3>1, SchedulerAssumption DEF RenewTTL
      <3>3. status[t] \in Held => lease_expires_at[t] \in Nat
        BY DEF RowInv, LeaseMatchesStatus, TypeOK
      <3>4. QED
        BY <3>1, <3>2, <3>3 DEF DeadlineNear
    <2>5. QED
      BY <2>3, <2>4
  <1>4. CASE ~Create
    <2>1. UNCHANGED lease_ttl_s
      BY <1>4, TimeAndTerms
    <2>2. status'[t] \in Held => Kept(t) \/ Renewed(t) \/ Claimed(t)
      <3>1. ASSUME NEW a \in Agents, NEW u \in Tasks, ClaimTask(a, u)
            PROVE  status'[t] \in Held => Kept(t) \/ Claimed(t)
        <4>1. lease_ttl_s[u] # 0 /\ ClaimTTL(u) = RenewTTL(u)
          BY RenewedNear DEF DeadlineNear
        <4>2. assignee[u] = NULL
          BY <3>1 DEF ClaimTask, Claimable, RowInv, LeaseMatchesStatus, Held
        <4>3. QED
          BY <3>1, <4>1, <4>2 DEF ClaimTask, TypeOK
      <3>2. ASSUME NEW a \in Agents, NEW u \in Tasks, NEW n \in Tokens(a, u),
                   NEW s \in {"in_progress", "blocked", NULL}, NEW now \in ReadClock,
                   Progress(a, u, n, s, now)
            PROVE  status'[t] \in Held => Kept(t) \/ Renewed(t)
        <4>1. status[u] \in Held
          BY <3>2, FencedCallHolds DEF Progress
        <4>2. QED
          BY <3>2, <4>1 DEF Progress, TypeOK
      <3>3. ASSUME NEW a \in Agents, NEW u \in Tasks, NEW n \in Tokens(a, u),
                   CompleteTask(a, u, n)
            PROVE  status'[t] \in Held => Kept(t)
        BY <3>3 DEF CompleteTask, TypeOK, Held
      <3>4. ASSUME NEW a, NEW u \in Tasks, NEW s \in {"open", "failed"}, NEW o, Return(u, a, s, o)
            PROVE  status'[t] \in Held => Kept(t)
        BY <3>4 DEF Return, TypeOK, Held
      <3>5. ASSUME NEW a \in Agents, NEW r, NEW now \in ReadClock, Heartbeat(a, r, now)
            PROVE  status'[t] \in Held => Kept(t) \/ Renewed(t)
        BY <3>5 DEF Heartbeat, Leased, Held
      <3>6. ASSUME NEW a \in Agents, LeaveTeam(a)
            PROVE  status'[t] \in Held => Kept(t)
        BY <3>6 DEF LeaveTeam, Held
      <3>7. CASE \/ ReaperScan \/ SweepLost \/ \E u \in Tasks : ReapSkip(u)
                 \/ Tick \/ UNCHANGED vars
        BY <3>7 DEF ReaperScan, SweepLost, ReapSkip, Tick, vars, columns
      <3>8. \A u \in Tasks : AfterCharge(u) \in {"open", "failed"}
        BY DEF AfterCharge
      <3>9. ASSUME NEW a \in Agents, Call(a)
            PROVE  status'[t] \in Held => Kept(t) \/ Renewed(t) \/ Claimed(t)
        BY <3>9, <3>1, <3>2, <3>3, <3>4, <3>5, <3>6, <3>8
        DEF Call, ClaimNext, Eligible, Created, FailTask, ReleaseTask
      <3>10. ASSUME NEW u \in Tasks, ReapExpired(u)
             PROVE  status'[t] \in Held => Kept(t)
        BY <3>10, <3>4, <3>8 DEF ReapExpired
      <3>11. QED
        BY <1>4, <3>7, <3>9, <3>10 DEF Next, Reaper, ReaperVisit
    <2>3. QED
      BY <1>1, <1>2, <2>1, <2>2
  <1>5. QED
    BY <1>3, <1>4

(* A renewal that waited for the lock moves a deadline back by no more     *)
(* than its wait.  Needs every lease_ttl_s to be NULL or positive.         *)
THEOREM DeadlineSlip ==
  ~LateCalls /\ 0 \notin LeaseTTLs => (Spec => DeadlineSlipsByLockWait)
  <1> SUFFICES ASSUME ~LateCalls, 0 \notin LeaseTTLs
               PROVE  Spec => DeadlineSlipsByLockWait
    OBVIOUS
  <1> DEFINE D == IInv /\ Disciplined /\ DeadlineNear
             Slips == \A t \in Tasks :
                        assignee[t] # NULL /\ assignee'[t] = assignee[t] /\ status'[t] \in Held =>
                          lease_expires_at'[t] + LockWait >= lease_expires_at[t]
  <1>1. Init => D
    BY InitInv, InitDisciplined, SchedulerAssumption DEF Init, DeadlineNear, Held
  <1>2. D /\ [Next]_vars => D' /\ [Slips]_vars
    BY NextInv, NextDisciplined, DeadlineStep
  <1>3. DeadlineSlipsByLockWait <=> [][Slips]_vars
    BY DEF DeadlineSlipsByLockWait
  <1> HIDE DEF D, Slips
  <1>4. QED
    BY <1>1, <1>2, <1>3, PTL DEF Spec

-------------------------------------------------------------------------------
(* The task board implements the fenced lease, for each of its tasks and   *)
(* for every value of the constants.                                       *)

(* The lease sees of task_claims the outcome of the newest claim of a      *)
(* task: the refinement needs that this claim exists once there was one.   *)
NewestIsKept ==
  \A t \in Tasks :
    fencing_token[t] # 0 => \E c \in task_claims : c.task = t /\ c.token = fencing_token[t]

------------------------------------------------------------------------------
(* Verdicts. *)

VerdictOf(C, t, n) ==
  IF n = 0 THEN NULL ELSE (CHOOSE c \in C : c.task = t /\ c.token = n).outcome

LEMMA VerdictForm ==
  ASSUME NEW t \in Tasks
  PROVE  /\ Verdict(t) = VerdictOf(task_claims, t, fencing_token[t])
         /\ Verdict(t)' = VerdictOf(task_claims', t, fencing_token'[t])
  BY DEF Verdict, VerdictOf

LEMMA OutcomeOfNewest ==
  ASSUME NEW C, NEW t, NEW n, n # 0,
         NEW c \in C, c.task = t, c.token = n,
         \A d \in C : d.task = t /\ d.token = n => d = c
  PROVE  VerdictOf(C, t, n) = c.outcome
  <1>1. (CHOOSE d \in C : d.task = t /\ d.token = n) = c
    OBVIOUS
  <1>2. QED
    BY <1>1 DEF VerdictOf

LEMMA VerdictIs ==
  ASSUME IInv, NEW t \in Tasks,
         NEW c \in task_claims, c.task = t, c.token = fencing_token[t]
  PROVE  Verdict(t) = c.outcome
  <1>1. c.token \in 1..fencing_token[t]
        /\ \A d \in task_claims : d.task = t /\ d.token = c.token => d = c
    BY DEF IInv, ClaimInv, TokensNeverReused
  <1>2. fencing_token[t] # 0
    BY <1>1 DEF IInv, TypeOK
  <1>3. VerdictOf(task_claims, t, fencing_token[t]) = c.outcome
    BY <1>1, <1>2, OutcomeOfNewest
  <1>4. QED
    BY <1>3, VerdictForm

LEMMA VerdictWillBe ==
  ASSUME IInv', NEW t \in Tasks,
         NEW c \in task_claims', c.task = t, c.token = fencing_token'[t]
  PROVE  Verdict(t)' = c.outcome
  <1>1. c.token \in 1..fencing_token'[t]
        /\ \A d \in task_claims' : d.task = t /\ d.token = c.token => d = c
    BY DEF IInv, ClaimInv, TokensNeverReused
  <1>2. fencing_token'[t] # 0
    BY <1>1 DEF IInv, TypeOK
  <1>3. VerdictOf(task_claims', t, fencing_token'[t]) = c.outcome
    BY <1>1, <1>2, OutcomeOfNewest
  <1>4. QED
    BY <1>3, VerdictForm

LEMMA SameVerdict ==
  ASSUME NewestIsKept, UNCHANGED <<task_claims, fencing_token>>
  PROVE  NewestIsKept' /\ \A t \in Tasks : Verdict(t)' = Verdict(t)
  BY DEF NewestIsKept, Verdict

(* Closing the claims of the tasks a agent holds judges those that have no *)
(* verdict yet, and no others.                                             *)
LEMMA CloseVerdict ==
  ASSUME IInv, IInv', NewestIsKept, UNCHANGED fencing_token,
         NEW ts \in SUBSET Tasks, NEW a \in Agents, NEW o \in Outcomes \ {NULL},
         \A t \in ts : assignee[t] = a,
         task_claims' = Close(ts, a, o)
  PROVE  /\ NewestIsKept'
         /\ \A t \in Tasks :
              Verdict(t)' = IF t \in ts /\ Verdict(t) = NULL THEN o ELSE Verdict(t)
  <1> DEFINE closed(c) == IF c.task \in ts /\ c.agent = a /\ c.outcome = NULL
                          THEN [c EXCEPT !.outcome = o] ELSE c
  <1>1. ASSUME NEW c \in task_claims
        PROVE  /\ closed(c) \in task_claims'
               /\ closed(c).task = c.task /\ closed(c).token = c.token
               /\ c.task \in ts /\ c.agent = a /\ c.outcome = NULL => closed(c).outcome = o
               /\ ~(c.task \in ts /\ c.agent = a /\ c.outcome = NULL) => closed(c) = c
    <2>1. c \in Claims
      BY DEF IInv, TypeOK
    <2>2. closed(c) \in task_claims'
      BY DEF Close
    <2>3. QED
      BY <2>1, <2>2 DEF Claims
  <1> HIDE DEF closed
  <1>2. NewestIsKept'
    BY <1>1 DEF NewestIsKept
  <1>3. ASSUME NEW t \in Tasks
        PROVE  Verdict(t)' = IF t \in ts /\ Verdict(t) = NULL THEN o ELSE Verdict(t)
    <2>1. CASE fencing_token[t] = 0
      <3>1. t \notin ts
        <4>1. assignee[t] = NULL
          BY <2>1 DEF IInv, RowInv, AttemptsAreBudgeted, TypeOK
        <4>2. QED
          BY <4>1, SchedulerAssumption
      <3>2. QED
        BY <2>1, <3>1 DEF Verdict
    <2>2. CASE fencing_token[t] # 0
      <3>1. PICK c \in task_claims : c.task = t /\ c.token = fencing_token[t]
        BY <2>2 DEF NewestIsKept
      <3>2. Verdict(t) = c.outcome
        BY <3>1, VerdictIs
      <3>3. Verdict(t)' = closed(c).outcome
        BY <1>1, <3>1, VerdictWillBe
      <3>4. t \in ts /\ c.outcome = NULL => c.agent = a
        BY <3>1 DEF IInv, ClaimInv, OpenClaimIsTheHolders
      <3>5. QED
        BY <1>1, <3>1, <3>2, <3>3, <3>4
    <2>3. QED
      BY <2>1, <2>2
  <1>4. QED
    BY <1>2, <1>3

------------------------------------------------------------------------------
(* Each step of the board is a step of every task's lease. *)

LeaseStep(t) == [Lease(t)!Next]_(Lease(t)!lease)

Steps == NewestIsKept' /\ \A t \in Tasks : LeaseStep(t)

LEMMA InitSteps == Init => NewestIsKept /\ \A t \in Tasks : Lease(t)!Init
  BY SchedulerAssumption DEF Init, NewestIsKept, Lease!Init, Verdict

(* What the lease does not see. *)
LEMMA Stutter ==
  ASSUME NEW t \in Tasks, Verdict(t)' = Verdict(t), clock' = clock,
         assignee'[t] = assignee[t], fencing_token'[t] = fencing_token[t],
         lease_expires_at'[t] = lease_expires_at[t], attempts'[t] = attempts[t]
  PROVE  LeaseStep(t)
  BY DEF LeaseStep, Lease!lease

LEMMA QuietSteps ==
  ASSUME NewestIsKept, clock' = clock,
         UNCHANGED <<assignee, fencing_token, lease_expires_at, attempts, task_claims>>
  PROVE  Steps
  BY SameVerdict, Stutter DEF Steps

LEMMA ClaimSteps ==
  ASSUME IInv, IInv', NewestIsKept, NEW a \in Agents, NEW u \in Tasks, ClaimTask(a, u)
  PROVE  Steps
  <1> DEFINE new == [task |-> u, agent |-> a, token |-> NextToken(u), outcome |-> NULL]
  <1>1. /\ task_claims' = task_claims \cup {new}
        /\ new.task = u /\ new.token = fencing_token'[u] /\ new.outcome = NULL
        /\ fencing_token'[u] = fencing_token[u] + 1
        /\ \A t \in Tasks \ {u} : fencing_token'[t] = fencing_token[t]
    BY DEF ClaimTask, NextToken, IInv, TypeOK
  <1> HIDE DEF new
  <1>2. NewestIsKept'
    <2>1. ASSUME NEW t \in Tasks \ {u}, fencing_token'[t] # 0
          PROVE  \E c \in task_claims' : c.task = t /\ c.token = fencing_token'[t]
      BY <1>1, <2>1 DEF NewestIsKept
    <2>2. \E c \in task_claims' : c.task = u /\ c.token = fencing_token'[u]
      BY <1>1
    <2>3. QED
      BY <2>1, <2>2 DEF NewestIsKept
  <1>3. Verdict(u)' = NULL
    BY <1>1, VerdictWillBe
  <1>4. ASSUME NEW t \in Tasks \ {u} PROVE LeaseStep(t)
    <2>1. Verdict(t)' = Verdict(t)
      <3>1. CASE fencing_token[t] = 0
        BY <1>1, <3>1 DEF Verdict
      <3>2. CASE fencing_token[t] # 0
        <4>1. PICK c \in task_claims : c.task = t /\ c.token = fencing_token[t]
          BY <3>2 DEF NewestIsKept
        <4>2. QED
          BY <1>1, <4>1, VerdictIs, VerdictWillBe
      <3>3. QED
        BY <3>1, <3>2
    <2>2. QED
      BY <2>1, Stutter DEF ClaimTask, IInv, TypeOK
  <1>5. Lease(u)!Acquire
    <2>1. assignee[u] = NULL /\ attempts[u] < MaxAttempts
      <3>1. status[u] = "open"
        BY DEF ClaimTask, Claimable
      <3>2. assignee[u] = NULL
        BY <3>1 DEF IInv, RowInv, LeaseMatchesStatus, Held
      <3>3. attempts[u] \in Nat /\ attempts[u] <= MaxAttempts /\ attempts[u] # MaxAttempts
        BY <3>1 DEF IInv, RowInv, AttemptsAreBudgeted, TypeOK
      <3>4. QED
        BY <3>2, <3>3, SchedulerAssumption
    <2>2. assignee'[u] = a /\ lease_expires_at'[u] = clock + ClaimTTL(u)
      BY DEF ClaimTask, IInv, TypeOK
    <2>3. clock + ClaimTTL(u) \in Nat
      BY TTLType DEF IInv, TypeOK
    <2>4. attempts' = attempts /\ clock' = clock
      BY DEF ClaimTask
    <2>5. QED
      BY <1>1, <1>3, <2>1, <2>2, <2>3, <2>4 DEF Lease!Acquire, Lease!Free
  <1>6. LeaseStep(u)
    BY <1>5 DEF LeaseStep, Lease!Next
  <1>7. QED
    BY <1>2, <1>4, <1>6 DEF Steps

(* progress and heartbeats renew. *)
LEMMA RenewSteps ==
  ASSUME IInv, NewestIsKept, clock' = clock,
         UNCHANGED <<assignee, fencing_token, attempts, task_claims>>,
         \A t \in Tasks : \/ lease_expires_at'[t] = lease_expires_at[t]
                          \/ assignee[t] # NULL /\ lease_expires_at'[t] \in Nat
  PROVE  Steps
  <1>1. NewestIsKept' /\ \A t \in Tasks : Verdict(t)' = Verdict(t)
    BY SameVerdict
  <1>2. ASSUME NEW t \in Tasks PROVE LeaseStep(t)
    <2>1. CASE lease_expires_at'[t] = lease_expires_at[t]
      BY <1>1, <2>1, Stutter
    <2>2. CASE assignee[t] # NULL /\ lease_expires_at'[t] \in Nat
      <3>1. Lease(t)!Serve
        BY <1>1, <2>2 DEF Lease!Serve, Lease!Free
      <3>2. QED
        BY <3>1 DEF LeaseStep, Lease!Next
    <2>3. QED
      BY <2>1, <2>2
  <1>3. QED
    BY <1>1, <1>2 DEF Steps

LEMMA CompleteSteps ==
  ASSUME IInv, IInv', NewestIsKept, NEW a \in Agents, NEW u \in Tasks, NEW n,
         CompleteTask(a, u, n)
  PROVE  Steps
  <1>1. assignee[u] = a /\ a # NULL /\ {u} \in SUBSET Tasks /\ "done" \in Outcomes \ {NULL}
    BY SchedulerAssumption DEF CompleteTask, Fence, Outcomes
  <1>2. UNCHANGED <<assignee, fencing_token, attempts, clock>>
        /\ task_claims' = Close({u}, a, "done")
    BY DEF CompleteTask
  <1>3. NewestIsKept'
        /\ \A t \in Tasks :
             Verdict(t)' = IF t \in {u} /\ Verdict(t) = NULL THEN "done" ELSE Verdict(t)
    BY <1>1, <1>2, CloseVerdict
  <1>4. lease_expires_at'[u] = NULL
        /\ \A t \in Tasks \ {u} : lease_expires_at'[t] = lease_expires_at[t]
    BY DEF CompleteTask, IInv, TypeOK
  <1>5. Lease(u)!Complete
    BY <1>1, <1>2, <1>3, <1>4 DEF Lease!Complete, Lease!Free, Lease!Judge
  <1>6. LeaseStep(u)
    BY <1>5 DEF LeaseStep, Lease!Next
  <1>7. ASSUME NEW t \in Tasks \ {u} PROVE LeaseStep(t)
    BY <1>2, <1>3, <1>4, Stutter
  <1>8. QED
    BY <1>3, <1>6, <1>7 DEF Steps

(* A held task goes back, by its holder or by the reaper. *)
LEMMA ReturnSteps ==
  ASSUME IInv, IInv', NewestIsKept, NEW u \in Tasks, assignee[u] # NULL, NEW s,
         UNCHANGED <<fencing_token, clock>>,
         \/ Return(u, assignee[u], s, "failed") /\ Charge(u)
         \/ Return(u, assignee[u], s, "released") /\ UNCHANGED attempts
         \/ Return(u, assignee[u], s, "expired") /\ Charge(u) /\ Expired(u)
  PROVE  Steps
  <1> DEFINE a == assignee[u]
  <1>1. a \in Agents /\ {u} \in SUBSET Tasks
        /\ {"failed", "released", "expired"} \subseteq Outcomes \ {NULL}
    BY SchedulerAssumption DEF IInv, TypeOK, Outcomes
  <1>2. /\ assignee'[u] = NULL /\ lease_expires_at'[u] = NULL
        /\ \A t \in Tasks \ {u} : /\ assignee'[t] = assignee[t]
                                  /\ lease_expires_at'[t] = lease_expires_at[t]
                                  /\ attempts'[t] = attempts[t]
    BY DEF Return, Charge, IInv, TypeOK
  <1>3. ASSUME NEW o \in {"failed", "released", "expired"}, Return(u, a, s, o)
        PROVE  /\ NewestIsKept' /\ Verdict(u)' = IF Verdict(u) = NULL THEN o ELSE Verdict(u)
               /\ \A t \in Tasks \ {u} : LeaseStep(t)
    <2>1. task_claims' = Close({u}, a, o) /\ o \in Outcomes \ {NULL}
      BY <1>1, <1>3 DEF Return
    <2>2. NewestIsKept'
          /\ \A t \in Tasks :
               Verdict(t)' = IF t \in {u} /\ Verdict(t) = NULL THEN o ELSE Verdict(t)
      BY <1>1, <2>1, CloseVerdict
    <2>3. \A t \in Tasks \ {u} : LeaseStep(t)
      BY <1>2, <2>2, Stutter
    <2>4. QED
      BY <2>2, <2>3
  <1>4. CASE Return(u, a, s, "failed") /\ Charge(u)
    <2>1. attempts'[u] = attempts[u] + 1
      BY <1>4 DEF Charge, IInv, TypeOK
    <2>2. Lease(u)!GiveBack
      BY <1>2, <1>3, <1>4, <2>1 DEF Lease!GiveBack, Lease!Free, Lease!Judge
    <2>3. QED
      BY <1>3, <1>4, <2>2 DEF Steps, LeaseStep, Lease!Next
  <1>5. CASE Return(u, a, s, "released") /\ UNCHANGED attempts
    <2>1. Lease(u)!GiveBack
      BY <1>2, <1>3, <1>5 DEF Lease!GiveBack, Lease!Free, Lease!Judge
    <2>2. QED
      BY <1>3, <1>5, <2>1 DEF Steps, LeaseStep, Lease!Next
  <1>6. CASE Return(u, a, s, "expired") /\ Charge(u) /\ Expired(u)
    <2>1. attempts'[u] = attempts[u] + 1
      BY <1>6 DEF Charge, IInv, TypeOK
    <2>2. lease_expires_at[u] # NULL /\ lease_expires_at[u] < clock
      BY <1>6 DEF Expired
    <2>3. Lease(u)!Evict
      BY <1>2, <1>3, <1>6, <2>1, <2>2 DEF Lease!Evict, Lease!Free, Lease!Judge
    <2>4. QED
      BY <1>3, <1>6, <2>3 DEF Steps, LeaseStep, Lease!Next
  <1>7. QED
    BY <1>4, <1>5, <1>6

LEMMA LeaveSteps ==
  ASSUME IInv, IInv', NewestIsKept, NEW a \in Agents, LeaveTeam(a)
  PROVE  Steps
  <1> DEFINE R == {t \in Tasks : assignee[t] = a /\ status[t] \in Leased}
  <1>1. /\ task_claims' = Close(R, a, "released") /\ R \in SUBSET Tasks
        /\ \A t \in R : assignee[t] = a
        /\ \A t \in R : assignee'[t] = NULL /\ lease_expires_at'[t] = NULL
        /\ \A t \in Tasks \ R : /\ assignee'[t] = assignee[t]
                               /\ lease_expires_at'[t] = lease_expires_at[t]
    BY DEF LeaveTeam
  <1>2. UNCHANGED <<fencing_token, attempts, clock>>
    BY DEF LeaveTeam
  <1>3. "released" \in Outcomes \ {NULL} /\ a # NULL
    BY SchedulerAssumption DEF Outcomes
  <1> HIDE DEF R
  <1>4. NewestIsKept'
        /\ \A t \in Tasks :
             Verdict(t)' = IF t \in R /\ Verdict(t) = NULL THEN "released" ELSE Verdict(t)
    BY <1>1, <1>2, <1>3, CloseVerdict
  <1>5. ASSUME NEW t \in R PROVE LeaseStep(t)
    <2>1. Lease(t)!GiveBack
      BY <1>1, <1>2, <1>3, <1>4 DEF Lease!GiveBack, Lease!Free, Lease!Judge
    <2>2. QED
      BY <2>1 DEF LeaseStep, Lease!Next
  <1>6. ASSUME NEW t \in Tasks \ R PROVE LeaseStep(t)
    BY <1>1, <1>2, <1>4, Stutter
  <1>7. QED
    BY <1>4, <1>5, <1>6 DEF Steps

LEMMA TickSteps ==
  ASSUME IInv, NewestIsKept, Tick
  PROVE  Steps
  <1>1. NewestIsKept' /\ \A t \in Tasks : Verdict(t)' = Verdict(t)
    BY SameVerdict DEF Tick, columns
  <1>2. UNCHANGED <<assignee, fencing_token, lease_expires_at, attempts>> /\ clock' = clock + 1
    BY DEF Tick, columns
  <1>3. ASSUME NEW t \in Tasks PROVE LeaseStep(t)
    <2>1. Lease(t)!Tick
      BY <1>1, <1>2 DEF Lease!Tick
    <2>2. QED
      BY <2>1 DEF LeaseStep, Lease!Next
  <1>4. QED
    BY <1>1, <1>3 DEF Steps

LEMMA CallSteps ==
  ASSUME IInv, IInv', NewestIsKept, NEW a \in Agents, Call(a)
  PROVE  Steps
  <1>1. CASE ClaimNext(a)
    BY <1>1, ClaimSteps DEF ClaimNext, Eligible, Created
  <1>2. CASE LeaveTeam(a)
    BY <1>2, LeaveSteps
  <1>3. ASSUME NEW r, NEW now \in ReadClock, Heartbeat(a, r, now)
        PROVE  Steps
    <2>1. \A t \in Tasks : now + RenewTTL(t) \in Nat
      BY TTLType DEF ReadClock, IInv, TypeOK
    <2>2. \A t \in Tasks : \/ lease_expires_at'[t] = lease_expires_at[t]
                           \/ assignee[t] # NULL /\ lease_expires_at'[t] \in Nat
      BY <1>3, <2>1, SchedulerAssumption DEF Heartbeat
    <2>3. clock' = clock /\ UNCHANGED <<assignee, fencing_token, attempts, task_claims>>
      BY <1>3 DEF Heartbeat
    <2>4. QED
      BY <2>2, <2>3, RenewSteps
  <1>4. ASSUME NEW t \in Tasks, NEW n, NEW s, NEW now \in ReadClock, Progress(a, t, n, s, now)
        PROVE  Steps
    <2>1. now + RenewTTL(t) \in Nat /\ assignee[t] # NULL
      BY <1>4, TTLType, SchedulerAssumption DEF ReadClock, IInv, TypeOK, Progress, Fence
    <2>2. \A v \in Tasks : \/ lease_expires_at'[v] = lease_expires_at[v]
                           \/ assignee[v] # NULL /\ lease_expires_at'[v] \in Nat
      BY <1>4, <2>1 DEF Progress, IInv, TypeOK
    <2>3. clock' = clock /\ UNCHANGED <<assignee, fencing_token, attempts, task_claims>>
      BY <1>4 DEF Progress
    <2>4. QED
      BY <2>2, <2>3, RenewSteps
  <1>5. ASSUME NEW t \in Tasks, NEW n, FailTask(a, t, n) \/ ReleaseTask(a, t, n)
        PROVE  Steps
    <2>1. assignee[t] = a /\ assignee[t] # NULL /\ UNCHANGED <<fencing_token, clock>>
      BY <1>5, SchedulerAssumption DEF FailTask, ReleaseTask, Fence
    <2>2. QED
      BY <1>5, <2>1, ReturnSteps DEF FailTask, ReleaseTask
  <1>6. QED
    BY <1>1, <1>2, <1>3, <1>4, <1>5, ClaimSteps, CompleteSteps DEF Call

LEMMA ReaperSteps ==
  ASSUME IInv, IInv', NewestIsKept, Reaper
  PROVE  Steps
  <1>1. CASE ReaperScan \/ SweepLost \/ \E t \in Tasks : ReapSkip(t)
    BY <1>1, QuietSteps DEF ReaperScan, SweepLost, ReapSkip, columns
  <1>2. ASSUME NEW t \in Tasks, ReapExpired(t)
        PROVE  Steps
    <2>1. Expired(t) /\ UNCHANGED <<fencing_token, clock>>
          /\ Return(t, assignee[t], AfterCharge(t), "expired") /\ Charge(t)
      BY <1>2 DEF ReapExpired, StillExpired
    <2>2. assignee[t] # NULL
      BY <2>1 DEF Expired, IInv, RowInv, LeaseMatchesStatus, Leased, Held
    <2>3. QED
      BY <2>1, <2>2, ReturnSteps
  <1>3. QED
    BY <1>1, <1>2 DEF Reaper, ReaperVisit

LEMMA NextSteps ==
  ASSUME IInv, IInv', NewestIsKept, [Next]_vars
  PROVE  Steps
  <1>1. CASE Create
    BY <1>1, QuietSteps DEF Create, CreateTask
  <1>2. CASE UNCHANGED vars
    BY <1>2, QuietSteps DEF vars, columns
  <1>3. QED
    BY <1>1, <1>2, CallSteps, ReaperSteps, TickSteps DEF Next

(* The board is a correct implementation of the lease it promises: one     *)
(* holder at a time, a new epoch per acquisition and never while the work  *)
(* is held, one verdict per epoch, eviction only of an expired holder, and *)
(* no acquisition once the strikes are used up.                            *)
THEOREM BoardImplementsLease == Spec => ImplementsFencedLease
  <1>1. Init => NewestIsKept /\ \A t \in Tasks : Lease(t)!Init
    BY InitSteps
  <1>2. IInv /\ IInv' /\ NewestIsKept /\ [Next]_vars
        => NewestIsKept' /\ [\A t \in Tasks : [Lease(t)!Next]_(Lease(t)!lease)]_vars
    BY NextSteps DEF Steps, LeaseStep
  <1>3. QED
    BY <1>1, <1>2, Invariance, PTL DEF Spec, ImplementsFencedLease
===============================================================================
