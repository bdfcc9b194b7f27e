------------------------------- MODULE Poller -------------------------------
(***************************************************************************)
(* The worker poller: one process that claims one directive at a time, has *)
(* the claude executor carry it out, retries what failed for a passing     *)
(* reason, and keeps two things in a file across its own restarts: the     *)
(* session to resume and what it has spent.  The process may be killed     *)
(* between any two steps, and any write of the file may fail.              *)
(*                                                                         *)
(* What the server makes of a claim and of a report is Directives' part:   *)
(* whether they are answered changes nothing here.  A directive that is    *)
(* delivered again counts as another.                                      *)
(***************************************************************************)
EXTENDS Integers, Sequences, FiniteSets

CONSTANTS
  Budget,        \* --cost-budget, 0 for none
  MaxRetries,    \* --max-retries
  MaxCost,       \* what an attempt costs at most
  None,          \* no session
  MaxDirectives, \* bound on the directives claimed
  MaxSessions,   \* bound on the sessions executors open
  MaxFaults      \* bound on kills and failed writes

ASSUME PollerAssumption ==
  /\ {Budget, MaxRetries, MaxCost, MaxDirectives, MaxSessions, MaxFaults} \subseteq Nat
  /\ None \notin Int

VARIABLES
  file,      \* the state file: session_id and the spent totals
  stage,     \* where the process is: down, idle, working, told, heard
  mode,      \* its --session-mode: resume or fresh
  sid,       \* its session_id
  spent,     \* its spent totals
  directive, \* the directive it has claimed last
  attempt,   \* retries made of it
  retry,     \* its retry_sid
  resumed,   \* the session the executor under way was given to resume
  ended,     \* how the executor ended, the session it told and what it cost
  holds,     \* per session opened so far, the directives it has worked on
  heard,     \* history: the directives whose session the poller has heard
             \* of in resume mode
  silent,    \* history: the first attempt at the directive told no session
  unsaved,   \* history: the last write of the session failed
  lost,      \* history: the process was killed when it had
  paid,      \* history: what executors told they cost since the last reset
  slips,     \* history: failed writes of a new total, and kills before it was
             \* written, since then
  faults     \* kills and failed writes so far

process == <<stage, mode, sid, spent, directive, attempt, retry, resumed, ended>>
past    == <<heard, silent, unsaved, lost, paid, slips>>
vars    == <<file, process, holds, past, faults>>

NoEnd == [kind |-> "ok", session |-> None, cost |-> 0]

Init ==
  /\ file = [session |-> None, spent |-> 0]
  /\ stage = "down" /\ mode = "resume" /\ sid = None /\ spent = 0 /\ directive = 0
  /\ attempt = 0 /\ retry = None /\ resumed = None /\ ended = NoEnd
  /\ holds = <<>>
  /\ heard = {} /\ silent = FALSE /\ unsaved = FALSE /\ lost = FALSE
  /\ paid = 0 /\ slips = 0 /\ faults = 0

Fresh == Len(holds) + 1
HeldBy(s) == IF s = None THEN {} ELSE holds[s]
OverBudget(total) == Budget > 0 /\ total >= Budget

-----------------------------------------------------------------------------
(* The state file.  A write merges one field into what the file holds and  *)
(* replaces it at a stroke; one that fails is only warned about.           *)

(* Mutant of Merge: the file would be only what is written.                *)
Overwrite(f, field, value) == [[session |-> None, spent |-> 0] EXCEPT ![field] = value]

Merge(f, field, value) == [f EXCEPT ![field] = value]

Written(f, field, value, failing) == IF field \in failing THEN f ELSE Merge(f, field, value)

WithSession(f, m, s, failing) == IF m = "resume" THEN Written(f, "session", s, failing) ELSE f

Failing(failing) ==
  /\ faults' = faults + Cardinality(failing)
  /\ faults' <= MaxFaults

-----------------------------------------------------------------------------
(* The process starts: it loads its session, or takes the one it is given  *)
(* to start from, and its totals, after zeroing them if it is told to.     *)
Start(m, seed, reset, failing) ==
  LET loaded == IF m = "resume" THEN file.session ELSE None
      seeded == IF seed /\ loaded = None THEN WithSession(file, m, Fresh, failing) ELSE file
      begun  == IF reset THEN Written(seeded, "spent", 0, failing) ELSE seeded
  IN  /\ stage = "down"
      /\ Failing(failing)
      /\ "session" \in failing => m = "resume" /\ seed /\ loaded = None
      /\ "spent" \in failing => reset
      /\ seed => Len(holds) < MaxSessions
      /\ IF seed /\ loaded = None
         THEN sid' = Fresh /\ holds' = Append(holds, {})
         ELSE sid' = loaded /\ holds' = holds
      /\ file' = begun /\ spent' = begun.spent
      /\ stage' = "idle" /\ mode' = m
      /\ paid' = IF reset THEN 0 ELSE paid
      /\ slips' = IF reset THEN 0 ELSE slips
      /\ unsaved' = (seed /\ loaded = None /\ "session" \in failing)
      /\ UNCHANGED <<directive, attempt, retry, resumed, ended, heard, silent, lost>>

Run(s) == stage' = "working" /\ resumed' = s

(* Mutant of FirstResumes: in fresh mode too. *)
AlwaysResumes == sid

FirstResumes == IF mode = "resume" THEN sid ELSE None

(* It claims a directive and runs it; over its budget, it claims nothing.  *)
Claim ==
  /\ stage = "idle"
  /\ ~OverBudget(spent)
  /\ directive < MaxDirectives
  /\ directive' = directive + 1 /\ attempt' = 0 /\ retry' = None
  /\ Run(FirstResumes)
  /\ UNCHANGED <<file, mode, sid, spent, ended, holds, past, faults>>

(* The executor ends and tells the session it worked in, the one it        *)
(* resumed or another that continues it; or it tells none, because it was  *)
(* stopped at its timeout or printed something else, and the session it    *)
(* was passed stands in for it.                                            *)
Passed == IF attempt > 0 THEN retry ELSE sid

End(kind, told, cost) ==
  /\ stage = "working"
  /\ stage' = "told"
  /\ told = Fresh => Fresh <= MaxSessions
  /\ ended' = [kind |-> kind, session |-> IF told = None THEN Passed ELSE told, cost |-> cost]
  /\ holds' = IF told = None THEN holds
              ELSE IF told = Fresh THEN Append(holds, HeldBy(resumed) \cup {directive})
              ELSE [holds EXCEPT ![told] = @ \cup {directive}]
  /\ paid' = paid + cost
  /\ silent' = IF attempt = 0 THEN told = None ELSE silent
  /\ UNCHANGED <<file, mode, sid, spent, directive, attempt, retry, resumed,
                 heard, unsaved, lost, slips, faults>>

Ends == \E kind \in {"ok", "transient", "permanent"}, told \in {None, resumed, Fresh} :
          \E cost \in 0..MaxCost : End(kind, told, cost)

(* It keeps the session, and saves it if it is another than before.        *)
Keep(failing) ==
  LET s == ended.session
      other == s # None /\ s # sid
  IN  /\ stage = "told"
      /\ stage' = "heard"
      /\ Failing(failing)
      /\ failing # {} => other /\ mode = "resume"
      /\ sid' = IF other THEN s ELSE sid
      /\ file' = IF other THEN WithSession(file, mode, s, failing) ELSE file
      /\ retry' = IF s # None THEN s ELSE retry
      /\ heard' = IF mode = "resume" THEN heard \cup (HeldBy(s) \cap {directive}) ELSE heard
      /\ unsaved' = IF other THEN failing # {} ELSE unsaved
      /\ UNCHANGED <<mode, spent, directive, attempt, resumed, ended, holds, silent, lost, paid, slips>>

(* Mutant of MayRetry: without the look at the budget. *)
MayRetryAtAnyCost(n, total) == ended.kind = "transient" /\ n < MaxRetries

MayRetry(n, total) == ended.kind = "transient" /\ n < MaxRetries /\ ~OverBudget(total)

Again == attempt' = attempt + 1 /\ Run(retry)

(* It adds what the attempt cost to its totals and saves them; then it     *)
(* tries again, or reports the directive and is done with it.              *)
Account(failing) ==
  LET total == spent + ended.cost
  IN  /\ stage = "heard"
      /\ Failing(failing)
      /\ failing # {} => ended.cost > 0
      /\ spent' = total
      /\ file' = IF ended.cost > 0 THEN Written(file, "spent", total, failing) ELSE file
      /\ slips' = slips + Cardinality(failing)
      /\ \/ MayRetry(attempt, total) /\ Again
         \/ ~MayRetry(attempt, total) /\ stage' = "idle" /\ UNCHANGED <<attempt, resumed>>
      /\ UNCHANGED <<mode, sid, directive, retry, ended, holds, heard, silent, unsaved, lost, paid>>

(* The process is killed: what it had in memory is gone.                   *)
Kill ==
  /\ stage # "down"
  /\ faults < MaxFaults /\ faults' = faults + 1
  /\ stage' = "down" /\ mode' = "resume" /\ sid' = None /\ spent' = 0
  /\ attempt' = 0 /\ retry' = None /\ resumed' = None /\ ended' = NoEnd
  /\ lost' = (lost \/ unsaved)
  /\ silent' = FALSE /\ unsaved' = FALSE
  /\ slips' = IF stage \in {"told", "heard"} /\ ended.cost > 0 THEN slips + 1 ELSE slips
  /\ UNCHANGED <<file, directive, holds, heard, paid>>

-----------------------------------------------------------------------------
Step == \/ \E m \in {"resume", "fresh"}, seed, reset \in BOOLEAN :
             \E failing \in SUBSET {"session", "spent"} : Start(m, seed, reset, failing)
        \/ Claim
        \/ Ends
        \/ \E failing \in SUBSET {"session"} : Keep(failing)
        \/ \E failing \in SUBSET {"spent"} : Account(failing)

Next == Step \/ Kill

Spec == Init /\ [][Next]_vars

-----------------------------------------------------------------------------
(* Every variable keeps its type; a directive is retried at most           *)
(* MaxRetries times, and the file is never ahead of the process            *)
(* (main, _write_state).                                                   *)
PollerTypeOK ==
  /\ file.session \in DOMAIN holds \cup {None} /\ file.spent \in Nat
  /\ stage \in {"down", "idle", "working", "told", "heard"}
  /\ {sid, retry, resumed, ended.session} \subseteq DOMAIN holds \cup {None}
  /\ spent \in Nat /\ ended.cost \in 0..MaxCost
  /\ directive \in 0..MaxDirectives
  /\ attempt \in 0..MaxRetries
  /\ \A s \in DOMAIN holds : holds[s] \subseteq 1..directive
  /\ heard \subseteq 1..directive
  /\ stage # "down" => file.spent <= spent

(* The attempts together overrun the budget by less than what one costs,   *)
(* retries included and across restarts; each total whose write failed and *)
(* each kill between an attempt's end and that write lets through at most  *)
(* one more (over_budget before a claim and before a retry,                *)
(* save_usage_totals after every attempt).                                 *)
BudgetHolds == Budget > 0 => paid < Budget + MaxCost * (1 + slips)

(* In resume mode every attempt, a retry and the first one after a restart *)
(* included, is given a session that holds all the directives whose        *)
(* session the poller has heard of in that mode, unless it was killed      *)
(* after a failed write of the session: runs in fresh mode in between      *)
(* change nothing (retry_sid, save_session_id, load_session_id).           *)
Remembers == mode = "resume" /\ stage = "working" /\ ~lost => heard \subseteq HeldBy(resumed)

(* "The fresh-vs-resume distinction is still honored across directives"    *)
(* (build_claude_cmd): in fresh mode a directive's first attempt resumes   *)
(* nothing, and its retries no session of another directive, provided that *)
(* its first attempt told one.  (One that tells none hands back the        *)
(* session of the directive before, and the retry resumes that.)           *)
FreshStaysApart ==
  mode = "fresh" /\ stage = "working" /\ (attempt = 0 \/ ~silent) =>
    HeldBy(resumed) \subseteq {directive}
=============================================================================
