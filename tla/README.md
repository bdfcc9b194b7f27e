# ATMcp in TLA+

TLA+ models, TLC runs and TLAPS proofs for ATMcp, the coordination server for teams of coding
agents (`atmcp/`) and its worker scripts (`scripts/`). Paths and line numbers below are those of the
repository.

## 1. The system

ATMcp is one asyncio process over SQLite. Agents and consoles call it through MCP tools
(`atmcp/mcp_server.py`) and HTTP routes (`atmcp/web.py`), both thin; the services in
`atmcp/services/` do the work. Redis, if there is one, holds who is present and copies of what SQLite and the process know. Worker scripts
poll the server over HTTP and run executors.

Three mechanisms carry everything else:

* **Writes** run in `db.transaction()` (`atmcp/db.py:151-166`): one process-wide asyncio lock, one
  connection, `BEGIN IMMEDIATE ... COMMIT`. Between two writes anything may happen; inside one,
  nothing does. Reads use another connection and are not ordered with writes at all. What a handler
  did *before* it got the lock (read the clock, choose a candidate) may be stale when it goes on.
* **Announcements** run after the lock is released: the events a transaction collected go to Redis,
  to the dashboards, and then move the team's generation counter (`atmcp/hub.py`), which wakes the
  long-polls. They are best effort.
* **Clients** are not trusted to be alive. Calls time out and are served late; answers get lost;
  agents crash. Tasks are protected by leases and fencing tokens; directives by claims only.

### Inventory

| Component | State | Operations | What is hard | What makes it correct |
|---|---|---|---|---|
| Task scheduling (`services/tasks.py`) | tasks, task_deps, task_claims, agents.current_task_id | create, claim, claim_next, progress, complete, fail, release | zombies with old tokens, late and repeated calls, races for one claim | one holder; every effect under the newest token; attempts bounded; dependencies done before work |
| Lease reaper (`reaper.py`) | candidates of a sweep | scan, one locked visit per candidate | the candidate is stale when its turn comes; sweeps fail | evicts only what has expired; everything expired is requeued |
| Presence, identity, session binding (`presence.py`, `identity.py`, `session.py`) | agents, sessions in the process, Redis keys | join, leave, heartbeat, resolve | calls of one session overlap; Redis fails and forgets; restarts | a session acts as the agent it joined as; who left is not shown |
| Events, output, sync (`events.py`, `output.py`, `status.py`, `sessions.py`) | event log, output rows | append, long-poll reads | a row announced between the read and the wait; cursors | no lost wake-up; nothing missed, nothing twice |
| Hub, publisher, dashboard feed (`hub.py`, `db.py`, `web.py`, `static/dashboard.js`) | generation, waiters, sockets; the page's head | announce, broadcast, register, backfill, snapshot | backfill against live events, slow and lost sockets, lost announcements | no gap between a backfill, up to its limit, and live events; announcements end |
| Directive bus (`services/directives.py`) | directives | send, inbox, claim, report, cancel | two workers, late claims and reports, no lease | executed once; results final |
| Workbench host (`scripts/`) | lanes, inbox answer, claim in flight | poll, claim, run, report | a stale inbox answer, timeouts, crashes | one turn per thread, capacity kept, lanes freed |
| Worker poller (`scripts/`) | session to resume, spent totals, the file with both | claim, run, retry, save | kills between two steps, failed writes, silent executors | budget kept; the session remembers |
| Write transaction (`db.py`) | write connection, lock | begin, write, commit, roll back | cancellation at each await | writes are serial; the lock is free and the connection clean afterwards |
| Idempotency (`idempotency.py`) | stored results | check, store, prune | retries after the answer got lost, pruning | one effect per key while it is kept; repetitions hear the truth |
| Shared memory (`memory.py`, `clock.py`) | values, history, Lamport clock | set, compare-and-swap, get | concurrent writers | no lost update; the newest write is shown |
| Knowledge (`knowledge.py`) | contributions, projection, text index | post, retract, search | three tables kept in step by hand | the projection is what the log says, the last operation on a content winning |
| Command guard (`guard.py`, host) | rules, approval requests | check, ask, resolve, prune | rules change while a human thinks; the server cannot be reached | a command runs only as decided |
| Thread memory (`sessions.py`, host) | server copy, file of each host | load, save | the two copies diverge; reads and writes fail unnoticed | a turn remembers the last one saved; a copy is whole |

`PROJECT.json` lists the components with their status, and under `hazards` the lines where each
difficulty bites with the properties that would catch it.

## 2. Modules

| Module | Models | Composes / implements |
|---|---|---|
| `FencedLease` | What the task board promises about one task: a lease in epochs. | abstract specification |
| `TaskScheduler` | Task board, reaper, and the parts of presence and identity that write tasks. | implements `FencedLease` for every task |
| `LongPoll` | Readers that follow the event log or an output stream, and the writers' announcements. | |
| `WriteTransaction` | `db.transaction` statement by statement, and its publisher. | |
| `LiveFeed` | The dashboard feed: sockets and pages. | extends `WriteTransaction`; implements the writers' side of `LongPoll` |
| `OneShot` | What the bus promises about one instruction: one grant, one execution, one answer. | abstract specification |
| `Directives` | The directives of one agent, the hosts and pollers that serve it, the network between them. | implements `OneShot` for every directive |
| `Poller` | What a poller does in a turn, and its state file. | the inside of a poller's turn in `Directives` |
| `Warrant` | What the command guard promises about one command: it is run once, on somebody's word. | abstract specification |
| `HostTurn` | The turns of a thread in a host: its memory and the command guard. | the inside of a host's turn in `Directives`; implements `Warrant` for every turn |
| `SharedState` | Shared memory, knowledge, idempotency keys. | |
| `Membership` | Joining, leaving, sessions, presence keys. | |
| `*_proofs` | The theorems about a module, its refinement among them; `LiveFeed_proofs` has those of `WriteTransaction` too. | |
| `MC*` | Small instances; the `.cfg` files give the constants. | |

### TaskScheduler

One variable per column of `tasks` the control depends on (`status`, `assignee`, `fencing_token`,
`lease_expires_at`, `lease_ttl_s`, `priority`, `attempts`), `depends_on` for `task_deps`, the rows of
`task_claims`, `current_task` for `agents.current_task_id`, the `candidates` a reaper sweep has still
to visit, and `clock`. `lastServed` is history: the token of the last call that changed the task.

Each tool is one action, since it is one transaction: `CreateTask`, `ClaimTask`, `ClaimNext`,
`Progress`, `CompleteTask`, `FailTask`, `ReleaseTask`, `Heartbeat`, `LeaveTeam`. A refused call
writes nothing, so it is a stuttering step. What is not atomic in the code is not atomic here:
`ReaperScan` reads the candidates outside the lock and `ReaperVisit` takes one at a time, comparing
again under the lock (`reaper.py:27-47`); handlers that read the clock before they wait for the lock
take `now` from `ReadClock`, up to `LockWait` ticks old. `SweepLost` is a sweep that raises, or a
restart of the server.

A client may call with any token it was ever granted and never used up: that is a zombie's, a late
or a duplicated call. With `LateCalls` it may even use a claim it ended itself.

The two readings of `lease_ttl_s` are kept apart, as the code has them: `ClaimTTL` (`or`: 0 means
the default) and `RenewTTL` (`COALESCE`: 0 means 0).

### LongPoll

`rows` is the committed table in id order, one tag per row. `Commit` makes the rows of one
transaction, any number of them, visible;
`Announce`, later and in any order, moves `gen`; `AnnounceLost` is a publisher cancelled after the
commit; `Restart` loses the hub's memory. A reader goes through the steps of `sync`, `get_output`
and `session_output`, one action per await: remember the generation, read, wait, read again, answer.
An answer may be dropped. Where a reader goes on is the client's choice, and `NextCursor` has both:
from the last row it got, as `workbench.js:125-135` does chunk by chunk, or (`ByHead`) from the
`head_seq` of the answer, as `workbench.js:158-160` does after loading a thread and as the tool's
description and the team skill tell agents to. What holds of the first, `longpoll_head` refutes of
the second.

### WriteTransaction and LiveFeed

`pc` is where each of the server's tasks is in `db.transaction`: queued for the lock, at
`BEGIN IMMEDIATE` (which the code awaits *before* its `try`), writing, at the rollback of an
exception, announcing. The connection runs its statements in a thread of its own: a cancellation
while a statement is awaited does not undo it. So `CancelledAtBegin` leaves a transaction open, and
a cancellation at `COMMIT` finds the rows committed and nobody to announce them (`lost`).

`LiveFeed` refines the announcing: `Broadcast` takes one event and the sockets registered at that
moment, `SendFrame` is one awaited send, `Publish` moves the generation when the batch is through.
A socket's handler registers first, then reads the backfill, then sends it, so live events and
backfill mix. `ReadBackfill` takes the oldest `BackfillLimit` events after the page's head (1000 in
the code), and `Hello` sends the head, which is beyond them when there are more. Of a page only its
head is kept: frames, hello and snapshots move it, and it connects again with it. `got` and `upto` are
history: what came over this connection, and the newest event when the backfill was read.
`ImplementsLongPoll` maps the rows, announcements and losses to `LongPoll`
with no readers: what the readers' proofs assume of writers is what the transaction code does.

### Directives

`directives` is the table in the order of sending. A claim is a request (`Pick`), the server's step
(`ClaimDirective`) and the reaction (`Start`, `GiveUp`). After 15 seconds (`Client._req`) the worker
treats the claim as refused (`ClaimTimesOut`); the request then lives on in `lateClaims` and the
server may still serve it (`LateClaim`). Reports are requests too: sent (`SendReport`), served some
time or never (`ReportDirective`), and the lane is freed whatever happened (`EndTurn`). `TurnFails`
is an exception in a turn before its report. `Crash` may strike at any moment.

A host goes on through the same inbox answer while lanes change (`Busy`, `Full`, `Pickable`): the
answer is the set `inbox[w]`, taken at `Poll` and never refreshed. A poller looks at the first
directive only, and is at its loop only when it has no turn. `starts` and `stranded` are history:
the turns in the order they began, and the directives whose worker, or whose grant, was lost.

`OneShot` sees of a directive its status, its executions (`Executions`) and who has it (`Executor`):
nobody, a worker that was granted it, one that is at work on it, or nobody ever again, when it was
lost. A claim that comes late is a grant and a loss in one step; a late report finds the executor
still in place, or the directive already answered.

### Poller

`sid`, `spent`, `attempt`, `retry` are the local variables of `main`; `file` is the state file. The
process is started in either session mode, with or without `--resume-session` and `--reset-usage`
(`Start`), and may be killed between any two steps (`Kill`), or while an executor runs. An executor
ends well, for a passing or for a lasting reason, and tells a session (the one it resumed or a new one that
continues it) and a cost, or tells nothing (`End`): then `run_executor` hands back the session it
was passed. `Keep` and `Account` save the session and the totals, each a merging write that
may fail. `holds` says which directives a session has worked on; that is what `Remembers` and
`FreshStaysApart` are about, whatever ids the sessions have.

### HostTurn

One thread's turns, one at a time, on any of the hosts that have served it. `stored` and `local` are
the copies of the memory (server, file of each host), each a set of turns of which the newest
`MemoryBound` are kept, and `memory[t]` is what turn `t` knows. A turn loads its memory from the
server, from the host's file when the server does not answer, or, when that file cannot be read,
finds none and notices nothing (`LoadFromServer`, `LoadFromFile`, `LoadNothing`). It saves to the
server, or to the file when that times out, or nowhere: `save_messages` swallows the error and the turn
ends as if it had saved (`SaveToServer`, `SaveToFile`, `SaveNowhere`). In between it sends its check
(`SendCheck`), and the server reads the rules (`ReadRules`) before the transaction that files the
check or the request (`FileCheck`). The host hears the decision, or decides by its own list; it polls a
request until it is settled, deleted or given up. Saves that were given up stay in `late` and may be
served at any time.

`Warrant` sees of a turn its command, the decision from the moment the rules were read
(`DecisionOn`), the verdicts that consoles were told stand (`VerdictsOn`), and on whose word the host
is about to run it (`WarrantOf`): the server's, a human's, or, when the server's decision was not
heard, that of the host's own list. What was refused, given up or cut off by a crash is void, though
the server may decide and a human settle it afterwards.

### SharedState

A call is one transaction: idempotency check, effect, stored answer. `calls[a, ik]` is the call a
client makes under a key and may repeat at any time; the prune computes its cutoff before it waits
for the lock. `history`, `log`, `contributions`, `projection` and `fts` are the tables; equal title,
body and tags are one content, as its id is a hash of them. A refusal of compare-and-swap is stored
and repeated like any answer.

### Membership

`name` is the agents table, `bound` the process's map from session to agent, `mirror` its copy in
Redis, `shown` the presence keys. Every call is a sequence of steps with other calls in between:
join (row, heartbeat key, binding, copy), leave (row, copies, keys), heartbeat, and the
asking of Redis by a session the process does not know (`session.py`). Each Redis step may fail
and every key may lapse. `settled` and `heard` are history. A join or leave that overlaps another
call of its session, or in which Redis fails, is not `clean`, and nothing is promised of it.

## 3. Runs

| Run | Shows | Result |
|---|---|---|
| `scheduler_late` | rows and claims agree; tokens are granted once; no zombie writes; attempts are bounded; the board implements `FencedLease`; what has expired is requeued | holds |
| `scheduler_disciplined` | with clients that do not use a claim they ended: one commit per task; dependencies stay done; an agent's current task is live; a renewal moves a deadline back by at most the lock wait | holds |
| `scheduler_committed` | one commit per task, with late calls | **violated** |
| `longpoll_follow` | no lost wake-up; a reader that goes on from its last row misses and repeats nothing; every row arrives | holds |
| `longpoll_head` | a reader that goes on from `head_seq` misses nothing | **violated** |
| `live_feed` | writes are serial under cancellations, errors and restarts; no event within the backfill's limit falls between it and the live frames; the writers are `LongPoll`'s; no announcement is held up for good by pages that come and go | holds |
| `feed_cancelled` | the task with the lock finds no transaction open | **violated** |
| `directives` | a host and a poller: executed once; lanes are serial; running directives are accounted for; results final; the bus implements `OneShot`; pending work is taken | holds |
| `poller` | the budget, the memory of resume mode and the separation of fresh mode, across kills and failed writes | holds |
| `host_turn` | a command runs only as decided; one verdict per question; the guard implements `Warrant`; a turn remembers the last one saved; a memory is whole but for its oldest turns | holds |
| `shared_state` | one effect per key; answers are true; no lost update; the newest write wins; the projection is the log, the last operation winning | holds |
| `membership` | names are unique; a session acts as it joined; presence shown was heard | holds |

The violated ones state what a comment or document of the repository says, quoted in
`PROJECT.json` under `findings`:

* **A done task can be reopened** by a late `fail_task`, `release_task` or progress call under the
  token that completed it: `complete_task` leaves assignee and token in the row and no call looks at
  the status. It is then claimed and completed again.
* **A cancellation during `BEGIN IMMEDIATE`** releases the lock with a transaction open. Every later
  `BEGIN` on the one writer connection fails, and no write succeeds until the server is restarted.
* **`head_seq` runs ahead of the rows.** It is read after them by another query, so a reader that goes
  on from it, as `mcp_server.py:435`, `skills/team/SKILL.md:33` and `static/workbench.js:158-160` have it,
  misses what was committed in between, and whatever did not fit the page.

### Where code and words differ otherwise

Met while modelling, and worth knowing; the properties above are stated so that they hold of the
code as it is.

* In `--session-mode fresh`, `main` of the poller passes the last directive's session to the first
  attempt. If that attempt tells none (it timed out), a retry resumes the passed one: another
  directive's. `FreshStaysApart` without its `~silent` is violated in ten steps. The docstring
  (`scripts/atmcp_worker_poller.py:180-181`) says the distinction is honored across directives.
* An attempt that is stopped at its timeout has cost something nobody hears of, although "every
  attempt can cost tokens — account each one" (`scripts/atmcp_worker_poller.py:433`). `paid` counts
  what was told. A session whose write failed is written again only when its id changes.
* The knowledge base calls itself an OR-Set (`services/knowledge.py:2`), and `post_knowledge` promises
  that "a concurrent re-post wins (add-bias)" (`mcp_server.py:140`). But the server puts the operations in
  one order and a retraction hides whatever row it finds (`knowledge.py:174-181`), also one re-posted
  after the retracting agent last looked. The last operation wins: that is what `ProjectionIsLog` says
  and `shared_state` confirms, and the finding at that run is about.
* A backfill has at most 1000 events (`web.py:615`, `status.py:54`), but hello carries the head of all.
  Events beyond the limit come over no connection, and a page whose connection breaks during its
  backfill connects with that head and is not sent the rest either. `README.md:110` has it "auto-reconnects
  with catch-up". The page's snapshots, of the newest 80 events (`web.py:91`), show part of them.
* `_broadcast` (`hub.py:62-73`) awaits one socket after the other without a timeout, before the waiters
  are woken: one browser that takes nothing holds up the call that wrote the event.
* `save_messages` swallows every error (`scripts/atmcp_workbench_host.py:645-656`), and `load_messages`
  takes an unreadable file for an empty one. A turn whose memory was saved nowhere is forgotten, and one
  that starts from nothing saves that nothing over the older turns, without a message to anybody.
* A blocked task is never reaped (`README.md:43-44`): heartbeat, leave and reaper look at `claimed`
  and `in_progress` only.
* `lease_ttl_s = 0` means the default at a claim and zero at a renewal.
* A poller beside a host does not look at `session_id`, and one host's stale inbox answer may take a
  thread's messages out of order: lanes are serial within one host only.
* The server's copy of a thread's memory is preferred to the newer file after an outage, and a save
  that timed out may overwrite it later: the thread then goes on from an older memory.
  `RemembersLastTurn` excludes these cases; `MemoryIsWhole` covers them and says it is an older memory
  without holes. `docs/workbench-quickstart.md:49` does not mention it.
* `leave_team` says it marks the agent offline (`mcp_server.py:80`); it is shown as degraded for
  `presence_degraded_s` first. If Redis cannot delete a left session's key, the next call takes the
  session up again as the agent that left (`session.py:75-84`).
* A page may get an event twice over a socket and shows it twice until the next snapshot; `hub.py:14-15`
  leaves duplicates to the client.
* When a tool's time is up the host stops waiting, but the process goes on
  (`scripts/atmcp_workbench_host.py:525-528`).
* The copies of leases in Redis are written and never read.

### Bounds

* `MaxClock`, `MaxToken` (scheduler): time and claims per task. Three claims with `MaxAttempts = 2`
  reach the dead letter, a re-claim by the same agent and one by another; three ticks let a lease of
  length 1 expire, be renewed late and expire again. `scheduler_disciplined` has two tasks that may
  depend on each other and on an id that does not exist, and two claims each.
* `LockWait = 1`: a handler may act on a clock one tick old, enough to move a deadline back, or to
  prune a key that was young enough when the cutoff was computed.
* `MaxRows = 4` with `Limit = 1` (long-poll): an answer leaves rows behind; transactions of two
  and more rows mix streams. Readers do not affect one another, so one is enough.
* `MaxRows = 2`, `Limit = 2` (`longpoll_head`): a page has room for every row, so that only the race
  between the two queries is left.
* `MaxRows = 2`, `BackfillLimit = 1` (feed): two writers with one row each, or one with both;
  a backfill that leaves one event out, or one that does not; a restart between announcements. Pages do not
  affect one another but for the order of sends.
* `MaxDirectives = 2`, `Capacity = 2` (directives): one thread or two, one directive for each worker or
  both after the same, both lanes of the host taken. No directive is left to wait for a lane at
  capacity: that a host stays within it is shown by the theorem `SerialLanes`, not by TLC.
* `Budget = 3`, `MaxCost = 2`, `MaxRetries = 2`, `MaxDirectives = 3`, `MaxSessions = 3`,
  `MaxFaults = 2` (poller): the budget can be hit exactly, overrun, at a first attempt and at a
  retry; a third directive comes after a kill; a failed write is followed by a kill.
* `MemoryBound = 2`, `MaxTurns = 2` (host turn): the second turn goes on from the first one's memory or
  not, and may run on the other host; one ordinary and one dangerous command. Two turns fit the bound:
  what it cuts off is covered by the theorem `WholeMemories`, which holds for any bound, not by TLC.
* `MaxEvents = 3`, `MaxClock = 2`, `IdemTTL = 1` (shared state): two writes of a key and a third of
  another agent; a repetition before and after its key is pruned.
* One session, two agents, two calls at once, `MaxClock = 1` (membership): a late heartbeat of the
  first agent meets the join of the second.

Deadlock is checked except in `shared_state` and `poller`, whose instances come to an end: events,
time, directives and faults are bounded, and a poller over its budget waits.

Symmetry is used only where safety alone is checked: agents and tasks in `scheduler_disciplined`,
hosts in `host_turn`, agents and keys in `shared_state`, agents and call slots in `membership`.

### Fairness

* Scheduler: time passes; the reaper's loop scans again and again (`reaper.py:78-91`), and visits
  each candidate under *strong* fairness, as a sweep may raise, but not every time. Clients owe
  nothing.
* Long-poll: a handler that waits on nothing goes on and a wait ends by its timeout
  (`hub.py:106-118`); a client polls in a loop. Answers may be lost, but not every one (strong
  fairness of `Answer`). Announcements owe nothing: rows arrive even if none is ever announced.
* Feed: a publisher goes on when it waits for nothing, and a send ends, as the frame is taken or the
  connection breaks. The code has no timeout there; that the WebSocket library's keep-alive finds a
  dead client is taken from outside. Pages owe nothing: they may come and go at any time.
* Directives: a host loops (`atmcp_workbench_host.py:789-810`), its executors come to an end and
  its done-callback frees the lane. Claims may time out and the host may crash, but not each time
  it is about to claim (strong fairness of `Pick` and `ClaimDirective`). Pollers, servers of late
  requests and consoles owe nothing.

## 4. Proofs

The theorems hold for every value of the constants that satisfies the modules' assumptions (sets are
disjoint, durations are natural numbers, limits are positive) and without the bounds: those only
restrict the actions. Most type invariants are proved and not checked by a run of their own: the
proofs of everything else rest on them.

**Task board** (`TaskScheduler_proofs`). The properties are not inductive one by one: that the
reaper updates the right agent's rows needs that an expired task has an assignee; that no token is
reused needs that no claim is ahead of its row; that a claim starts from a free task needs that an
open task has no assignee. The invariant is `IInv`, the conjunction of `TypeOK`, `RowInv` (status,
assignee, deadline, attempts and token of a row agree) and `ClaimInv` (the claim table agrees with
the rows). One lemma per call shows that it is preserved; `ReturnInv` and `CloseTokens`, `CloseOpen`
do the work `fail_task`, `release_task`, `leave_team` and the reaper share. From it follow
`TypeCorrect`, `LeaseConsistency`, `ClaimExclusion`, `TokenUniqueness`, `AttemptBudget` and
`ZombieFencing`.

For clients that do not use a claim they ended (`~LateCalls`) `Disciplined` is added: a
held task's newest claim is open and its holder's (`HeldClaim`), and a claim that completed a task
is its newest, and the task is done (`DoneClaim`); then nothing touches a done task. It gives `OneCommit`, `DependenciesHold` and
`CurrentTaskHolds`, and with `DeadlineNear` (a lease never ends further ahead than its length)
`DeadlineSlip`, which also needs that no lease has length 0.

**Refinement** (also in `TaskScheduler_proofs`). `BoardImplementsLease`: the board implements the fenced lease
for each task. The lease's `verdict` is the outcome of the newest claim, so besides `IInv` the proof
needs `NewestIsKept`: the claim under the present token is in the table. `CloseVerdict` says that
closing claims judges exactly the epochs that have no verdict yet. Then each action is mapped, for
the task it touches, to a step of the lease and for all others to a stutter.

**Long-poll** (`LongPoll_proofs`). `PollInv` adds to the properties that a remembered generation is
never ahead of the hub's (`RememberedGen`) and that a page in hand is the next one after the cursor
(`PageIsNext`). Lemmas on `Last` and `Page` (the answer is an initial segment of what is unread)
carry `FollowingMissesNothing`, for readers that go on from the last row (`~ByHead`);
`WakeupsAreNotLost` is the argument of the comment at `hub.py:9-10`.

**Transactions and feed** (`LiveFeed_proofs`). `TxInv` adds to `WritesAreSerial` that a task
writes only in the open transaction (`WriterIsInTx`) and that a batch lives from its transaction to
its announcement (`BatchIsUnannounced`): `SerialTransactions`. Every step of the feed is a step of the
transaction or leaves its variables alone
(`FeedImplementsTx`), so the feed inherits it (`SerialWrites`). With the
types of publishers and pages, `NothingFallsBetween` is inductive (`NoGap`), for any limit of the
backfill, and it names what the limit leaves out.

`TxImplementsLongPoll` maps commits, announcements and losses to the writers of `LongPoll`, and
`FeedImplementsLongPoll` carries it over to the feed. It needs `RowsInv`: the batches of two tasks
have no row in common, and one that is being announced is not empty (`BatchesAreApart`), and there is
room for what the open transaction has written (`RowsAreBounded`). What is unannounced then loses
exactly one batch at a time, and a commit, of any size, adds exactly one.

**Directives** (`Directives_proofs`). `DInv` is `DirectivesTypeOK`, `Wants` (who claims, wants a
directive that exists) and `OnceInv`: a started or granted directive is no longer pending, no two
workers hold a grant of the same one, and turns are started directives. `TakenForGood` shows that
nothing becomes pending again. It gives `DirectiveTypes`, `ExecutedOnce` and, with the same
invariant, `ResultsStay` and `RunningHasAnOwner`.

`BusIsOneShot` needs three facts more, together `ShotInv`: no directive is in a turn of two
workers (`TurnsAreSingle`); a directive that has an answer, or a report on its way, was begun and
is not lost (`AnswersAreEarned`, also the theorem `EarnedAnswers`); and what is lost is pending no
more, nor held by anybody (`LostIsLost`). Then each step is mapped, for the directive it touches, to
one of the six steps of `OneShot` (`ShotSteps`), and for all others to a stutter (`Untouched`).

`SerialLanes` rests on `LaneInv`: from the look at
the lanes to the beginning of the turn the lane stays free, because meanwhile turns only end.

**Host turns** (`HostTurn_proofs`). `TurnsInv` joins `MemoryInv` (the copy the last saved turn went
to still holds it, unless it was overwritten late), `LineInv` and `GuardInv`: checks and requests point at each other, a
request's consoles agree with its status, and a turn runs only what is cleared. A filed request
always finds a free id (`RoomForRequest`, a pigeonhole), and a saved memory is never over its bound
(`BoundedSize`). `HostTurnTypes`, `GuardObeyed`, `VerdictStands` and `MemoryFollows` follow.

`LineInv` is what makes a memory whole, whichever reads and writes fail: all copies, saves under way and
turns' own memories that hold a turn agree on what that turn knew, but for the oldest, as the bound only ever
cuts those (`BoundedCutsOldest`). That it survives a load and a save is `SameLine`, `LineGoesOn` and
`SavedIsWhole`; `WholeMemories` follows.

`GuardIsWarrant`: with `WarrantInv` (a command under way was not run yet, and only a question has a
request) every call of the server decides or settles one turn's case or leaves all of them alone,
and every step of the host only moves the warrant of its turn (`AnswerCase`, `ElsewhereCase`). That
`ReadRules` and `FileCheck` are two steps does not show: a host hears a decision only once it is
filed, so no warrant sees one that is not final.

**Shared state** (`SharedState_proofs`). Three invariants over the types. `KeyInv`: until
its time has passed an effect's answer is kept (`EffectsAreKept`), an answer names an event of its
key's call (`AnswersName`), and what was told is the effect of that time (`ToldInTime`). `MemoryInv`: versions,
Lamport times and events of the history are in the same order, without gaps, and `current` is the
last. `KnowledgeInv`: each row of the projection is determined by the posts and retractions of its
content. They give `AppliedOnce`, `TrueAnswers`, `UpdatesSurvive`, `LastWriteWins` and
`FaithfulProjection`.

**Membership** (`Membership_proofs`). Types need that a call that asks Redis has a session
(`AskingHasSession`). `EarnedInv`: what a heartbeat under way will show was heard. `SessionInv`:
calls of one session that overlap know it (`Alone`), a call that changes its session's agent has
unsettled it (`Own`), and what is settled is what binding, copy (`Kept`) and calls (`Acts`) have.
`MembershipTypes`, `EarnedPresence` and `SessionsActAsJoined` follow.

**Poller** (`Poller_proofs`). `MoneyInv`: what was paid is in the file, slipped, or is the cost of
the attempt that has just ended (`Pending`); since an attempt begins below the budget, `BudgetKept`
follows. `SessionInv`: in resume mode the session in memory is the one an attempt and a retry are
given and, unless its write failed, the one in the file, and it holds what was heard; in fresh mode
nothing is unsaved, so a later run in resume mode finds the file as it was (`SessionRemembered`).
`FreshInv`: once a first attempt told a session, all that the directive's attempts tell holds that
directive alone (`FreshApart`).

Model-checked only: liveness (`ExpiredIsRequeued`, `EveryRowIsReceived`, `PendingIsTaken`,
`AnnouncementsEnd`), which is out of the prover's reach.

## 5. Not modelled

* Texts: titles, instructions, results, progress percentages. `payload`, `weights` and goals carry no
  control.
* Refusals that write nothing (unknown ids, other agents' directives, bad arguments).
* Ties in `created_at`: `claim_next_task` may choose any of the eligible tasks of highest priority;
  directives are taken to have distinct times, in the order of sending (`Before`). Two directives
  sent in the same millisecond may come in either order.
* Clients' side of the task tools: a client is any sequence of calls with tokens it was granted.
* Retention sweeps of events and output: a reader slower than the retention period does miss rows.
  The sweeps of idempotency keys and guard requests are modelled.
* A crashed worker's executors die with it; a subprocess that outlives its host is not modelled. Nor
  are worktrees, the host's map of CLI sessions (one file, saved whole under a lock), custom executors, and
  what cuts the message list of a model apart from its turns (`msgs[-40:]` may drop the system prompt).
* A failed *read* of the poller's state file: `_read_state` then returns an empty state, which the
  next write would save.
* MCP tools and HTTP routes only check arguments and delegate; console, usage and team views only
  read; configuration, ids and packaging hold no control; the heartbeat sidecar and the output hook
  repeat one call. `PROJECT.json` gives the reason at each component.

## 6. Plan

Done in this order: task board and reaper, the most important promise of the system; the long-poll,
on which every client depends; the directive bus with its workers; shared memory, knowledge and
idempotency keys; the write transaction and the dashboard feed; the inside of host turns;
membership; the inside of poller turns.

Left, most useful first:

1. Retention in `LongPoll`: a sweep that deletes the oldest rows, and `ReceivedIsPrefix` for readers
   that keep up with it.
2. The host's map of CLI sessions, with lanes that save it together.
3. That a dead-lettered or unknown dependency keeps what depends on it open for good, as a property
   of disciplined clients with its proof.
4. That `Poller` and `HostTurn` do inside a turn what `Directives` takes a turn to be.

## 7. Running it

    tlc -workers 2 -config MCDirectives.cfg MCDirectives.tla
    tlapm Directives_proofs.tla
