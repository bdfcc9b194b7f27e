----------------------------- MODULE SharedState -----------------------------
(***************************************************************************)
(* What the agents of a team write together: the shared memory (one        *)
(* last-writer-wins register per key, with optional compare-and-swap), the *)
(* knowledge base (a log of posts and retractions, and the projection of   *)
(* it that is searched), and the idempotency keys under which a call whose *)
(* answer got lost is made again.                                          *)
(*                                                                         *)
(* A call is one transaction.  A call with a key stays in the hands of its *)
(* client, who may repeat it at any later time; a call without one is made *)
(* once.  The keys are pruned when they are older than IdemTTL.            *)
(***************************************************************************)
EXTENDS Integers, Sequences, FiniteSets

CONSTANTS
  Agents,
  Keys,      \* of the shared memory
  Contents,  \* content ids: equal title, body and tags have the same one
  IdemKeys,  \* the idempotency keys of an agent
  None,      \* no idempotency key, no expected version, no call, no answer
  IdemTTL,   \* settings.idem_ttl_s
  LockWait,  \* bound on how long the reaper waits for the write lock
  MaxEvents, \* bound on the events
  MaxClock   \* bound on time

Calls == [op : {"set"}, on : Keys, expected : Nat \cup {None}]
           \cup [op : {"post", "retract"}, on : Contents]

ASSUME SharedAssumption ==
  /\ IdemTTL \in Nat
  /\ LockWait \in Nat
  /\ None \notin IdemKeys \cup Nat
  /\ None \notin Calls \cup [answer : Nat, at : Nat]
  /\ None \notin [first_author : Agents, contributor_count : Nat, present : BOOLEAN, last_event : Nat]

VARIABLES
  lclock,        \* team_clock
  current,       \* memory_current; version 0 for a key without a row
  history,       \* memory_history, with the version its writer expected
  log,           \* events: kind, subject and actor of each
  contributions, \* knowledge_contributions: content, author, event
  projection,    \* knowledge_current; None for a content without a row
  fts,           \* rows of knowledge_fts per content
  idem,          \* idempotency: the stored answer of an agent's key
  clock,         \* wall clock
  calls,         \* per agent and key, the call the client makes under it
  told,          \* history: the last answer under each key, and when
  origin         \* history: per event, the agent and key of its call, and when

memory    == <<lclock, current, history>>
knowledge == <<contributions, projection, fts>>
records   == <<log, origin, idem, told>>
vars      == <<memory, knowledge, records, clock, calls>>

Slots == Agents \X IdemKeys

Init ==
  /\ lclock = 0
  /\ current = [k \in Keys |-> [version |-> 0, lclock |-> 0, event |-> 0]]
  /\ history = {}
  /\ log = <<>>
  /\ contributions = {}
  /\ projection = [c \in Contents |-> None]
  /\ fts = [c \in Contents |-> 0]
  /\ idem = [s \in Slots |-> None]
  /\ clock = 0
  /\ calls = [s \in Slots |-> None]
  /\ told = [s \in Slots |-> None]
  /\ origin = <<>>

------------------------------------------------------------------------------
(* Idempotency keys. *)

(* Mutant of Slot: the keys of all agents share one space. *)
SharedSlot(a, ik) == <<CHOOSE b \in Agents : TRUE, ik>>

(* Keys are scoped to the caller. *)
Slot(a, ik) == <<a, ik>>

(* idempotency.check finds nothing. *)
Unanswered(a, ik) == ik # None => idem[Slot(a, ik)] = None

(* What the client hears: the event of the effect, or 0 for a refusal. *)
Tell(a, ik, answer) ==
  told' = IF ik = None THEN told
          ELSE [told EXCEPT ![<<a, ik>>] = [answer |-> answer, at |-> clock]]

(* The answer is stored in the transaction of the call, and given. *)
Store(a, ik, answer) ==
  /\ idem' = IF ik = None THEN idem
             ELSE [idem EXCEPT ![Slot(a, ik)] = [answer |-> answer, at |-> clock]]
  /\ Tell(a, ik, answer)

(* The call was answered before: the same answer again, and no effect. *)
Repeat(a, ik) ==
  /\ ~Unanswered(a, ik)
  /\ Tell(a, ik, idem[Slot(a, ik)].answer)
  /\ UNCHANGED <<memory, knowledge, log, origin, idem, clock>>

NewEvent == Len(log) + 1

(* events.append: who did what to which key or content. *)
Record(kind, on, a, ik) ==
  /\ Len(log) < MaxEvents
  /\ log' = Append(log, [kind |-> kind, on |-> on, actor |-> a])
  /\ origin' = Append(origin, [agent |-> a, key |-> ik, at |-> clock])

------------------------------------------------------------------------------
(* Shared memory. *)

(* Mutant of Expects: any version up to the present one will do. *)
ExpectsAtMost(e, version) == e \in 0..version \cup {None}

Expects(e, version) == e \in {version, None}

(* Mutant of NextRow: a key that has a row keeps its version. *)
SameVersionRow(k) ==
  [version |-> IF current[k].version = 0 THEN 1 ELSE current[k].version,
   lclock |-> lclock + 1, event |-> NewEvent]

NextRow(k) ==
  [version |-> current[k].version + 1, lclock |-> lclock + 1, event |-> NewEvent]

SetMemory(a, ik, k, e) ==
  /\ Unanswered(a, ik)
  /\ Expects(e, current[k].version)
  /\ lclock' = lclock + 1
  /\ Record("memory_set", k, a, ik)
  /\ current' = [current EXCEPT ![k] = NextRow(k)]
  /\ history' = history \cup {[key |-> k, row |-> NextRow(k), expected |-> e]}
  /\ Store(a, ik, NewEvent)
  /\ UNCHANGED <<knowledge, clock>>

(* A conflict writes nothing, but is stored under the key. *)
Conflict(a, ik, k, e) ==
  /\ Unanswered(a, ik)
  /\ ~Expects(e, current[k].version)
  /\ Store(a, ik, 0)
  /\ UNCHANGED <<memory, knowledge, log, origin, clock>>

------------------------------------------------------------------------------
(* Knowledge. *)

(* Mutant of ContributorCount: contributions are counted, not authors. *)
ContributionCount(C, c) == Cardinality({x \in C : x.content = c})

ContributorCount(C, c) == Cardinality({x.author : x \in {y \in C : y.content = c}})

PostKnowledge(a, ik, c) ==
  /\ Unanswered(a, ik)
  /\ Record("knowledge_added", c, a, ik)
  /\ contributions' = contributions \cup {[content |-> c, author |-> a, event |-> NewEvent]}
  /\ projection' = [projection EXCEPT ![c] =
       [first_author |-> IF @ = None THEN a ELSE @.first_author,
        contributor_count |-> ContributorCount(contributions', c),
        present |-> TRUE, last_event |-> NewEvent]]
  /\ fts' = [fts EXCEPT ![c] = 1]   \* DELETE, then INSERT
  /\ Store(a, ik, NewEvent)
  /\ UNCHANGED <<memory, clock>>

RetractKnowledge(a, ik, c) ==
  /\ Unanswered(a, ik)
  /\ projection[c] # None
  /\ Record("knowledge_retracted", c, a, ik)
  /\ projection' = [projection EXCEPT ![c].present = FALSE, ![c].last_event = NewEvent]
  /\ fts' = [fts EXCEPT ![c] = 0]
  /\ Store(a, ik, NewEvent)
  /\ UNCHANGED <<memory, contributions, clock>>

(* This refusal is not stored: the call may yet succeed under its key. *)
RetractUnknown(a, ik, c) ==
  /\ Unanswered(a, ik)
  /\ projection[c] = None
  /\ Tell(a, ik, 0)
  /\ UNCHANGED <<memory, knowledge, log, origin, idem, clock>>

(* search_knowledge, through the index and without a query. *)
Indexed == {c \in Contents : fts[c] = 1 /\ projection[c] # None /\ projection[c].present}
Listed  == {c \in Contents : projection[c] # None /\ projection[c].present}

------------------------------------------------------------------------------
(* Clients, time and pruning. *)

(* A call is fixed when it is first made under its key; its expected       *)
(* version is one the client has read by the time the call is served.      *)
Makes(a, ik, call) ==
  /\ call.op = "set" => call.expected \in 0..current[call.on].version \cup {None}
  /\ ik # None => calls[<<a, ik>>] \in {None, call}
  /\ calls' = IF ik = None THEN calls ELSE [calls EXCEPT ![<<a, ik>>] = call]

(* The answer kept under its key, or its transaction. *)
Serve(a, ik, call) ==
  \/ Repeat(a, ik)
  \/ /\ call.op = "set"
     /\ \/ SetMemory(a, ik, call.on, call.expected)
        \/ Conflict(a, ik, call.on, call.expected)
  \/ /\ call.op = "post"
     /\ PostKnowledge(a, ik, call.on)
  \/ /\ call.op = "retract"
     /\ RetractKnowledge(a, ik, call.on) \/ RetractUnknown(a, ik, call.on)

(* Mutant of Outlived: keys are pruned when they are as old as IdemTTL. *)
OutlivedEarly(s, now) == idem[s] # None /\ idem[s].at <= now - IdemTTL

Outlived(s, now) == idem[s] # None /\ idem[s].at < now - IdemTTL

(* prune_expired: the cutoff is computed before the wait for the lock. *)
Prune(now) ==
  /\ \E s \in Slots : Outlived(s, now)
  /\ idem' = [s \in Slots |-> IF Outlived(s, now) THEN None ELSE idem[s]]
  /\ UNCHANGED <<memory, knowledge, log, origin, told, clock, calls>>

Tick ==
  /\ clock < MaxClock
  /\ clock' = clock + 1
  /\ UNCHANGED <<memory, knowledge, records, calls>>

KnownCalls ==
  [op : {"set"}, on : Keys, expected : 0..MaxEvents \cup {None}]
    \cup [op : {"post", "retract"}, on : Contents]

Next ==
  \/ \E a \in Agents, ik \in IdemKeys \cup {None}, call \in KnownCalls :
       Makes(a, ik, call) /\ Serve(a, ik, call)
  \/ \E now \in (clock - LockWait)..clock : Prune(now)
  \/ Tick

Spec == Init /\ [][Next]_vars
------------------------------------------------------------------------------
(* Properties. *)

Events == 1..Len(log)

SharedTypeOK ==
  /\ lclock \in Nat
  /\ current \in [Keys -> [version : Nat, lclock : Nat, event : Nat]]
  /\ history \subseteq [key : Keys, expected : Nat \cup {None},
                        row : [version : Nat, lclock : Nat, event : Events]]
  /\ log \in Seq([kind : {"memory_set", "knowledge_added", "knowledge_retracted"},
                  on : Keys \cup Contents, actor : Agents])
  /\ origin \in Seq([agent : Agents, key : IdemKeys \cup {None}, at : Nat])
  /\ Len(origin) = Len(log)
  /\ contributions \subseteq [content : Contents, author : Agents, event : Events]
  /\ \A c \in Contents :
       projection[c] \in {None} \cup [first_author : Agents, contributor_count : Nat,
                                      present : BOOLEAN, last_event : Events]
  /\ fts \in [Contents -> Nat]
  /\ clock \in Nat
  /\ calls \in [Slots -> Calls \cup {None}]
  /\ idem \in [Slots -> [answer : Events \cup {0}, at : Nat] \cup {None}]
  /\ told \in [Slots -> [answer : Events \cup {0}, at : Nat] \cup {None}]

(* An agent's call under an idempotency key takes effect once: a repetition *)
(* is applied again only when more than IdemTTL has passed                  *)
(* ("retries return the stored result and never double-apply").             *)
OneEffectPerKey ==
  \A i, j \in Events :
    i < j /\ origin[i].key # None
          /\ origin[i].agent = origin[j].agent /\ origin[i].key = origin[j].key
      => origin[j].at - origin[i].at > IdemTTL

(* A client that repeats a call while its key is kept hears the truth: the  *)
(* event of the effect its call had, and a refusal only if it had none.     *)
AnswersAreTrue ==
  \A s \in Slots : told[s] # None =>
    /\ told[s].answer # 0 =>
         /\ <<origin[told[s].answer].agent, origin[told[s].answer].key>> = s
         /\ log[told[s].answer].on = calls[s].on
    /\ \A i \in Events :
         <<origin[i].agent, origin[i].key>> = s /\ told[s].at - origin[i].at <= IdemTTL
           => told[s].answer = i

(* Compare-and-swap loses no update: what a write replaced is the version   *)
(* its writer had read, and no two writes of a key replaced the same one.   *)
NoLostUpdate ==
  /\ \A h \in history : h.expected # None => h.row.version = h.expected + 1
  /\ \A g, h \in history : g.key = h.key /\ g.row.version = h.row.version => g = h

(* "The newest write always wins deterministically" (services/memory.py:4): *)
(* every write of the team is in the history under a Lamport time of its    *)
(* own, in the order of the events; a key shows its newest one, and its     *)
(* version counts them.                                                     *)
NewestWriteWins ==
  /\ \A g, h \in history : g.row.lclock <= h.row.lclock <=> g.row.event <= h.row.event
  /\ {h.row.lclock : h \in history} = 1..lclock
  /\ {h.row.event : h \in history} = {i \in Events : log[i].kind = "memory_set"}
  /\ \A k \in Keys :
       LET rows == {h.row : h \in {g \in history : g.key = k}}
       IN  /\ current[k].version = Cardinality(rows)
           /\ current[k].version > 0 =>
                current[k] \in rows /\ \A r \in rows : r.lclock <= current[k].lclock

(* The projection is what the log says: an entry is present iff the last    *)
(* thing that happened to it was a post, its contributors are the agents    *)
(* that posted it, it was first posted by its first author, and the index   *)
(* finds what the list shows.  So it is the last operation that wins, not   *)
(* the add: a retraction also removes a post that was committed before it   *)
(* and that its caller had not seen (knowledge.py:174-181), where an OR-Set *)
(* would keep the entry ("A concurrent re-post wins (add-bias)",            *)
(* mcp_server.py:140).                                                      *)
ProjectionIsLog ==
  /\ Indexed = Listed
  /\ \A c \in Contents :
       LET posts   == {i \in Events : log[i].kind = "knowledge_added" /\ log[i].on = c}
           touched == posts \cup {i \in Events : log[i].kind = "knowledge_retracted" /\ log[i].on = c}
       IN  /\ projection[c] = None <=> posts = {}
           /\ fts[c] <= 1
           /\ projection[c] # None =>
                /\ projection[c].last_event \in touched
                /\ \A i \in touched : i <= projection[c].last_event
                /\ projection[c].present <=> projection[c].last_event \in posts
                /\ projection[c].contributor_count = Cardinality({log[i].actor : i \in posts})
                /\ \E i \in posts : /\ projection[c].first_author = log[i].actor
                                    /\ \A j \in posts : i <= j
==============================================================================
