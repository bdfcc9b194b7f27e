------------------------------ MODULE LongPoll ------------------------------
(***************************************************************************)
(* How a reader of ATMcp follows a stream of rows: sync over the events of *)
(* its team, get_output over one agent's output, session_output over one   *)
(* thread.  The three have one shape: remember the hub's generation, read  *)
(* the rows after a cursor, and if there are none wait until the           *)
(* generation moves or the wait times out, then read once more.            *)
(*                                                                         *)
(* A row becomes visible when its transaction commits; the generation      *)
(* moves later, when the writer has let go of the lock and announced what  *)
(* it wrote (db.transaction's publisher, hub.dispatch, hub.tick).  In      *)
(* between any number of commits, reads and announcements happen, in any   *)
(* order, and the announcement itself may be lost.                         *)
(***************************************************************************)
EXTENDS Integers, Sequences, FiniteSets

CONSTANTS
  Readers,
  Tags,      \* what a row belongs to: an agent, a thread, a team
  Follows,   \* the tag each reader follows
  Limit,     \* rows per answer
  ByHead,    \* do readers go on from head_seq, or from the last row they got?
  MaxRows    \* bound on the rows written

ASSUME LongPollAssumption ==
  /\ Follows \in [Readers -> Tags]
  /\ Limit \in Nat \ {0}
  /\ ByHead \in BOOLEAN
  /\ MaxRows \in Nat

VARIABLES
  rows,        \* the committed rows in id order: the tag of each
  unannounced, \* per running publisher, the rows it has still to announce
  lost,        \* history: rows whose announcement was lost
  gen,         \* hub._gen of the team
  pc,          \* where each reader's call is
  gen0,        \* the generation it remembered
  page,        \* the rows it read
  cursor,      \* what it will pass as since_seq or since_event_id
  received     \* history: the rows it was answered with

db   == <<rows, unannounced, lost, gen>>
vars == <<db, pc, gen0, page, cursor, received>>

Stages == {"idle", "armed", "empty", "waiting", "woken", "answering"}

Ids == 1..Len(rows)

Init ==
  /\ rows = <<>>
  /\ unannounced = {}
  /\ lost = {}
  /\ gen = 0
  /\ pc = [r \in Readers |-> "idle"]
  /\ gen0 = [r \in Readers |-> 0]
  /\ page = [r \in Readers |-> {}]
  /\ cursor = [r \in Readers |-> 0]
  /\ received = [r \in Readers |-> {}]

------------------------------------------------------------------------------
(* Writers. *)

(* A transaction that appends rows, one or more, commits and lets go of    *)
(* the write lock.                                                         *)
Commit ==
  \E n \in 1..(MaxRows - Len(rows)) : \E batch \in [1..n -> Tags] :
    /\ rows' = rows \o batch
    /\ unannounced' = unannounced \cup {(Len(rows) + 1)..(Len(rows) + n)}
    /\ UNCHANGED <<lost, gen, pc, gen0, page, cursor, received>>

(* The publisher of one transaction has been through Redis and the         *)
(* dashboards, in its own time, and wakes the long-polls.                  *)
Announce(b) ==
  /\ unannounced' = unannounced \ {b}
  /\ gen' = gen + 1
  /\ UNCHANGED <<rows, lost, pc, gen0, page, cursor, received>>

(* Its request is cancelled after the commit: nobody is told. *)
AnnounceLost(b) ==
  /\ unannounced' = unannounced \ {b}
  /\ lost' = lost \cup b
  /\ UNCHANGED <<rows, gen, pc, gen0, page, cursor, received>>

(* The server restarts: the hub forgets, the calls break off, the rows and *)
(* the readers' cursors stay.                                              *)
Restart ==
  /\ gen > 0 \/ unannounced # {}
  /\ gen' = 0
  /\ lost' = lost \cup UNION unannounced
  /\ unannounced' = {}
  /\ pc' = [r \in Readers |-> "idle"]
  /\ page' = [r \in Readers |-> {}]
  /\ UNCHANGED <<rows, gen0, cursor, received>>

------------------------------------------------------------------------------
(* Readers. *)

Step(r, from, to) == pc[r] = from /\ pc' = [pc EXCEPT ![r] = to]

Unread(r) == {i \in Ids : i > cursor[r] /\ rows[i] = Follows[r]}

(* Mutant of Page: the newest rows instead of the oldest. *)
NewestPage(r) == {i \in Unread(r) : Cardinality({j \in Unread(r) : j > i}) < Limit}

(* WHERE ... AND id > cursor ORDER BY id ASC LIMIT ... *)
Page(r) == {i \in Unread(r) : Cardinality({j \in Unread(r) : j < i}) < Limit}

(* The generation is remembered before the rows are read. *)
Poll(r) ==
  /\ Step(r, "idle", "armed")
  /\ gen0' = [gen0 EXCEPT ![r] = gen]
  /\ UNCHANGED <<db, page, cursor, received>>

(* A reader that asked for no wait (wait_ms = 0) is answered at once. *)
Read(r) ==
  /\ \/ Step(r, "armed", "answering")
     \/ Step(r, "armed", "empty") /\ Page(r) = {}
  /\ page' = [page EXCEPT ![r] = Page(r)]
  /\ UNCHANGED <<db, gen0, cursor, received>>

(* Mutant of WaitsFrom: the generation is remembered when the wait begins. *)
WaitsFromNow(r) == gen

WaitsFrom(r) == gen0[r]

(* wait_for_change: if the generation has moved already there is no wait. *)
StartWait(r) ==
  /\ \/ WaitsFrom(r) < gen /\ Step(r, "empty", "woken")
     \/ WaitsFrom(r) >= gen /\ Step(r, "empty", "waiting")
  /\ gen0' = [gen0 EXCEPT ![r] = WaitsFrom(r)]
  /\ UNCHANGED <<db, page, cursor, received>>

Wake(r) ==
  /\ gen0[r] < gen
  /\ Step(r, "waiting", "woken")
  /\ UNCHANGED <<db, gen0, page, cursor, received>>

(* Mutant of Timeout: the wait has no limit. *)
NoTimeout(r) == FALSE /\ UNCHANGED vars

Timeout(r) ==
  /\ Step(r, "waiting", "answering")
  /\ UNCHANGED <<db, gen0, page, cursor, received>>

Reread(r) ==
  /\ Step(r, "woken", "answering")
  /\ page' = [page EXCEPT ![r] = Page(r)]
  /\ UNCHANGED <<db, gen0, cursor, received>>

(* The greatest of a set of ids and zero. *)
Last(S) == IF S = {} THEN 0 ELSE CHOOSE i \in S : \A j \in S : j <= i

(* head_seq is read last, by a query of its own. *)
HeadSeq(r) == Last({i \in Ids : rows[i] = Follows[r]})

(* Where the reader goes on.  The team skill, the workbench and the        *)
(* dashboard take the head_seq of the answer they have shown, and once     *)
(* they stream the seq of each chunk.                                      *)
NextCursor(r) ==
  IF ByHead THEN HeadSeq(r)
  ELSE IF page[r] = {} THEN cursor[r]
  ELSE Last(page[r])

Answer(r) ==
  /\ Step(r, "answering", "idle")
  /\ received' = [received EXCEPT ![r] = @ \cup page[r]]
  /\ cursor' = [cursor EXCEPT ![r] = NextCursor(r)]
  /\ page' = [page EXCEPT ![r] = {}]
  /\ UNCHANGED <<db, gen0>>

(* The answer gets lost: the reader will ask again from the same cursor. *)
Drop(r) ==
  /\ Step(r, "answering", "idle")
  /\ page' = [page EXCEPT ![r] = {}]
  /\ UNCHANGED <<db, gen0, cursor, received>>

------------------------------------------------------------------------------
Writer == Commit \/ (\E b \in unannounced : Announce(b) \/ AnnounceLost(b)) \/ Restart

Reader(r) == \/ Poll(r) \/ Read(r) \/ StartWait(r) \/ Wake(r) \/ Timeout(r)
             \/ Reread(r) \/ Answer(r) \/ Drop(r)

Next == Writer \/ \E r \in Readers : Reader(r)

Spec == Init /\ [][Next]_vars

(* A handler that waits on nothing goes on, a wait ends by its timeout if  *)
(* by nothing else, and a reader keeps asking (the clients poll in a       *)
(* loop).  Answers may be dropped, but not every one.  Announcements owe   *)
(* nothing.                                                                *)
Fairness ==
  \A r \in Readers :
    /\ WF_vars(Poll(r)) /\ WF_vars(Read(r)) /\ WF_vars(StartWait(r))
    /\ WF_vars(Wake(r)) /\ WF_vars(Timeout(r)) /\ WF_vars(Reread(r))
    /\ SF_vars(Answer(r))

FairSpec == Spec /\ Fairness
------------------------------------------------------------------------------
(* Properties. *)

LongPollTypeOK ==
  /\ rows \in Seq(Tags)
  /\ unannounced \subseteq SUBSET Ids
  /\ lost \subseteq Ids
  /\ gen \in Nat
  /\ pc \in [Readers -> Stages]
  /\ gen0 \in [Readers -> Nat]
  /\ page \in [Readers -> SUBSET Ids]
  /\ cursor \in [Readers -> Ids \cup {0}]
  /\ received \in [Readers -> SUBSET Ids]

(* "An event dispatched in the window between the read and the wait cannot *)
(* be missed" (atmcp/hub.py:9-10): a reader that found nothing and waits   *)
(* is about to be woken as soon as a row it has not seen was announced,    *)
(* even if that was before it began to wait.                               *)
NoLostWakeup ==
  \A r \in Readers :
    pc[r] \in {"empty", "waiting"} =>
      \A i \in Unread(r) : i \in lost \cup UNION unannounced \/ gen0[r] < gen

(* Following a stream by the cursor misses nothing and repeats nothing:    *)
(* what a reader was answered with are exactly its rows up to its cursor.  *)
(* So it is, whatever is committed between the queries of one call, for a  *)
(* reader that goes on from the last row it got (ByHead = FALSE); one that *)
(* goes on from head_seq, as it is told to ("Returns chunks + head_seq to  *)
(* continue", atmcp/mcp_server.py:435), misses what the page had no room   *)
(* for and what was committed after the page was read.                     *)
ReceivedIsPrefix ==
  \A r \in Readers : received[r] = {i \in 1..cursor[r] : rows[i] = Follows[r]}

(* Every committed row reaches each reader that follows its tag, keeps     *)
(* asking and goes on from the last row it got, though its announcement,   *)
(* and any answer, may be lost.                                            *)
EveryRowIsReceived ==
  \A r \in Readers, i \in 1..MaxRows :
    i \in Ids /\ rows[i] = Follows[r] ~> i \in received[r]
==============================================================================
