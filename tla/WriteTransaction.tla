-------------------------- MODULE WriteTransaction --------------------------
(***************************************************************************)
(* db.transaction, step by step: the tasks of one server share a single    *)
(* SQLite connection for writing.  Each takes the process-wide lock, sends *)
(* BEGIN IMMEDIATE, writes, sends COMMIT (or ROLLBACK when anything was    *)
(* raised), lets go of the lock and then announces what it wrote.          *)
(*                                                                         *)
(* The connection's statements are executed by a thread of its own, so a   *)
(* task that is cancelled while it awaits one does not undo it: the        *)
(* statement is executed all the same.                                     *)
(***************************************************************************)
EXTENDS Integers, Sequences, FiniteSets

CONSTANTS
  Writers,   \* the server's tasks that write
  BatchSize, \* bound on the rows of a transaction
  MaxRows    \* bound on the committed rows

ASSUME TransactionAssumption ==
  /\ BatchSize \in Nat
  /\ MaxRows \in Nat

VARIABLES
  pc,        \* where each task is
  inTx,      \* does the connection have a transaction open?
  pending,   \* who wrote the rows of the open transaction, in order
  committed, \* the committed rows are 1..committed
  batch,     \* tx.events: the rows a task has committed and not yet announced
  lost,      \* history: committed rows that nobody will announce
  gen        \* hub._gen

db     == <<inTx, pending, committed>>
hub    == <<batch, lost, gen>>
txvars == <<pc, db, hub>>

Stages == {"idle", "queued", "beginning", "writing", "announcing", "unwinding"}

TxInit ==
  /\ pc = [w \in Writers |-> "idle"]
  /\ inTx = FALSE
  /\ pending = <<>>
  /\ committed = 0
  /\ batch = [w \in Writers |-> {}]
  /\ lost = {}
  /\ gen = 0

Goes(w, from, to) == pc[w] = from /\ pc' = [pc EXCEPT ![w] = to]

(* Mutant of HoldsLock: the lock is held only for BEGIN. *)
HoldsLockToBegin(w) == pc[w] = "beginning"

HoldsLock(w) == pc[w] \in {"beginning", "writing", "unwinding"}

------------------------------------------------------------------------------
Ask(w) ==
  /\ Goes(w, "idle", "queued")
  /\ UNCHANGED <<db, hub>>

Acquire(w) ==
  /\ \A v \in Writers : ~HoldsLock(v)
  /\ Goes(w, "queued", "beginning")
  /\ UNCHANGED <<db, hub>>

Begin(w) ==
  /\ ~inTx
  /\ Goes(w, "beginning", "writing")
  /\ inTx' = TRUE
  /\ UNCHANGED <<pending, committed, hub>>

(* BEGIN stands before the try: an error (the file is busy, a transaction  *)
(* is open already) goes to the caller, and nothing is rolled back.        *)
BeginFails(w) ==
  /\ Goes(w, "beginning", "idle")
  /\ UNCHANGED <<db, hub>>

(* So does a cancellation, but the statement is executed. *)
CancelledAtBegin(w) ==
  /\ Goes(w, "beginning", "idle")
  /\ inTx' = TRUE
  /\ UNCHANGED <<pending, committed, hub>>

WriteRow(w) ==
  /\ pc[w] = "writing"
  /\ Len(pending) < BatchSize
  /\ committed + Len(pending) < MaxRows
  /\ pending' = Append(pending, w)
  /\ UNCHANGED <<pc, inTx, committed, hub>>

NewRows == (committed + 1)..(committed + Len(pending))

(* What every end of a transaction does to the connection. *)
EndTx(n) ==
  /\ inTx' = FALSE
  /\ pending' = <<>>
  /\ committed' = committed + n

(* Rows are announced if there are any (a refused call has written none). *)
Commit(w) ==
  /\ Goes(w, "writing", IF pending = <<>> THEN "idle" ELSE "announcing")
  /\ EndTx(Len(pending))
  /\ batch' = [batch EXCEPT ![w] = NewRows]
  /\ UNCHANGED <<lost, gen>>

(* Cancelled while COMMIT is awaited: it is executed all the same, the     *)
(* ROLLBACK that follows fails, and the publisher is never called.         *)
CancelledAtCommit(w) ==
  /\ Goes(w, "writing", "unwinding")
  /\ EndTx(Len(pending))
  /\ batch' = [batch EXCEPT ![w] = NewRows]
  /\ UNCHANGED <<lost, gen>>

(* The handler, or COMMIT, raised, or the task was cancelled in between. *)
RollBack(w) ==
  /\ Goes(w, "writing", "idle")
  /\ EndTx(0)
  /\ UNCHANGED hub

(* Mutant of Announce: the generation is left alone. *)
AnnounceSilently(w) ==
  /\ Goes(w, "announcing", "idle")
  /\ batch' = [batch EXCEPT ![w] = {}]
  /\ UNCHANGED <<db, lost, gen>>

(* The publisher has been through Redis and the sockets: it wakes the      *)
(* long-polls.                                                             *)
Announce(w) ==
  /\ Goes(w, "announcing", "idle")
  /\ batch' = [batch EXCEPT ![w] = {}]
  /\ gen' = gen + 1
  /\ UNCHANGED <<db, lost>>

(* The request is cancelled, during the commit or after it. *)
AnnounceLost(w) ==
  /\ Goes(w, "announcing", "idle") \/ Goes(w, "unwinding", "idle")
  /\ lost' = lost \cup batch[w]
  /\ batch' = [batch EXCEPT ![w] = {}]
  /\ UNCHANGED <<db, gen>>

(* The server restarts: the open transaction is rolled back. *)
Restart ==
  /\ pc' = [w \in Writers |-> "idle"]
  /\ EndTx(0)
  /\ lost' = lost \cup UNION {batch[w] : w \in Writers}
  /\ batch' = [w \in Writers |-> {}]
  /\ gen' = 0

Transact(w) ==
  \/ Ask(w) \/ Acquire(w) \/ Begin(w) \/ BeginFails(w) \/ CancelledAtBegin(w)
  \/ WriteRow(w) \/ Commit(w) \/ CancelledAtCommit(w) \/ RollBack(w)

TxNext == Restart \/ \E w \in Writers : Transact(w) \/ Announce(w) \/ AnnounceLost(w)

TxSpec == TxInit /\ [][TxNext]_txvars
------------------------------------------------------------------------------
(* Properties. *)

TxTypeOK ==
  /\ pc \in [Writers -> Stages]
  /\ inTx \in BOOLEAN
  /\ pending \in Seq(Writers)
  /\ committed \in Nat
  /\ batch \in [Writers -> SUBSET (1..committed)]
  /\ lost \subseteq 1..committed
  /\ gen \in Nat

(* The lock serializes the transactions: no two tasks hold it, and the     *)
(* rows of the open transaction were all written by the task in it, so a   *)
(* COMMIT or ROLLBACK ends exactly that task's work.                       *)
WritesAreSerial ==
  /\ \A v, w \in Writers :
       {pc[v], pc[w]} \subseteq {"beginning", "writing", "unwinding"} => v = w
  /\ \A i \in 1..Len(pending) : pc[pending[i]] = "writing" /\ inTx

(* "Serialized by a single asyncio.Lock, so every multi-statement mutation *)
(* runs as an atomic BEGIN IMMEDIATE ... COMMIT" (atmcp/db.py:4-5): the    *)
(* task that holds the lock finds no transaction open.                     *)
NextWriterCanBegin == \A w \in Writers : pc[w] = "beginning" => ~inTx

(* What the readers of LongPoll assume of the writers: rows become visible *)
(* in batches, each batch is announced after it is visible, or never, and  *)
(* each announcement moves the generation.                                 *)
Poll == INSTANCE LongPoll WITH
  Readers <- {}, Tags <- {"team"}, Follows <- [r \in {} |-> "team"],
  Limit <- 1, ByHead <- FALSE,
  rows <- [i \in 1..committed |-> "team"],
  unannounced <- {batch[w] : w \in Writers} \ {{}},
  pc <- [r \in {} |-> "idle"], gen0 <- [r \in {} |-> 0], page <- [r \in {} |-> {}],
  cursor <- [r \in {} |-> 0], received <- [r \in {} |-> {}]

ImplementsLongPoll == Poll!Init /\ [][Poll!Next]_(Poll!vars)
==============================================================================
