--------------------------- MODULE LiveFeed_proofs ---------------------------
(***************************************************************************)
(* Theorems about WriteTransaction and LiveFeed, for any tasks, pages,     *)
(* limit of a backfill and number of rows.                                 *)
(***************************************************************************)
EXTENDS LiveFeed, WellFoundedInduction, TLAPS

(* Outside its transaction and its announcement a task has no batch. *)
BatchIsUnannounced ==
  \A w \in Writers : pc[w] \notin {"announcing", "unwinding"} => batch[w] = {}

(* The task that writes is in the transaction that is open. *)
WriterIsInTx == \A w \in Writers : pc[w] = "writing" => inTx

TxInv == TxTypeOK /\ BatchIsUnannounced /\ WriterIsInTx /\ WritesAreSerial

Holding == {"beginning", "writing", "unwinding"}

LEMMA TxInitially == TxInit => TxInv
<1> SUFFICES ASSUME TxInit PROVE TxInv
  OBVIOUS
<1>1. pending = <<>> /\ 1..Len(pending) = {} BY DEF TxInit
<1>2. TxTypeOK
  <2>1. <<>> \in Seq(Writers) OBVIOUS
  <2>2. pc \in [Writers -> Stages] /\ batch \in [Writers -> SUBSET (1..committed)] BY DEF TxInit, Stages
  <2> QED BY <1>1, <2>1, <2>2 DEF TxInit, TxTypeOK
<1>3. BatchIsUnannounced /\ WriterIsInTx BY DEF TxInit, BatchIsUnannounced, WriterIsInTx
<1>4. WritesAreSerial BY <1>1 DEF TxInit, WritesAreSerial
<1> QED BY <1>2, <1>3, <1>4 DEF TxInv

(* A step that leaves the database alone, but for opening a transaction,   *)
(* and takes no lock that is held.                                         *)
LEMMA TxQuietly ==
  ASSUME TxInv, NEW w \in Writers, NEW from, NEW to \in Stages, Goes(w, from, to),
         UNCHANGED <<pending, committed>>,
         inTx' \in BOOLEAN, inTx => inTx',
         from # "writing", to # "writing" \/ inTx',
         to \in Holding => from \in Holding \/ \A v \in Writers : ~HoldsLock(v),
         batch' \in [Writers -> SUBSET (1..committed)],
         \A v \in Writers \ {w} : batch'[v] = batch[v],
         batch'[w] = {}, to \notin {"announcing", "unwinding"},
         lost' \subseteq 1..committed, gen' \in Nat
  PROVE  TxInv'
<1> USE DEF TxInv, TxTypeOK
<1>1. pc' = [pc EXCEPT ![w] = to] /\ pc[w] = from BY DEF Goes
<1>2. TxTypeOK' BY <1>1
<1>3. BatchIsUnannounced' BY <1>1 DEF BatchIsUnannounced
<1>4. WriterIsInTx' BY <1>1 DEF WriterIsInTx
<1>5. ASSUME NEW u \in Writers, NEW v \in Writers,
             {pc'[u], pc'[v]} \subseteq {"beginning", "writing", "unwinding"}
      PROVE  u = v
  BY <1>1, <1>5 DEF WritesAreSerial, HoldsLock, Holding
<1>6. \A i \in 1..Len(pending) : pc'[pending[i]] = "writing" /\ inTx'
  BY <1>1 DEF WritesAreSerial
<1> QED BY <1>2, <1>3, <1>4, <1>5, <1>6 DEF WritesAreSerial

(* A step of the task in the transaction that ends it. *)
LEMMA TxEnds ==
  ASSUME TxInv, NEW w \in Writers, NEW to \in {"idle", "announcing", "unwinding"},
         Goes(w, "writing", to), NEW n \in 0..Len(pending), EndTx(n),
         batch' = [batch EXCEPT ![w] = (committed + 1)..(committed + n)],
         to \notin {"announcing", "unwinding"} => n = 0,
         UNCHANGED <<lost, gen>>
  PROVE  TxInv'
<1> USE DEF TxInv, TxTypeOK
<1>0. Len(pending) \in Nat /\ n \in Nat BY DEF TxTypeOK
<1>1. pc' = [pc EXCEPT ![w] = to] /\ pc[w] = "writing" BY DEF Goes
<1>2. pending' = <<>> /\ inTx' = FALSE /\ committed' = committed + n BY DEF EndTx
<1>3. TxTypeOK'
  <2>1. committed' \in Nat /\ 1..committed \subseteq 1..committed' BY <1>0, <1>2
  <2>2. (committed + 1)..(committed + n) \subseteq 1..committed' BY <1>0, <1>2
  <2>3. batch' \in [Writers -> SUBSET (1..committed')]
    <3>1. batch \in [Writers -> SUBSET (1..committed')] BY <2>1
    <3> QED BY <2>2, <3>1
  <2>4. lost' \subseteq 1..committed' BY <2>1
  <2>5. pc' \in [Writers -> Stages] BY <1>1 DEF Stages
  <2>6. pending' \in Seq(Writers) BY <1>2
  <2>7. gen' \in Nat OBVIOUS
  <2> QED BY <1>2, <2>1, <2>3, <2>4, <2>5, <2>6, <2>7
<1>4. BatchIsUnannounced' BY <1>0, <1>1 DEF BatchIsUnannounced
<1>5. \A v \in Writers \ {w} : pc[v] # "writing" BY <1>1 DEF WritesAreSerial
<1>6. WriterIsInTx' BY <1>1, <1>5 DEF WriterIsInTx
<1>7. WritesAreSerial'
  <2>1. ASSUME NEW u \in Writers, NEW v \in Writers,
               {pc'[u], pc'[v]} \subseteq {"beginning", "writing", "unwinding"}
        PROVE  u = v
    <3>1. {pc[u], pc[v]} \subseteq {"beginning", "writing", "unwinding"} BY <1>1, <2>1
    <3> QED BY <3>1 DEF WritesAreSerial
  <2>2. 1..Len(pending') = {} BY <1>2
  <2> QED BY <2>1, <2>2 DEF WritesAreSerial
<1> QED BY <1>3, <1>4, <1>6, <1>7

LEMMA TransactKeeps ==
  ASSUME TxInv, NEW w \in Writers, Transact(w)
  PROVE  TxInv'
<1>0. /\ pc \in [Writers -> Stages] /\ Len(pending) \in Nat /\ committed \in Nat
      /\ inTx \in BOOLEAN /\ gen \in Nat /\ lost \subseteq 1..committed
      /\ batch \in [Writers -> SUBSET (1..committed)]
  BY DEF TxInv, TxTypeOK
<1>1. pc[w] \notin {"announcing", "unwinding"} => batch[w] = {} BY DEF TxInv, BatchIsUnannounced
<1>2. CASE Ask(w)
  BY <1>0, <1>1, <1>2, TxQuietly DEF Ask, Goes, Stages, Holding, db, hub
<1>3. CASE Acquire(w)
  BY <1>0, <1>1, <1>3, TxQuietly DEF Acquire, Goes, Stages, Holding, db, hub
<1>4. CASE Begin(w)
  BY <1>0, <1>1, <1>4, TxQuietly DEF Begin, Goes, Stages, Holding, hub
<1>5. CASE BeginFails(w)
  BY <1>0, <1>1, <1>5, TxQuietly DEF BeginFails, Goes, Stages, Holding, db, hub
<1>6. CASE CancelledAtBegin(w)
  BY <1>0, <1>1, <1>6, TxQuietly DEF CancelledAtBegin, Goes, Stages, Holding, hub
<1>7. CASE WriteRow(w)
  <2>1. /\ pending' = Append(pending, w) /\ pc[w] = "writing" /\ UNCHANGED <<pc, inTx, committed, hub>>
    BY <1>7 DEF WriteRow
  <2>2. TxTypeOK' BY <2>1 DEF TxInv, TxTypeOK, hub
  <2>3. BatchIsUnannounced' /\ WriterIsInTx' BY <2>1 DEF TxInv, BatchIsUnannounced, WriterIsInTx, hub
  <2>4. ASSUME NEW i \in 1..Len(pending') PROVE pc'[pending'[i]] = "writing" /\ inTx'
    <3>1. Len(pending') = Len(pending) + 1 BY <2>1 DEF TxInv, TxTypeOK
    <3>2. CASE i = Len(pending) + 1
      BY <2>1, <3>2 DEF TxInv, TxTypeOK, WriterIsInTx
    <3>3. CASE i \in 1..Len(pending)
      BY <2>1, <3>3 DEF TxInv, TxTypeOK, WritesAreSerial
    <3> QED BY <1>0, <3>1, <3>2, <3>3
  <2>5. \A u, v \in Writers :
          {pc'[u], pc'[v]} \subseteq {"beginning", "writing", "unwinding"} => u = v
    BY <2>1 DEF TxInv, WritesAreSerial
  <2> QED BY <2>2, <2>3, <2>4, <2>5 DEF TxInv, WritesAreSerial
<1>8. CASE Commit(w) \/ CancelledAtCommit(w)
  <2> DEFINE n == Len(pending)
  <2>1. /\ EndTx(n) /\ batch' = [batch EXCEPT ![w] = (committed + 1)..(committed + n)]
        /\ UNCHANGED <<lost, gen>>
    BY <1>8 DEF Commit, CancelledAtCommit, NewRows
  <2>2. n \in 0..n BY <1>0
  <2>3. PICK to \in {"idle", "announcing", "unwinding"} :
          Goes(w, "writing", to) /\ (to = "idle" => pending = <<>>)
    BY <1>8 DEF Commit, CancelledAtCommit
  <2>4. to \notin {"announcing", "unwinding"} => n = 0 BY <2>3
  <2> HIDE DEF n
  <2> QED BY <2>1, <2>2, <2>3, <2>4, TxEnds DEF n
<1>10. CASE RollBack(w)
  <2>1. Goes(w, "writing", "idle") /\ EndTx(0) /\ UNCHANGED <<batch, lost, gen>>
    BY <1>10 DEF RollBack, hub
  <2>2. batch[w] = {} BY <1>1, <2>1 DEF Goes
  <2>3. (committed + 1)..(committed + 0) = {} BY <1>0
  <2>4. batch' = [batch EXCEPT ![w] = (committed + 1)..(committed + 0)] BY <1>0, <2>1, <2>2, <2>3
  <2>5. 0 \in 0..Len(pending) BY <1>0
  <2> QED BY <2>1, <2>4, <2>5, TxEnds
<1> QED BY <1>2, <1>3, <1>4, <1>5, <1>6, <1>7, <1>8, <1>10 DEF Transact

LEMMA AnnounceKeeps ==
  ASSUME TxInv, NEW w \in Writers, Announce(w) \/ AnnounceLost(w)
  PROVE  TxInv'
<1>0. /\ pc \in [Writers -> Stages] /\ inTx \in BOOLEAN /\ gen \in Nat /\ lost \subseteq 1..committed
      /\ batch \in [Writers -> SUBSET (1..committed)]
  BY DEF TxInv, TxTypeOK
<1>1. PICK from \in {"announcing", "unwinding"} : Goes(w, from, "idle")
  BY DEF Announce, AnnounceLost
<1>2. /\ UNCHANGED db /\ batch' = [batch EXCEPT ![w] = {}]
      /\ lost' \in {lost, lost \cup batch[w]} /\ gen' \in {gen, gen + 1}
  BY DEF Announce, AnnounceLost
<1>3. lost' \subseteq 1..committed /\ gen' \in Nat BY <1>0, <1>2
<1>4. /\ batch' \in [Writers -> SUBSET (1..committed)] /\ batch'[w] = {}
      /\ \A v \in Writers \ {w} : batch'[v] = batch[v]
  BY <1>0, <1>2
<1> QED BY <1>0, <1>1, <1>2, <1>3, <1>4, TxQuietly DEF db, Stages, Holding

LEMMA RestartKeeps ==
  ASSUME TxInv, Restart
  PROVE  TxInv'
<1>0. /\ committed \in Nat /\ lost \subseteq 1..committed
      /\ batch \in [Writers -> SUBSET (1..committed)]
  BY DEF TxInv, TxTypeOK
<1>1. committed' = committed BY <1>0 DEF Restart, EndTx
<1>2. lost' \subseteq 1..committed' BY <1>0, <1>1 DEF Restart
<1>3. pending' = <<>> /\ 1..Len(pending') = {} BY DEF Restart, EndTx
<1>4. TxTypeOK'
  <2>1. pc' \in [Writers -> Stages] /\ batch' \in [Writers -> SUBSET (1..committed')]
    BY DEF Restart, Stages
  <2>2. pending' \in Seq(Writers) BY <1>3
  <2>3. inTx' = FALSE /\ gen' = 0 BY DEF Restart, EndTx
  <2> QED BY <1>0, <1>1, <1>2, <2>1, <2>2, <2>3 DEF TxTypeOK
<1>5. BatchIsUnannounced' /\ WriterIsInTx' BY DEF Restart, BatchIsUnannounced, WriterIsInTx
<1>6. WritesAreSerial' BY <1>3 DEF Restart, WritesAreSerial
<1> QED BY <1>4, <1>5, <1>6 DEF TxInv

LEMMA StutterKeeps ==
  ASSUME TxInv, UNCHANGED txvars
  PROVE  TxInv'
BY DEF txvars, db, hub, TxInv, TxTypeOK, BatchIsUnannounced, WriterIsInTx, WritesAreSerial

LEMMA TxInvariance == TxSpec => []TxInv
<1>1. TxInit => TxInv BY TxInitially
<1>2. TxInv /\ [TxNext]_txvars => TxInv'
  BY TransactKeeps, AnnounceKeeps, RestartKeeps, StutterKeeps DEF TxNext
<1> QED BY <1>1, <1>2, PTL DEF TxSpec

(* One lock serializes the transactions (db.py:151-163): whoever is         *)
(* cancelled or fails at any await, no two tasks hold it, and what a COMMIT *)
(* or ROLLBACK ends is the work of the task that sends it.                  *)
THEOREM SerialTransactions == TxSpec => []WritesAreSerial
  BY TxInvariance, PTL DEF TxInv

------------------------------------------------------------------------------
(* The least of a set of ids, which the loops take first.                  *)
LEMMA LeastIsMember ==
  ASSUME NEW S, S \subseteq Nat, S # {}
  PROVE  Least(S) \in S
<1>1. IsWellFoundedOn(OpToRel(<, Nat), Nat) BY NatLessThanWellFounded
<1>2. PICK x \in S : \A y \in S : <<y, x>> \notin OpToRel(<, Nat) BY <1>1, WFMin
<1>3. ASSUME NEW y \in S PROVE x <= y
  <2>1. y < x => <<y, x>> \in OpToRel(<, Nat) BY DEF OpToRel
  <2>2. ~(y < x) BY <1>2, <2>1, Zenon
  <2>3. x \in Nat /\ y \in Nat OBVIOUS
  <2> QED BY <2>2, <2>3
<1> QED BY <1>3 DEF Least

------------------------------------------------------------------------------
(* The publisher's part of the state, and the pages'. *)
PublisherTypes ==
  /\ todo \in [Writers -> SUBSET (1..committed)]
  /\ targets \in [Writers -> SUBSET Pages]
  /\ sending \in [Writers -> 0..committed]
  /\ \A w \in Writers : todo[w] \subseteq batch[w]
  /\ \A w \in Writers : sending[w] \in batch[w] \cup {0} /\ (sending[w] = 0 => targets[w] = {})

PageTypes ==
  /\ sock \in [Pages -> {"down", "registered", "read", "backfilling", "open"}]
  /\ since \in [Pages -> 0..committed]
  /\ head \in [Pages -> 0..committed]
  /\ backfill \in [Pages -> SUBSET (1..committed)]
  /\ got \in [Pages -> SUBSET (1..committed)]
  /\ upto \in [Pages -> 0..committed]

FeedInv == TxInv /\ PublisherTypes /\ PageTypes /\ NothingFallsBetween

LEMMA FeedInitially == Init => FeedInv
<1> SUFFICES ASSUME Init PROVE FeedInv
  OBVIOUS
<1>1. TxInv BY TxInitially DEF Init
<1>2. committed = 0 BY DEF Init, TxInit
<1>3. PublisherTypes BY <1>2 DEF Init, PublisherTypes
<1>4. PageTypes BY <1>2 DEF Init, PageTypes
<1>5. NothingFallsBetween BY DEF Init, NothingFallsBetween
<1> QED BY <1>1, <1>3, <1>4, <1>5 DEF FeedInv

(* What a step of a transaction does to what the publisher sees of it. *)
LEMMA TransactForm ==
  ASSUME TxInv, NEW w \in Writers, Transact(w)
  PROVE  /\ batch[w] = {}
         /\ committed \in Nat /\ committed' \in Nat /\ committed <= committed'
         /\ batch' = [batch EXCEPT ![w] = (committed + 1)..committed']
         /\ lost' = lost
<1>0. /\ pc \in [Writers -> Stages] /\ Len(pending) \in Nat /\ committed \in Nat
      /\ batch \in [Writers -> SUBSET (1..committed)]
  BY DEF TxInv, TxTypeOK
<1>1. pc[w] \notin {"announcing", "unwinding"}
  <2>1. pc[w] = "idle" \/ pc[w] = "queued" \/ pc[w] = "beginning" \/ pc[w] = "writing"
    BY Zenon DEF Transact, Ask, Acquire, Begin, BeginFails, CancelledAtBegin, WriteRow, Commit,
                 CancelledAtCommit, RollBack, Goes
  <2> QED BY <2>1
<1>2. batch[w] = {} BY <1>1 DEF TxInv, BatchIsUnannounced
<1>3. CASE Commit(w) \/ CancelledAtCommit(w)
  <2>1. /\ committed' = committed + Len(pending) /\ lost' = lost
        /\ batch' = [batch EXCEPT ![w] = (committed + 1)..(committed + Len(pending))]
    BY <1>3 DEF Commit, CancelledAtCommit, EndTx, NewRows
  <2> QED BY <1>0, <1>2, <2>1
<1>4. CASE ~(Commit(w) \/ CancelledAtCommit(w))
  <2>1. UNCHANGED <<batch, lost>>
    BY <1>4 DEF Transact, Ask, Acquire, Begin, BeginFails, CancelledAtBegin, WriteRow, RollBack, hub
  <2>2. committed' = committed \/ committed' = committed + 0
    BY <1>4 DEF Transact, Ask, Acquire, Begin, BeginFails, CancelledAtBegin, WriteRow, RollBack, EndTx, db
  <2>3. committed' = committed BY <1>0, <2>2
  <2>4. (committed + 1)..committed' = {} BY <1>0, <2>3
  <2>5. batch' = [batch EXCEPT ![w] = {}] BY <1>0, <1>2, <2>1
  <2>6. batch' = [batch EXCEPT ![w] = (committed + 1)..committed'] BY <2>4, <2>5, Zenon
  <2>7. committed \in Nat /\ committed' \in Nat /\ committed <= committed' BY <1>0, <2>3
  <2> QED BY <1>2, <2>1, <2>6, <2>7
<1> QED BY <1>3, <1>4

------------------------------------------------------------------------------
(* The pages' types outlive a growing log. *)
LEMMA TypesGrow ==
  ASSUME PublisherTypes, PageTypes, committed \in Nat, NEW m \in Nat, committed <= m
  PROVE  /\ todo \in [Writers -> SUBSET (1..m)]
         /\ sending \in [Writers -> 0..m]
         /\ since \in [Pages -> 0..m]
         /\ head \in [Pages -> 0..m]
         /\ backfill \in [Pages -> SUBSET (1..m)]
         /\ got \in [Pages -> SUBSET (1..m)]
         /\ upto \in [Pages -> 0..m]
<1>1. 0..committed \subseteq 0..m /\ 1..committed \subseteq 1..m OBVIOUS
<1> QED BY <1>1 DEF PublisherTypes, PageTypes

LEMMA LargerInLog ==
  ASSUME NEW n \in Nat, NEW x \in 0..n, NEW y \in 0..n
  PROVE  Larger(x, y) \in 0..n
BY DEF Larger

(* An idle publisher has nothing left to broadcast. *)
LEMMA NothingToBroadcast ==
  ASSUME PublisherTypes, NEW w \in Writers, batch[w] = {}
  PROVE  todo[w] = {} /\ sending[w] = 0 /\ targets[w] = {}
BY DEF PublisherTypes

LEMMA WriteKeeps ==
  ASSUME FeedInv, NEW w \in Writers, Write(w)
  PROVE  FeedInv'
<1> USE DEF FeedInv
<1>1. Transact(w) /\ todo' = [todo EXCEPT ![w] = batch'[w]]
      /\ UNCHANGED <<targets, sending, sockets, head>>
  BY DEF Write
<1>2. TxInv' BY <1>1, TransactKeeps
<1>3. /\ batch[w] = {} /\ lost' = lost
      /\ committed \in Nat /\ committed' \in Nat /\ committed <= committed'
      /\ batch' = [batch EXCEPT ![w] = (committed + 1)..committed']
  BY <1>1, TransactForm
<1>4. batch \in [Writers -> SUBSET (1..committed)] BY DEF TxInv, TxTypeOK
<1>5. batch'[w] = (committed + 1)..committed' BY <1>3, <1>4
<1>6. todo[w] = {} /\ sending[w] = 0 BY <1>3, NothingToBroadcast
<1>7. (committed + 1)..committed' \subseteq 1..committed' BY <1>3
<1>8. PublisherTypes'
  <2>1. /\ todo \in [Writers -> SUBSET (1..committed')] /\ sending \in [Writers -> 0..committed']
    BY <1>3, TypesGrow
  <2>2. todo' \in [Writers -> SUBSET (1..committed')] BY <1>1, <1>5, <1>7, <2>1
  <2>3. ASSUME NEW v \in Writers 
        PROVE  /\ todo'[v] \subseteq batch'[v] /\ sending'[v] \in batch'[v] \cup {0}
               /\ sending'[v] = 0 => targets'[v] = {}
    <3>1. CASE v = w BY <1>1, <1>6, <2>1, <3>1 DEF PublisherTypes
    <3>2. CASE v # w BY <1>1, <1>3, <1>4, <2>1, <3>2 DEF PublisherTypes
    <3> QED BY <3>1, <3>2
  <2> QED BY <1>1, <2>1, <2>2, <2>3 DEF PublisherTypes
<1>9. PageTypes' BY <1>1, <1>3, TypesGrow DEF sockets, PageTypes
<1>10. NothingFallsBetween'
  <2> SUFFICES ASSUME NEW k \in Pages, sock'[k] \in {"read", "backfilling", "open"},
                      NEW e \in (since'[k] + 1)..committed'
               PROVE  \/ e \in got'[k] \cup backfill'[k] \cup lost'
                      \/ \E v \in Writers : e \in todo'[v] \/ (e = sending'[v] /\ k \in targets'[v])
                      \/ e \in (since'[k] + BackfillLimit + 1)..upto'[k]
    BY DEF NothingFallsBetween
  <2>1. UNCHANGED <<sock, since, got, backfill, upto, lost, targets, sending>>
    BY <1>1, <1>3 DEF sockets
  <2>2. since[k] \in Nat /\ e \in Nat BY <1>3, <2>1 DEF PageTypes
  <2>3. CASE e > committed
    <3>1. e \in todo'[w] BY <1>1, <1>3, <1>5, <2>2, <2>3 DEF PublisherTypes
    <3> QED BY <3>1
  <2>4. CASE e <= committed
    <3>1. e \in (since[k] + 1)..committed BY <1>3, <2>1, <2>2, <2>4
    <3>2. CASE e \in got[k] \cup backfill[k] \cup lost \cup ((since[k] + BackfillLimit + 1)..upto[k])
      BY <2>1, <3>2
    <3>3. ASSUME NEW v \in Writers, e \in todo[v] \/ (e = sending[v] /\ k \in targets[v])
          PROVE  e \in todo'[v] \/ (e = sending'[v] /\ k \in targets'[v])
      <4>1. v # w BY <1>6, <2>2, <3>1, <3>3
      <4>2. todo'[v] = todo[v] BY <1>1, <4>1 DEF PublisherTypes
      <4> QED BY <2>1, <3>3, <4>2
    <3> QED BY <2>1, <3>1, <3>2, <3>3 DEF NothingFallsBetween
  <2> QED BY <1>3, <2>2, <2>3, <2>4
<1> QED BY <1>2, <1>8, <1>9, <1>10

(* The publisher's steps leave the database alone. *)
LEMMA PublisherKeeps ==
  ASSUME FeedInv, NEW w \in Writers, Publisher(w)
  PROVE  FeedInv'
<1> USE DEF FeedInv
<1>0. /\ committed \in Nat /\ batch \in [Writers -> SUBSET (1..committed)] /\ lost \subseteq 1..committed
  BY DEF TxInv, TxTypeOK
<1>1. CASE Broadcast(w)
  <2>1. /\ sending[w] = 0 /\ todo[w] # {}
        /\ sending' = [sending EXCEPT ![w] = Least(todo[w])]
        /\ todo' = [todo EXCEPT ![w] = @ \ {Least(todo[w])}]
        /\ targets' = [targets EXCEPT ![w] = {k \in Pages : Registered(k)}]
        /\ UNCHANGED <<txvars, sockets, head>>
    BY <1>1 DEF Broadcast
  <2>2. TxInv' BY <2>1, StutterKeeps
  <2>3. UNCHANGED <<committed, batch, lost>> BY <2>1 DEF txvars, db, hub
  <2>4. Least(todo[w]) \in todo[w] /\ todo[w] \subseteq 1..committed
    BY <2>1, LeastIsMember DEF PublisherTypes
  <2>5. PublisherTypes' BY <1>0, <2>1, <2>3, <2>4 DEF PublisherTypes
  <2>6. PageTypes' BY <2>1, <2>3 DEF PageTypes, sockets
  <2>7. NothingFallsBetween'
    <3> SUFFICES ASSUME NEW k \in Pages, sock[k] \in {"read", "backfilling", "open"},
                        NEW e \in (since[k] + 1)..committed
                 PROVE  \/ e \in got[k] \cup backfill[k] \cup lost
                        \/ \E v \in Writers : e \in todo'[v] \/ (e = sending'[v] /\ k \in targets'[v])
                        \/ e \in (since[k] + BackfillLimit + 1)..upto[k]
      BY <2>1, <2>3 DEF NothingFallsBetween, sockets
    <3>1. e # 0 BY <1>0 DEF PageTypes
    <3>2. CASE e \in got[k] \cup backfill[k] \cup lost BY <3>2
    <3>3. CASE e \in todo[w]
      <4>1. CASE e = Least(todo[w])
        <5>1. k \in targets'[w] BY <2>1 DEF Registered, PublisherTypes
        <5>2. e = sending'[w] BY <2>1, <4>1 DEF PublisherTypes
        <5> QED BY <5>1, <5>2
      <4>2. CASE e # Least(todo[w])
        <5>1. e \in todo'[w] BY <2>1, <3>3, <4>2 DEF PublisherTypes
        <5> QED BY <5>1
      <4> QED BY <4>1, <4>2
    <3>4. ASSUME NEW v \in Writers, e \in todo[v] \/ (e = sending[v] /\ k \in targets[v]), e \notin todo[w]
          PROVE  e \in todo'[v] \/ (e = sending'[v] /\ k \in targets'[v])
      <4>1. v # w BY <2>1, <3>1, <3>4
      <4> QED BY <2>1, <3>4, <4>1 DEF PublisherTypes
    <3> QED BY <3>2, <3>3, <3>4 DEF NothingFallsBetween
  <2> QED BY <2>2, <2>5, <2>6, <2>7
<1>2. CASE \E k \in Pages : SendFrame(w, k)
  <2> PICK p \in Pages : SendFrame(w, p) BY <1>2
  <2>1. /\ p \in targets[w] /\ targets' = [targets EXCEPT ![w] = @ \ {p}]
        /\ got' = [got EXCEPT ![p] = @ \cup {sending[w]}]
        /\ head' = [head EXCEPT ![p] = Larger(@, sending[w])]
        /\ UNCHANGED <<txvars, todo, sending, sock, since, backfill, upto>>
    BY DEF SendFrame, Show
  <2>2. TxInv' BY <2>1, StutterKeeps
  <2>3. UNCHANGED <<committed, batch, lost>> BY <2>1 DEF txvars, db, hub
  <2>4. PublisherTypes' BY <2>1, <2>3 DEF PublisherTypes
  <2>5. sending[w] \in 1..committed BY <1>0, <2>1 DEF PublisherTypes
  <2>6. PageTypes'
    <3>1. head[p] \in 0..committed /\ sending[w] \in 0..committed BY <1>0, <2>5 DEF PageTypes
    <3>2. Larger(head[p], sending[w]) \in 0..committed BY <1>0, <3>1, LargerInLog
    <3> QED BY <2>1, <2>3, <2>5, <3>2 DEF PageTypes
  <2>7. NothingFallsBetween'
    <3> SUFFICES ASSUME NEW k \in Pages, sock[k] \in {"read", "backfilling", "open"},
                        NEW e \in (since[k] + 1)..committed
                 PROVE  \/ e \in got'[k] \cup backfill[k] \cup lost
                        \/ \E v \in Writers : e \in todo[v] \/ (e = sending[v] /\ k \in targets'[v])
                        \/ e \in (since[k] + BackfillLimit + 1)..upto[k]
      BY <2>1, <2>3 DEF NothingFallsBetween
    <3>1. got[k] \subseteq got'[k] BY <2>1 DEF PageTypes
    <3>2. ASSUME NEW v \in Writers, e = sending[v], k \in targets[v]
          PROVE  e \in got'[k] \/ k \in targets'[v]
      BY <2>1, <3>2 DEF PageTypes, PublisherTypes
    <3> QED BY <3>1, <3>2 DEF NothingFallsBetween
  <2> QED BY <2>2, <2>4, <2>6, <2>7
<1>3. CASE Broadcasted(w)
  <2>1. /\ sending[w] # 0 /\ targets[w] = {} /\ sending' = [sending EXCEPT ![w] = 0]
        /\ UNCHANGED <<txvars, todo, targets, sockets, head>>
    BY <1>3 DEF Broadcasted
  <2>2. TxInv' BY <2>1, StutterKeeps
  <2>3. UNCHANGED <<committed, batch, lost>> BY <2>1 DEF txvars, db, hub
  <2>4. PublisherTypes' BY <1>0, <2>1, <2>3 DEF PublisherTypes
  <2>5. PageTypes' BY <2>1, <2>3 DEF PageTypes, sockets
  <2>6. NothingFallsBetween'
    BY <2>1, <2>3 DEF NothingFallsBetween, PublisherTypes, sockets
  <2> QED BY <2>2, <2>4, <2>5, <2>6
<1>4. CASE Publish(w) \/ PublishLost(w)
  <2>1. Announce(w) \/ AnnounceLost(w) BY <1>4 DEF Publish, PublishLost
  <2>2. TxInv' BY <2>1, AnnounceKeeps
  <2>3. /\ committed' = committed /\ lost \subseteq lost'
        /\ batch' = [batch EXCEPT ![w] = {}]
        /\ UNCHANGED <<sockets, head>>
    BY <1>4, <2>1 DEF Publish, PublishLost, Announce, AnnounceLost, db, feedvars, sockets
  <2>4. /\ todo' = [todo EXCEPT ![w] = {}]
        /\ targets' = [targets EXCEPT ![w] = {}]
        /\ sending' = [sending EXCEPT ![w] = 0]
    BY <1>4 DEF Publish, PublishLost, feedvars, PublisherTypes
  <2>5. PublisherTypes' BY <1>0, <2>3, <2>4 DEF PublisherTypes
  <2>6. PageTypes' BY <2>3 DEF PageTypes, sockets
  <2>7. todo[w] \subseteq lost' /\ (sending[w] = 0 \/ sending[w] \in lost')
    BY <1>4 DEF Publish, PublishLost, AnnounceLost, PublisherTypes
  <2>8. NothingFallsBetween'
    <3> SUFFICES ASSUME NEW k \in Pages, sock[k] \in {"read", "backfilling", "open"},
                        NEW e \in (since[k] + 1)..committed
                 PROVE  \/ e \in got[k] \cup backfill[k] \cup lost'
                        \/ \E v \in Writers : e \in todo'[v] \/ (e = sending'[v] /\ k \in targets'[v])
                        \/ e \in (since[k] + BackfillLimit + 1)..upto[k]
      BY <2>3 DEF NothingFallsBetween, sockets
    <3>1. e # 0 BY <1>0 DEF PageTypes
    <3>2. ASSUME NEW v \in Writers, e \in todo[v] \/ (e = sending[v] /\ k \in targets[v])
          PROVE  e \in lost' \/ e \in todo'[v] \/ (e = sending'[v] /\ k \in targets'[v])
      <4>1. CASE v = w BY <2>7, <3>1, <3>2, <4>1
      <4>2. CASE v # w BY <2>4, <3>2, <4>2 DEF PublisherTypes
      <4> QED BY <4>1, <4>2
    <3> QED BY <2>3, <3>2 DEF NothingFallsBetween
  <2> QED BY <2>2, <2>5, <2>6, <2>8
<1> QED BY <1>1, <1>2, <1>3, <1>4 DEF Publisher

(* A step of a page leaves the database and, but for the page's own socket, *)
(* the publishers alone.  What it has to keep of the page itself is that    *)
(* nothing falls between.                                                   *)
LEMMA PageQuietly ==
  ASSUME FeedInv, NEW p \in Pages, UNCHANGED <<txvars, todo, sending>>,
         \A w \in Writers : targets[w] \ {p} \subseteq targets'[w] /\ targets'[w] \subseteq targets[w],
         targets' \in [Writers -> SUBSET Pages],
         PageTypes',
         \A k \in Pages \ {p} : /\ sock'[k] = sock[k] /\ since'[k] = since[k]
                                /\ got'[k] = got[k] /\ backfill'[k] = backfill[k]
                                /\ upto'[k] = upto[k],
         sock'[p] \in {"read", "backfilling", "open"} =>
           \/ /\ since'[p] = since[p]
              /\ (since[p] + 1)..committed
                   \subseteq got'[p] \cup backfill'[p] \cup ((since[p] + BackfillLimit + 1)..upto'[p])
           \/ /\ sock[p] \in {"read", "backfilling", "open"}
              /\ since'[p] = since[p] /\ upto'[p] = upto[p] /\ targets' = targets
              /\ got[p] \cup backfill[p] \subseteq got'[p] \cup backfill'[p]
  PROVE  FeedInv'
<1> USE DEF FeedInv
<1>1. TxInv' BY StutterKeeps
<1>2. UNCHANGED <<committed, batch, lost>> BY DEF txvars, db, hub
<1>3. PublisherTypes'
  <2>1. ASSUME NEW w \in Writers, sending'[w] = 0 PROVE targets'[w] = {}
    <3>1. targets[w] = {} BY <2>1 DEF PublisherTypes
    <3> QED BY <3>1
  <2> QED BY <1>2, <2>1 DEF PublisherTypes
<1>4. NothingFallsBetween'
  <2> SUFFICES ASSUME NEW k \in Pages, sock'[k] \in {"read", "backfilling", "open"},
                      NEW e \in (since'[k] + 1)..committed
               PROVE  \/ e \in got'[k] \cup backfill'[k] \cup lost
                      \/ \E v \in Writers : e \in todo[v] \/ (e = sending[v] /\ k \in targets'[v])
                      \/ e \in (since'[k] + BackfillLimit + 1)..upto'[k]
    BY <1>2 DEF NothingFallsBetween
  <2>1. CASE k # p
    <3>1. \/ e \in got[k] \cup backfill[k] \cup lost
          \/ \E v \in Writers : e \in todo[v] \/ (e = sending[v] /\ k \in targets[v])
          \/ e \in (since[k] + BackfillLimit + 1)..upto[k]
      BY <2>1 DEF NothingFallsBetween
    <3>2. \A v \in Writers : k \in targets[v] => k \in targets'[v] BY <2>1
    <3>3. got'[k] = got[k] /\ backfill'[k] = backfill[k] /\ since'[k] = since[k] /\ upto'[k] = upto[k]
      BY <2>1
    <3> QED BY <3>1, <3>2, <3>3
  <2>2. CASE /\ k = p /\ since'[p] = since[p]
             /\ (since[p] + 1)..committed
                  \subseteq got'[p] \cup backfill'[p] \cup ((since[p] + BackfillLimit + 1)..upto'[p])
    BY <2>2
  <2>3. CASE /\ k = p /\ sock[p] \in {"read", "backfilling", "open"}
             /\ since'[p] = since[p] /\ upto'[p] = upto[p] /\ targets' = targets
             /\ got[p] \cup backfill[p] \subseteq got'[p] \cup backfill'[p]
    <3>1. \/ e \in got[k] \cup backfill[k] \cup lost
          \/ \E v \in Writers : e \in todo[v] \/ (e = sending[v] /\ k \in targets[v])
          \/ e \in (since[k] + BackfillLimit + 1)..upto[k]
      BY <2>3 DEF NothingFallsBetween
    <3> QED BY <2>3, <3>1
  <2> QED BY <2>1, <2>2, <2>3
<1> QED BY <1>1, <1>3, <1>4

LEMMA PageKeeps ==
  ASSUME FeedInv, NEW p \in Pages, Page(p)
  PROVE  FeedInv'
<1>0. /\ committed \in Nat /\ PageTypes /\ PublisherTypes
      /\ targets \in [Writers -> SUBSET Pages] /\ committed \in 0..committed
  BY DEF FeedInv, TxInv, TxTypeOK, PublisherTypes
<1>1. UNCHANGED <<txvars, todo, sending>>
  BY DEF Page, Connect, ReadBackfill, Hello, SendBackfill, Backfilled, Disconnect, Snapshot, Show,
         SockGoes, publishers
<1>2. committed' = committed BY <1>1 DEF txvars, db
<1>3. Larger(head[p], committed) \in 0..committed
  <2>1. head[p] \in 0..committed BY <1>0 DEF PageTypes
  <2> QED BY <1>0, <2>1, LargerInLog
<1>4. CASE Connect(p)
  <2>1. /\ sock' = [sock EXCEPT ![p] = "registered"] /\ since' = [since EXCEPT ![p] = head[p]]
        /\ got' = [got EXCEPT ![p] = {}] /\ UNCHANGED <<targets, backfill, upto, head>>
    BY <1>4 DEF Connect, SockGoes, publishers
  <2>2. PageTypes' BY <1>0, <1>2, <2>1 DEF PageTypes
  <2>3. sock'[p] = "registered" BY <1>0, <2>1 DEF PageTypes
  <2> QED BY <1>0, <1>1, <2>1, <2>2, <2>3, PageQuietly DEF PageTypes
<1>5. CASE ReadBackfill(p)
  <2> DEFINE oldest == {e \in (since[p] + 1)..committed : e <= since[p] + BackfillLimit}
  <2>1. /\ sock' = [sock EXCEPT ![p] = "read"]
        /\ backfill' = [backfill EXCEPT ![p] = oldest]
        /\ upto' = [upto EXCEPT ![p] = committed]
        /\ UNCHANGED <<targets, since, got, head>>
    BY <1>5 DEF ReadBackfill, SockGoes, publishers
  <2>2. oldest \subseteq 1..committed BY <1>0 DEF PageTypes
  <2>3. (since[p] + 1)..committed \subseteq oldest \cup ((since[p] + BackfillLimit + 1)..committed)
    BY <1>0, FeedAssumption DEF PageTypes
  <2> HIDE DEF oldest
  <2>4. PageTypes' BY <1>0, <1>2, <2>1, <2>2 DEF PageTypes
  <2>5. backfill'[p] = oldest /\ upto'[p] = committed BY <1>0, <2>1 DEF PageTypes
  <2>6. (since[p] + 1)..committed
           \subseteq got'[p] \cup backfill'[p] \cup ((since[p] + BackfillLimit + 1)..upto'[p])
    BY <2>3, <2>5
  <2> QED BY <1>0, <1>1, <2>1, <2>4, <2>6, PageQuietly DEF PageTypes
<1>6. CASE Hello(p)
  <2>1. /\ sock' = [sock EXCEPT ![p] = "backfilling"] /\ sock[p] = "read"
        /\ head' = [head EXCEPT ![p] = Larger(@, committed)]
        /\ UNCHANGED <<targets, since, backfill, upto, got>>
    BY <1>6 DEF Hello, SockGoes, publishers
  <2>2. PageTypes' BY <1>0, <1>2, <1>3, <2>1 DEF PageTypes
  <2> QED BY <1>0, <1>1, <2>1, <2>2, PageQuietly DEF PageTypes
<1>7. CASE SendBackfill(p)
  <2> DEFINE e == Least(backfill[p])
  <2>1. /\ sock[p] = "backfilling" /\ backfill[p] # {}
        /\ backfill' = [backfill EXCEPT ![p] = @ \ {e}]
        /\ got' = [got EXCEPT ![p] = @ \cup {e}]
        /\ head' = [head EXCEPT ![p] = Larger(@, e)]
        /\ UNCHANGED <<targets, sock, since, upto>>
    BY <1>7 DEF SendBackfill, Show, publishers
  <2>2. e \in 1..committed BY <1>0, <2>1, LeastIsMember DEF PageTypes
  <2> HIDE DEF e
  <2>3. PageTypes'
    <3>1. head[p] \in 0..committed /\ e \in 0..committed BY <1>0, <2>2 DEF PageTypes
    <3>2. Larger(head[p], e) \in 0..committed BY <1>0, <3>1, LargerInLog
    <3> QED BY <1>0, <1>2, <2>1, <2>2, <3>2 DEF PageTypes
  <2>4. got[p] \cup backfill[p] \subseteq got'[p] \cup backfill'[p] BY <1>0, <2>1 DEF PageTypes
  <2> QED BY <1>0, <1>1, <2>1, <2>3, <2>4, PageQuietly DEF PageTypes
<1>8. CASE Backfilled(p)
  <2>1. /\ sock' = [sock EXCEPT ![p] = "open"] /\ sock[p] = "backfilling"
        /\ UNCHANGED <<targets, since, backfill, upto, got, head>>
    BY <1>8 DEF Backfilled, SockGoes, publishers
  <2>2. PageTypes' BY <1>0, <1>2, <2>1 DEF PageTypes
  <2> QED BY <1>0, <1>1, <2>1, <2>2, PageQuietly DEF PageTypes
<1>9. CASE Disconnect(p)
  <2>1. /\ targets' = [w \in Writers |-> targets[w] \ {p}]
        /\ sock' = [sock EXCEPT ![p] = "down"]
        /\ backfill' = [backfill EXCEPT ![p] = {}]
        /\ UNCHANGED <<since, upto, got, head>>
    BY <1>9 DEF Disconnect
  <2>2. PageTypes' BY <1>0, <1>2, <2>1 DEF PageTypes
  <2>3. sock'[p] = "down" BY <1>0, <2>1 DEF PageTypes
  <2> QED BY <1>0, <1>1, <2>1, <2>2, <2>3, PageQuietly DEF PageTypes
<1>10. CASE Snapshot(p)
  <2>1. PICK newest \in 0..committed : head' = [head EXCEPT ![p] = Larger(@, newest)]
    BY <1>10 DEF Snapshot
  <2>2. UNCHANGED <<targets, sockets>> BY <1>10 DEF Snapshot, publishers
  <2>3. PageTypes'
    <3>1. head[p] \in 0..committed BY <1>0 DEF PageTypes
    <3>2. Larger(head[p], newest) \in 0..committed BY <1>0, <3>1, LargerInLog
    <3> QED BY <1>0, <1>2, <2>1, <2>2, <3>2 DEF PageTypes, sockets
  <2> QED BY <1>0, <1>1, <2>2, <2>3, PageQuietly DEF PageTypes, sockets
<1> QED BY <1>4, <1>5, <1>6, <1>7, <1>8, <1>9, <1>10 DEF Page

LEMMA ServerRestartKeeps ==
  ASSUME FeedInv, RestartServer
  PROVE  FeedInv'
<1>0. committed \in Nat /\ PageTypes /\ TxInv BY DEF FeedInv, TxInv, TxTypeOK
<1>1. /\ Restart
      /\ todo' = [w \in Writers |-> {}] /\ targets' = [w \in Writers |-> {}]
      /\ sending' = [w \in Writers |-> 0]
      /\ sock' = [k \in Pages |-> "down"] /\ backfill' = [k \in Pages |-> {}]
      /\ UNCHANGED <<since, upto, got, head>>
  BY DEF RestartServer
<1>2. TxInv' BY <1>0, <1>1, RestartKeeps
<1>3. committed' = committed BY <1>0, <1>1 DEF Restart, EndTx
<1>4. PublisherTypes' BY <1>0, <1>1, <1>3 DEF PublisherTypes
<1>5. PageTypes' BY <1>0, <1>1, <1>3 DEF PageTypes
<1>6. NothingFallsBetween' BY <1>1 DEF NothingFallsBetween
<1> QED BY <1>2, <1>4, <1>5, <1>6 DEF FeedInv

LEMMA FeedInvariance == Spec => []FeedInv
<1>1. Init => FeedInv BY FeedInitially
<1>2. FeedInv /\ [Next]_vars => FeedInv'
  <2> SUFFICES ASSUME FeedInv, [Next]_vars PROVE FeedInv'
    OBVIOUS
  <2>1. CASE RestartServer BY <2>1, ServerRestartKeeps
  <2>2. CASE \E w \in Writers : Write(w) \/ Publisher(w) BY <2>2, WriteKeeps, PublisherKeeps
  <2>3. CASE \E k \in Pages : Page(k) BY <2>3, PageKeeps
  <2>4. CASE UNCHANGED vars
    <3>1. TxInv' BY <2>4, StutterKeeps DEF vars, FeedInv
    <3>2. /\ UNCHANGED <<todo, targets, sending, sock, since, backfill, upto, got, head>>
          /\ UNCHANGED <<committed, batch, lost>>
      BY <2>4 DEF vars, feedvars, txvars, db, hub
    <3>3. PublisherTypes' /\ PageTypes' BY <3>2 DEF FeedInv, PublisherTypes, PageTypes
    <3>4. NothingFallsBetween' BY <3>2 DEF FeedInv, NothingFallsBetween
    <3> QED BY <3>1, <3>3, <3>4 DEF FeedInv
  <2> QED BY <2>1, <2>2, <2>3, <2>4 DEF Next
<1> QED BY <1>1, <1>2, PTL DEF Spec

------------------------------------------------------------------------------
(* Under the feed's loops the transactions are still those of              *)
(* WriteTransaction: the loops only delay when a publisher's call of it     *)
(* ends (db.py:163-169).                                                    *)
THEOREM FeedImplementsTx == Spec => TxSpec
<1>1. Init => TxInit BY DEF Init
<1>2. [Next]_vars => [TxNext]_txvars
  BY DEF Next, vars, TxNext, RestartServer, Write, Publisher, Broadcast, Broadcasted, Publish,
         PublishLost, SendFrame, Page, Connect, ReadBackfill, Hello, SendBackfill, Backfilled,
         Disconnect, Snapshot
<1> QED BY <1>1, <1>2, PTL DEF Spec, TxSpec

(* Hence one lock serializes the transactions (db.py:151-163): whoever is  *)
(* cancelled or fails at any await, no two tasks hold it, and what a COMMIT *)
(* or ROLLBACK ends is the work of the task that sends it.                  *)
THEOREM SerialWrites == Spec => []WritesAreSerial
  BY FeedImplementsTx, SerialTransactions, PTL

(* The type invariant of the feed, its publishers and its pages.           *)
THEOREM FeedTypes == Spec => []FeedTypeOK
<1>1. FeedInv => FeedTypeOK
  BY DEF FeedInv, FeedTypeOK, TxInv, PublisherTypes, PageTypes
<1> QED BY <1>1, FeedInvariance, PTL

(* A socket that registers before it reads its backfill misses nothing but *)
(* what the backfill's own limit leaves out (web.py:614-624, hub.py:67-74,  *)
(* status.py:52-57): whatever commits, is broadcast or breaks off in        *)
(* between, each event after the page's head has come, is coming, was never *)
(* announced to anybody, or was there when the backfill was read and is     *)
(* further than BackfillLimit from that head.                               *)
THEOREM NoGap == Spec => []NothingFallsBetween
  BY FeedInvariance, PTL DEF FeedInv

------------------------------------------------------------------------------
(* Readers of LongPoll see the transactions as its writers. *)

(* No row is announced twice, and an announcement has rows to announce. *)
BatchesAreApart ==
  /\ \A v, w \in Writers : v # w => batch[v] \cap batch[w] = {}
  /\ \A w \in Writers : pc[w] = "announcing" => batch[w] # {}

RowsAreBounded == committed + Len(pending) <= MaxRows

RowsInv == TxInv /\ BatchesAreApart /\ RowsAreBounded

LEMMA RowsInitially == TxInit => RowsInv
<1> SUFFICES ASSUME TxInit PROVE RowsInv
  OBVIOUS
<1>1. TxInv BY TxInitially
<1>2. BatchesAreApart BY DEF TxInit, BatchesAreApart
<1>3. RowsAreBounded BY TransactionAssumption DEF TxInit, RowsAreBounded
<1> QED BY <1>1, <1>2, <1>3 DEF RowsInv

(* A step of a transaction adds rows, one or more, as the batch of its     *)
(* task, or leaves rows and batches alone.                                 *)
LEMMA TransactRows ==
  ASSUME TxInv, NEW w \in Writers, Transact(w)
  PROVE  /\ UNCHANGED <<lost, gen>> /\ batch[w] = {}
         /\ \/ UNCHANGED <<committed, batch>>
            \/ /\ committed' = committed + Len(pending) /\ Len(pending) # 0
               /\ pending' = <<>>
               /\ batch' = [batch EXCEPT ![w] = (committed + 1)..(committed + Len(pending))]
<1>0. /\ Len(pending) \in Nat /\ committed \in Nat /\ pending \in Seq(Writers)
      /\ batch \in [Writers -> SUBSET (1..committed)]
  BY DEF TxInv, TxTypeOK
<1>1. batch[w] = {} BY TransactForm
<1>2. CASE Commit(w) \/ CancelledAtCommit(w)
  <2>1. /\ committed' = committed + Len(pending) /\ pending' = <<>> /\ UNCHANGED <<lost, gen>>
        /\ batch' = [batch EXCEPT ![w] = (committed + 1)..(committed + Len(pending))]
    BY <1>2 DEF Commit, CancelledAtCommit, EndTx, NewRows
  <2>2. CASE Len(pending) = 0
    <3>1. committed' = committed BY <1>0, <2>1, <2>2
    <3>2. (committed + 1)..(committed + Len(pending)) = {} BY <1>0, <2>2
    <3>3. batch' = batch BY <1>0, <1>1, <2>1, <3>2
    <3> QED BY <1>1, <2>1, <3>1, <3>3
  <2>3. CASE Len(pending) # 0 BY <1>1, <2>1, <2>3
  <2> QED BY <2>2, <2>3
<1>3. CASE ~(Commit(w) \/ CancelledAtCommit(w))
  <2>1. UNCHANGED <<batch, lost, gen>>
    BY <1>3 DEF Transact, Ask, Acquire, Begin, BeginFails, CancelledAtBegin, WriteRow, RollBack, hub
  <2>2. committed' = committed \/ committed' = committed + 0
    BY <1>3 DEF Transact, Ask, Acquire, Begin, BeginFails, CancelledAtBegin, WriteRow, RollBack, EndTx, db
  <2> QED BY <1>0, <1>1, <2>1, <2>2
<1> QED BY <1>2, <1>3

LEMMA TransactRowsKeep ==
  ASSUME RowsInv, NEW w \in Writers, Transact(w)
  PROVE  RowsInv'
<1> USE DEF RowsInv
<1>0. /\ Len(pending) \in Nat /\ committed \in Nat /\ MaxRows \in Nat
      /\ pending \in Seq(Writers) /\ pc \in [Writers -> Stages]
      /\ batch \in [Writers -> SUBSET (1..committed)]
      /\ committed + Len(pending) <= MaxRows
  BY TransactionAssumption DEF TxInv, TxTypeOK, RowsAreBounded
<1>1. TxInv' BY TransactKeeps
<1>2. /\ batch[w] = {}
      /\ \/ UNCHANGED <<committed, batch>>
         \/ /\ committed' = committed + Len(pending) /\ Len(pending) # 0
            /\ pending' = <<>>
            /\ batch' = [batch EXCEPT ![w] = (committed + 1)..(committed + Len(pending))]
  BY TransactRows
<1>3. \A v, u \in Writers : v # u => batch'[v] \cap batch'[u] = {}
  <2>1. CASE UNCHANGED batch BY <2>1 DEF BatchesAreApart
  <2>2. CASE batch' = [batch EXCEPT ![w] = (committed + 1)..(committed + Len(pending))]
    <3>1. \A v \in Writers : batch[v] \cap ((committed + 1)..(committed + Len(pending))) = {}
      BY <1>0
    <3> QED BY <1>0, <2>2, <3>1 DEF BatchesAreApart
  <2> QED BY <1>2, <2>1, <2>2
<1>4. \A v \in Writers : pc'[v] = "announcing" => batch'[v] # {}
  <2>1. CASE Commit(w)
    <3>1. /\ pc' = [pc EXCEPT ![w] = IF pending = <<>> THEN "idle" ELSE "announcing"]
          /\ batch' = [batch EXCEPT ![w] = (committed + 1)..(committed + Len(pending))]
      BY <2>1 DEF Commit, Goes, NewRows
    <3>2. pending # <<>> => committed + 1 \in (committed + 1)..(committed + Len(pending))
      <4>1. pending # <<>> => Len(pending) # 0 BY <1>0
      <4> QED BY <1>0, <4>1
    <3> QED BY <1>0, <3>1, <3>2 DEF BatchesAreApart
  <2>2. CASE ~Commit(w)
    <3>1. \A v \in Writers : pc'[v] = "announcing" => pc[v] = "announcing" /\ v # w
      <4>1. PICK to \in Stages \ {"announcing"} : pc' = [pc EXCEPT ![w] = to]
        <5>1. CASE WriteRow(w)
          <6>1. pc' = [pc EXCEPT ![w] = "writing"] BY <1>0, <5>1 DEF WriteRow
          <6> QED BY <6>1 DEF Stages
        <5>2. CASE ~WriteRow(w)
          <6>1. \/ Goes(w, "idle", "queued") \/ Goes(w, "queued", "beginning")
                \/ Goes(w, "beginning", "writing") \/ Goes(w, "beginning", "idle")
                \/ Goes(w, "writing", "unwinding") \/ Goes(w, "writing", "idle")
            BY <2>2, <5>2 DEF Transact, Ask, Acquire, Begin, BeginFails, CancelledAtBegin,
                              CancelledAtCommit, RollBack
          <6> QED BY <6>1 DEF Goes, Stages
        <5> QED BY <5>1, <5>2
      <4> QED BY <1>0, <4>1
    <3> QED BY <1>0, <1>2, <3>1 DEF BatchesAreApart
  <2> QED BY <2>1, <2>2
<1>5. committed' + Len(pending') <= MaxRows
  <2>1. CASE WriteRow(w)
    <3>1. pending' = Append(pending, w) /\ committed' = committed /\ committed + Len(pending) < MaxRows
      BY <2>1 DEF WriteRow
    <3>2. Len(pending') = Len(pending) + 1 BY <1>0, <3>1
    <3> QED BY <1>0, <3>1, <3>2
  <2>2. CASE Commit(w) \/ CancelledAtCommit(w) \/ RollBack(w)
    <3>1. EndTx(Len(pending)) \/ EndTx(0)
      BY <2>2 DEF Commit, CancelledAtCommit, RollBack
    <3>2. pending' = <<>> /\ (committed' = committed + Len(pending) \/ committed' = committed + 0)
      BY <3>1 DEF EndTx
    <3>3. Len(pending') = 0 BY <3>2
    <3> QED BY <1>0, <3>2, <3>3
  <2>3. CASE ~(WriteRow(w) \/ Commit(w) \/ CancelledAtCommit(w) \/ RollBack(w))
    <3>1. UNCHANGED <<pending, committed>>
      BY <2>3 DEF Transact, Ask, Acquire, Begin, BeginFails, CancelledAtBegin, db
    <3> QED BY <1>0, <3>1
  <2> QED BY <2>1, <2>2, <2>3
<1> QED BY <1>1, <1>3, <1>4, <1>5 DEF BatchesAreApart, RowsAreBounded

LEMMA RowsStep == RowsInv /\ [TxNext]_txvars => RowsInv'
<1> SUFFICES ASSUME RowsInv, [TxNext]_txvars PROVE RowsInv'
  OBVIOUS
<1> USE DEF RowsInv
<1>0. /\ committed \in Nat /\ Len(pending) \in Nat /\ MaxRows \in Nat
      /\ batch \in [Writers -> SUBSET (1..committed)] /\ pc \in [Writers -> Stages]
  BY TransactionAssumption DEF TxInv, TxTypeOK
<1>1. CASE Restart
  <2>1. TxInv' BY <1>1, RestartKeeps
  <2>2. /\ batch' = [w \in Writers |-> {}] /\ pc' = [w \in Writers |-> "idle"]
        /\ pending' = <<>> /\ committed' = committed + 0
    BY <1>1 DEF Restart, EndTx
  <2>3. RowsAreBounded' BY <1>0, <2>2 DEF RowsAreBounded
  <2> QED BY <2>1, <2>2, <2>3 DEF BatchesAreApart
<1>2. ASSUME NEW w \in Writers, Transact(w) PROVE RowsInv'
  BY <1>2, TransactRowsKeep
<1>3. ASSUME NEW w \in Writers, Announce(w) \/ AnnounceLost(w) PROVE RowsInv'
  <2>1. TxInv' BY <1>3, AnnounceKeeps
  <2>2. /\ batch' = [batch EXCEPT ![w] = {}] /\ pc' = [pc EXCEPT ![w] = "idle"]
        /\ UNCHANGED <<pending, committed>>
    BY <1>3 DEF Announce, AnnounceLost, Goes, db
  <2>3. BatchesAreApart' BY <1>0, <2>2 DEF BatchesAreApart
  <2> QED BY <2>1, <2>2, <2>3 DEF RowsAreBounded
<1>4. CASE UNCHANGED txvars
  BY <1>4, StutterKeeps DEF txvars, db, hub, BatchesAreApart, RowsAreBounded
<1> QED BY <1>1, <1>2, <1>3, <1>4 DEF TxNext

(* The log of the readers: as many rows as are committed. *)
LogOf(n) == [i \in 1..n |-> "team"]

LEMMA LogGrows ==
  ASSUME NEW m \in Nat, NEW n \in Nat
  PROVE  LogOf(m) \in Seq({"team"}) /\ Len(LogOf(m)) = m /\ LogOf(m + n) = LogOf(m) \o LogOf(n)
<1>1. LogOf(m) \in Seq({"team"}) /\ Len(LogOf(m)) = m BY DEF LogOf
<1>2. LogOf(n) \in Seq({"team"}) /\ Len(LogOf(n)) = n BY DEF LogOf
<1>3. LogOf(m + n) \in Seq({"team"}) /\ Len(LogOf(m + n)) = m + n BY DEF LogOf
<1>4. LogOf(m) \o LogOf(n) \in Seq({"team"}) /\ Len(LogOf(m) \o LogOf(n)) = m + n
  BY <1>1, <1>2
<1>5. ASSUME NEW i \in 1..(m + n) PROVE LogOf(m + n)[i] = (LogOf(m) \o LogOf(n))[i]
  <2>1. LogOf(m + n)[i] = "team" BY DEF LogOf
  <2>2. (LogOf(m) \o LogOf(n))[i] \in {"team"} BY <1>4
  <2> QED BY <2>1, <2>2
<1> QED BY <1>1, <1>3, <1>4, <1>5

(* What the readers see as unannounced. *)
Unannounced == {batch[w] : w \in Writers} \ {{}}

LEMMA PollDefs ==
  /\ Poll!Ids = 1..Len(LogOf(committed))
  /\ Poll!Init <=> LogOf(committed) = <<>> /\ Unannounced = {} /\ lost = {} /\ gen = 0
  /\ UNCHANGED <<LogOf(committed), Unannounced, lost, gen>> => UNCHANGED Poll!vars
  BY DEF Poll!Ids, Poll!Init, Poll!vars, Poll!db, LogOf, Unannounced

LEMMA StepImplementsPoll ==
  ASSUME RowsInv, RowsInv', [TxNext]_txvars
  PROVE  [Poll!Next]_(Poll!vars)
<1> USE DEF RowsInv
<1>0. /\ committed \in Nat /\ committed' \in Nat /\ Len(pending) \in Nat /\ MaxRows \in Nat
      /\ batch \in [Writers -> SUBSET (1..committed)]
      /\ committed + Len(pending) <= MaxRows
  BY TransactionAssumption DEF TxInv, TxTypeOK, RowsAreBounded
<1>L. Len(LogOf(committed)) = committed /\ LogOf(committed) \in Seq({"team"}) BY <1>0, LogGrows
<1>1. CASE UNCHANGED <<committed, batch, lost, gen>>
  BY <1>1, PollDefs DEF LogOf, Unannounced
<1>2. ASSUME NEW w \in Writers, Transact(w) PROVE [Poll!Next]_(Poll!vars)
  <2>1. /\ UNCHANGED <<lost, gen>> /\ batch[w] = {}
        /\ \/ UNCHANGED <<committed, batch>>
           \/ /\ committed' = committed + Len(pending) /\ Len(pending) # 0
              /\ batch' = [batch EXCEPT ![w] = (committed + 1)..(committed + Len(pending))]
    BY <1>2, TransactRows
  <2>2. CASE UNCHANGED <<committed, batch>> BY <1>1, <2>1, <2>2
  <2>3. CASE /\ committed' = committed + Len(pending) /\ Len(pending) # 0
             /\ batch' = [batch EXCEPT ![w] = (committed + 1)..(committed + Len(pending))]
    <3> PICK n \in Nat : n = Len(pending) BY <1>0
    <3>1. n \in 1..(MaxRows - Len(LogOf(committed))) BY <1>0, <1>L, <2>3
    <3>2. LogOf(n) \in [1..n -> {"team"}] BY DEF LogOf
    <3>3. LogOf(committed)' = LogOf(committed) \o LogOf(n)
      <4>1. LogOf(committed') = LogOf(committed) \o LogOf(n) BY <1>0, <2>3, LogGrows
      <4> QED BY <4>1 DEF LogOf
    <3>4. Unannounced' = Unannounced \cup {(committed + 1)..(committed + n)}
      <4>1. committed + 1 \in (committed + 1)..(committed + n) BY <1>0, <2>3
      <4> DEFINE new == (committed + 1)..(committed + n)
      <4>2. new # {} /\ batch' = [batch EXCEPT ![w] = new] BY <2>3, <4>1
      <4> HIDE DEF new
      <4>3. {batch'[v] : v \in Writers} = {batch[v] : v \in Writers \ {w}} \cup {new}
        BY <1>0, <4>2
      <4>4. {batch[v] : v \in Writers} = {batch[v] : v \in Writers \ {w}} \cup {{}}
        BY <2>1
      <4>5. Unannounced' = Unannounced \cup {new} BY <4>2, <4>3, <4>4 DEF Unannounced
      <4> QED BY <4>5 DEF new
    <3>5. Poll!Commit
      BY <1>L, <2>1, <3>1, <3>2, <3>3, <3>4 DEF Poll!Commit, LogOf, Unannounced
    <3> QED BY <3>5 DEF Poll!Next, Poll!Writer
  <2> QED BY <2>1, <2>2, <2>3
<1>3. ASSUME NEW w \in Writers, Announce(w) \/ AnnounceLost(w) PROVE [Poll!Next]_(Poll!vars)
  <2>1. batch' = [batch EXCEPT ![w] = {}] /\ committed' = committed
    BY <1>3 DEF Announce, AnnounceLost, db
  <2>2. LogOf(committed)' = LogOf(committed) BY <2>1 DEF LogOf
  <2>3. CASE batch[w] = {}
    <3>1. batch' = batch BY <1>0, <2>1, <2>3
    <3>2. ~Announce(w) BY <2>3 DEF Announce, Goes, BatchesAreApart
    <3>3. UNCHANGED <<lost, gen>> BY <1>3, <2>3, <3>2 DEF AnnounceLost
    <3> QED BY <1>1, <2>1, <3>1, <3>3
  <2>4. CASE batch[w] # {}
    <3>1. PICK b \in Unannounced : b = batch[w] BY <2>4 DEF Unannounced
    <3>2. Unannounced' = Unannounced \ {b}
      <4>1. \A v \in Writers \ {w} : batch[v] # b BY <3>1, <2>4 DEF BatchesAreApart
      <4>2. {batch'[v] : v \in Writers} = {batch[v] : v \in Writers \ {w}} \cup {{}}
        BY <1>0, <2>1
      <4> QED BY <3>1, <4>1, <4>2 DEF Unannounced
    <3>3. CASE Announce(w)
      <4>1. gen' = gen + 1 /\ lost' = lost BY <3>3 DEF Announce
      <4>2. Poll!Announce(b)
        BY <2>2, <3>2, <4>1 DEF Poll!Announce, LogOf, Unannounced
      <4> QED BY <4>2 DEF Poll!Next, Poll!Writer, Unannounced
    <3>4. CASE AnnounceLost(w)
      <4>1. lost' = lost \cup b /\ gen' = gen BY <3>1, <3>4 DEF AnnounceLost
      <4>2. Poll!AnnounceLost(b)
        BY <2>2, <3>2, <4>1 DEF Poll!AnnounceLost, LogOf, Unannounced
      <4> QED BY <4>2 DEF Poll!Next, Poll!Writer, Unannounced
    <3> QED BY <1>3, <3>3, <3>4
  <2> QED BY <2>3, <2>4
<1>4. CASE Restart
  <2>1. /\ batch' = [w \in Writers |-> {}] /\ committed' = committed + 0 /\ gen' = 0
        /\ lost' = lost \cup UNION {batch[w] : w \in Writers}
    BY <1>4 DEF Restart, EndTx
  <2>2. committed' = committed BY <1>0, <2>1
  <2>3. LogOf(committed)' = LogOf(committed) BY <2>2 DEF LogOf
  <2>4. Unannounced' = {} BY <2>1 DEF Unannounced
  <2>5. lost' = lost \cup UNION Unannounced BY <2>1 DEF Unannounced
  <2>6. CASE gen > 0 \/ Unannounced # {}
    <3>1. Poll!Restart
      BY <2>1, <2>3, <2>4, <2>5, <2>6 DEF Poll!Restart, LogOf, Unannounced
    <3> QED BY <3>1 DEF Poll!Next, Poll!Writer
  <2>7. CASE ~(gen > 0 \/ Unannounced # {})
    <3>1. gen \in Nat BY DEF TxInv, TxTypeOK
    <3>2. gen' = gen /\ lost' = lost /\ Unannounced' = Unannounced
      BY <2>1, <2>4, <2>5, <2>7, <3>1
    <3> QED BY <2>3, <3>2, PollDefs
  <2> QED BY <2>6, <2>7
<1>5. CASE UNCHANGED txvars BY <1>1, <1>5 DEF txvars, db, hub
<1> QED BY <1>2, <1>3, <1>4, <1>5 DEF TxNext

(* What LongPoll takes of its writers is what db.transaction and its       *)
(* publisher do (db.py:151-169, hub.py:76-103), for transactions of any    *)
(* size and tasks cancelled anywhere: rows become visible in batches, each *)
(* batch is announced once or never, and an announcement moves the         *)
(* generation.                                                             *)
THEOREM TxImplementsLongPoll == TxSpec => ImplementsLongPoll
<1>1. TxInit => RowsInv BY RowsInitially
<1>2. RowsInv /\ [TxNext]_txvars => RowsInv' BY RowsStep
<1>3. TxInit => Poll!Init
  <2> SUFFICES ASSUME TxInit PROVE Poll!Init
    OBVIOUS
  <2>1. committed = 0 /\ lost = {} /\ gen = 0 /\ \A w \in Writers : batch[w] = {} BY DEF TxInit
  <2>2. LogOf(committed) = <<>>
    <3>1. Len(LogOf(0)) = 0 /\ LogOf(0) \in Seq({"team"}) BY LogGrows
    <3> QED BY <2>1, <3>1
  <2>3. Unannounced = {} BY <2>1 DEF Unannounced
  <2> QED BY <2>1, <2>2, <2>3, PollDefs
<1>4. RowsInv /\ RowsInv' /\ [TxNext]_txvars => [Poll!Next]_(Poll!vars)
  BY StepImplementsPoll
<1> QED BY <1>1, <1>2, <1>3, <1>4, PTL DEF TxSpec, ImplementsLongPoll

(* So it is under the feed's loops.                                        *)
THEOREM FeedImplementsLongPoll == Spec => ImplementsLongPoll
  BY FeedImplementsTx, TxImplementsLongPoll, PTL
==============================================================================
