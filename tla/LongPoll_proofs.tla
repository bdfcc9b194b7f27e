-------------------------- MODULE LongPoll_proofs --------------------------
(***************************************************************************)
(* Machine-checked theorems about LongPoll, for any number of readers,     *)
(* tags and rows and any page size.                                        *)
(***************************************************************************)
EXTENDS LongPoll, FiniteSetTheorems, WellFoundedInduction, TLAPS

(* A non-empty set of ids has a greatest one: the sets of larger elements  *)
(* are ordered by inclusion, and a least of them belongs to the greatest.  *)
LEMMA LastIsGreatest ==
  ASSUME NEW n \in Nat, NEW S \in SUBSET (1..n), S # {}
  PROVE  Last(S) \in S /\ \A j \in S : j <= Last(S)
  <1> DEFINE Above(i) == {j \in S : j > i}
             F == {Above(i) : i \in S}
  <1>1. IsFiniteSet(S)
    <2>1. IsFiniteSet(1..n)
      BY FS_Interval
    <2>2. QED
      BY <2>1, FS_Subset
  <1>2. F \subseteq FiniteSubsetsOf(S) /\ F # {}
    <2>1. \A i \in S : Above(i) \in SUBSET S /\ IsFiniteSet(Above(i))
      BY <1>1, FS_Subset
    <2>2. QED
      BY <2>1 DEF FiniteSubsetsOf
  <1>3. PICK T \in F : \A U \in F : <<U, T>> \notin StrictSubsetOrdering(S)
    <2> HIDE DEF F
    <2>1. QED
      BY <1>2, WFMin, FS_StrictSubsetOrderingWellFounded
  <1>4. PICK i \in S : T = Above(i)
    BY <1>3
  <1>5. \A k \in S : k <= i
    <2> SUFFICES ASSUME NEW k \in S, k > i
                 PROVE  FALSE
      OBVIOUS
    <2>1. Above(k) \in F
      OBVIOUS
    <2>2. Above(k) \subseteq Above(i) /\ k \in Above(i) /\ k \notin Above(k)
      <3>1. \A j \in S : j \in Int
        OBVIOUS
      <3>2. k \in Int /\ i \in Int
        BY <3>1
      <3>3. \A j \in S : j > k => j > i
        BY <3>1, <3>2
      <3>4. ~(k > k)
        BY <3>2
      <3>5. QED
        BY <3>3, <3>4
    <2> DEFINE p == <<Above(k), Above(i)>>
    <2>3. p \in (SUBSET S) \X (SUBSET S) /\ p[1] \subseteq p[2] /\ p[1] # p[2]
      BY <2>2
    <2>4. p \in StrictSubsetOrdering(S)
      BY <2>3, Zenon DEF StrictSubsetOrdering
    <2>5. QED
      BY <1>3, <1>4, <2>1, <2>4
  <1>6. Last(S) = CHOOSE m \in S : \A j \in S : j <= m
    BY DEF Last
  <1>7. QED
    BY <1>5, <1>6
(* ... and a least one: the mirror image. *)
LEMMA LeastExists ==
  ASSUME NEW n \in Nat, NEW S \in SUBSET (1..n), S # {}
  PROVE  \E i \in S : \A j \in S : i <= j
  <1> DEFINE M == {n + 1 - i : i \in S}
  <1>1. M \in SUBSET (1..n) /\ M # {}
    <2>1. \A i \in S : n + 1 - i \in 1..n
      OBVIOUS
    <2>2. QED
      BY <2>1
  <1>2. Last(M) \in M /\ \A j \in M : j <= Last(M)
    BY <1>1, LastIsGreatest
  <1>3. PICK i \in S : Last(M) = n + 1 - i
    BY <1>2
  <1>4. \A j \in S : n + 1 - j \in M
    OBVIOUS
  <1> HIDE DEF M
  <1>5. \A j \in S : j \in Int
    OBVIOUS
  <1>6. \A j \in S : n + 1 - j <= n + 1 - i
    BY <1>2, <1>3, <1>4
  <1>7. \A j \in S : i <= j
    BY <1>5, <1>6
  <1>8. QED
    BY <1>7

LEMMA UnreadType ==
  ASSUME LongPollTypeOK, NEW r \in Readers
  PROVE  Len(rows) \in Nat /\ Unread(r) \in SUBSET (1..Len(rows)) /\ IsFiniteSet(Unread(r))
  <1>1. Len(rows) \in Nat /\ Unread(r) \in SUBSET (1..Len(rows))
    BY DEF LongPollTypeOK, Unread, Ids
  <1>2. IsFiniteSet(1..Len(rows))
    BY <1>1, FS_Interval
  <1>3. QED
    BY <1>1, <1>2, FS_Subset

(* A page holds whatever of its reader's rows comes before one it holds:   *)
(* ORDER BY ... LIMIT cuts at the end only.                                *)
LEMMA PageIsInitial ==
  ASSUME LongPollTypeOK, NEW r \in Readers, NEW i \in Page(r), NEW j \in Unread(r), j < i
  PROVE  j \in Page(r)
  <1> DEFINE Before(k) == {m \in Unread(r) : m < k}
  <1>1. i \in Int /\ j \in Int /\ \A m \in Unread(r) : m \in Int
    BY UnreadType DEF Page
  <1>2. Before(j) \subseteq Before(i)
    <2>1. \A m \in Unread(r) : m < j => m < i
      BY <1>1
    <2>2. QED
      BY <2>1
  <1>3. IsFiniteSet(Before(i))
    BY UnreadType, FS_Subset
  <1> HIDE DEF Before
  <1>4. Cardinality(Before(j)) <= Cardinality(Before(i))
        /\ Cardinality(Before(j)) \in Nat /\ Cardinality(Before(i)) \in Nat
    <2>1. IsFiniteSet(Before(j)) /\ Cardinality(Before(j)) <= Cardinality(Before(i))
      BY <1>2, <1>3, FS_Subset
    <2>2. QED
      BY <1>3, <2>1, FS_CardinalityType
  <1>5. Cardinality(Before(i)) < Limit
    BY DEF Page, Before
  <1>6. Cardinality(Before(j)) < Limit
    BY <1>4, <1>5, LongPollAssumption
  <1>7. QED
    BY <1>6 DEF Page, Before

(* An answer is empty only when there is nothing to answer. *)
LEMMA EmptyPage ==
  ASSUME LongPollTypeOK, NEW r \in Readers, Page(r) = {}
  PROVE  Unread(r) = {}
  <1> SUFFICES ASSUME Unread(r) # {}
               PROVE  FALSE
    OBVIOUS
  <1>1. PICK i \in Unread(r) : \A j \in Unread(r) : i <= j
    BY UnreadType, LeastExists
  <1>2. i \in Int /\ \A m \in Unread(r) : m \in Int
    BY UnreadType
  <1>3. {m \in Unread(r) : m < i} = {}
    <2>1. \A m \in Unread(r) : ~(m < i)
      BY <1>1, <1>2
    <2>2. QED
      BY <2>1
  <1>4. Cardinality({m \in Unread(r) : m < i}) = 0
    BY <1>3, FS_EmptySet
  <1>5. i \in Page(r)
    BY <1>4, LongPollAssumption DEF Page
  <1>6. QED
    BY <1>5

------------------------------------------------------------------------------
(* The inductive invariant. *)

(* A generation remembered during a call is not ahead of the hub's. *)
RememberedGen == \A r \in Readers : pc[r] # "idle" => gen0[r] <= gen

(* The page of a call is an initial part of what its reader has not read,  *)
(* and stays so while rows are appended.                                   *)
PageIsNext ==
  \A r \in Readers :
    \A i \in page[r] : i \in Unread(r) /\ \A j \in Unread(r) : j < i => j \in page[r]

(* Only a reader that goes on from the last row it got misses nothing. *)
Prefix == ~ByHead => ReceivedIsPrefix

PollInv == LongPollTypeOK /\ RememberedGen /\ NoLostWakeup /\ PageIsNext /\ Prefix

LEMMA PollInit == Init => PollInv
  <1> SUFFICES ASSUME Init PROVE PollInv
    OBVIOUS
  <1>1. rows = <<>> /\ Len(rows) = 0 /\ Ids = {} /\ rows \in Seq(Tags)
    BY DEF Init, Ids
  <1>2. LongPollTypeOK
    BY <1>1 DEF Init, LongPollTypeOK, Stages
  <1>3. Prefix
    BY DEF Init, Prefix, ReceivedIsPrefix
  <1>4. RememberedGen /\ NoLostWakeup /\ PageIsNext
    BY DEF Init, RememberedGen, NoLostWakeup, PageIsNext
  <1>5. QED
    BY <1>2, <1>3, <1>4 DEF PollInv

------------------------------------------------------------------------------
(* Writers' steps. *)

(* New rows are unannounced, and no page or cursor reaches them. *)
LEMMA CommitInv ==
  ASSUME PollInv, Commit
  PROVE  PollInv'
  <1> USE DEF PollInv
  <1>n. PICK n \in 1..(MaxRows - Len(rows)) :
          \E batch \in [1..n -> Tags] :
            /\ rows' = rows \o batch
            /\ unannounced' = unannounced \cup {(Len(rows) + 1)..(Len(rows) + n)}
    BY DEF Commit
  <1>0. PICK batch \in [1..n -> Tags] :
          /\ rows' = rows \o batch
          /\ unannounced' = unannounced \cup {(Len(rows) + 1)..(Len(rows) + n)}
    BY <1>n
  <1>0a. n \in Nat /\ batch \in Seq(Tags) /\ Len(batch) = n
    OBVIOUS
  <1>1. /\ rows' = rows \o batch
        /\ unannounced' = unannounced \cup {(Len(rows) + 1)..(Len(rows) + Len(batch))}
    BY <1>0, <1>0a
  <1>2. UNCHANGED <<lost, gen, pc, gen0, page, cursor, received>>
    BY DEF Commit
  <1>3. batch \in Seq(Tags) /\ Len(batch) \in Nat
    BY <1>0a
  <1>4. rows \in Seq(Tags) /\ Len(rows) \in Nat
    BY DEF LongPollTypeOK
  <1>5. /\ rows' \in Seq(Tags) /\ Len(rows') = Len(rows) + Len(batch)
        /\ \A i \in 1..Len(rows) : rows'[i] = rows[i]
    BY <1>1, <1>3, <1>4
  <1> DEFINE new == (Len(rows) + 1)..(Len(rows) + Len(batch))
  <1>6. /\ Ids \subseteq Ids' /\ Ids' \subseteq Nat /\ new \subseteq Ids'
        /\ \A i \in Ids : rows'[i] = rows[i] /\ i \in Nat /\ i <= Len(rows)
        /\ \A i \in Ids' : i \in Ids \/ i \in new
        /\ \A i \in Ids' : i \in Ids <=> i <= Len(rows)
    BY <1>3, <1>4, <1>5 DEF Ids
  <1>6a. unannounced' = unannounced \cup {new}
    BY <1>1
  <1> HIDE DEF new
  <1>7. LongPollTypeOK'
    <2>1. unannounced' \subseteq SUBSET Ids'
      BY <1>6, <1>6a DEF LongPollTypeOK
    <2>2. QED
      BY <1>2, <1>5, <1>6, <2>1 DEF LongPollTypeOK
  <1>8. \A r \in Readers : \A i \in Unread(r)' : i \in Unread(r) \/ i \in UNION unannounced'
    BY <1>2, <1>6, <1>6a DEF Unread
  <1>9. NoLostWakeup'
    BY <1>1, <1>2, <1>8 DEF NoLostWakeup
  <1>10. PageIsNext'
    <2> SUFFICES ASSUME NEW r \in Readers, NEW i \in page[r]
                 PROVE  i \in Unread(r)' /\ \A j \in Unread(r)' : j < i => j \in page[r]
      BY <1>2 DEF PageIsNext
    <2>1. i \in Unread(r) /\ i \in Ids /\ \A j \in Unread(r) : j < i => j \in page[r]
      BY DEF PageIsNext, Unread
    <2>2. i \in Unread(r)'
      BY <1>2, <1>6, <2>1 DEF Unread
    <2>3. ASSUME NEW j \in Unread(r)', j < i
          PROVE  j \in page[r]
      <3>1. j \in Ids
        <4>1. j \in Ids' /\ j \in Nat /\ i \in Nat /\ i <= Len(rows)
          BY <1>6, <2>1 DEF Unread
        <4>2. j <= Len(rows)
          BY <1>4, <2>3, <4>1
        <4>3. QED
          BY <1>6, <4>1, <4>2
      <3>2. j \in Unread(r)
        BY <1>2, <1>6, <3>1 DEF Unread
      <3>3. QED
        BY <2>1, <2>3, <3>2
    <2>4. QED
      BY <2>2, <2>3
  <1>11. Prefix'
    <2> SUFFICES ASSUME ~ByHead, NEW r \in Readers
                 PROVE  received[r] = {i \in 1..cursor[r] : rows'[i] = Follows[r]}
      BY <1>2 DEF Prefix, ReceivedIsPrefix
    <2>1. \A i \in 1..cursor[r] : i \in Ids
      BY <1>4 DEF LongPollTypeOK, Ids
    <2>2. QED
      BY <1>6, <2>1 DEF Prefix, ReceivedIsPrefix
  <1>12. QED
    BY <1>2, <1>7, <1>9, <1>10, <1>11 DEF RememberedGen

(* The announcement moves the generation past every remembered one. *)
LEMMA AnnounceInv ==
  ASSUME PollInv, NEW b \in unannounced, Announce(b) \/ AnnounceLost(b)
  PROVE  PollInv'
  <1> USE DEF PollInv
  <1>1. UNCHANGED <<rows, pc, gen0, page, cursor, received>>
    BY DEF Announce, AnnounceLost
  <1>2. Ids' = Ids /\ \A r \in Readers : Unread(r)' = Unread(r)
    BY <1>1 DEF Ids, Unread
  <1>3. b \subseteq Ids
    BY DEF LongPollTypeOK
  <1>4. LongPollTypeOK'
    BY <1>1, <1>2, <1>3 DEF Announce, AnnounceLost, LongPollTypeOK
  <1>5. gen' \in Nat /\ gen \in Nat /\ gen <= gen'
    BY DEF Announce, AnnounceLost, LongPollTypeOK
  <1>6. RememberedGen'
    BY <1>1, <1>5 DEF RememberedGen, LongPollTypeOK
  <1>7. NoLostWakeup'
    <2> SUFFICES ASSUME NEW r \in Readers, pc[r] \in {"empty", "waiting"}, NEW i \in Unread(r)
                 PROVE  i \in lost' \cup UNION unannounced' \/ gen0[r] < gen'
      BY <1>1, <1>2 DEF NoLostWakeup
    <2>1. i \in lost \cup UNION unannounced \/ gen0[r] < gen
      BY DEF NoLostWakeup
    <2>2. gen0[r] \in Nat /\ gen0[r] <= gen
      BY DEF RememberedGen, LongPollTypeOK
    <2>3. CASE Announce(b)
      BY <1>5, <2>2, <2>3 DEF Announce
    <2>4. CASE AnnounceLost(b)
      BY <2>1, <2>4 DEF AnnounceLost
    <2>5. QED
      BY <2>3, <2>4
  <1>8. PageIsNext' /\ Prefix'
    BY <1>1, <1>2 DEF PageIsNext, Prefix, ReceivedIsPrefix
  <1>9. QED
    BY <1>4, <1>6, <1>7, <1>8

LEMMA RestartInv ==
  ASSUME PollInv, Restart
  PROVE  PollInv'
  <1> USE DEF PollInv
  <1>1. UNCHANGED <<rows, gen0, cursor, received>> /\ Ids' = Ids
    BY DEF Restart, Ids
  <1>2. \A r \in Readers : pc'[r] = "idle" /\ page'[r] = {}
    BY DEF Restart
  <1>3. UNION unannounced \subseteq Ids
    BY DEF LongPollTypeOK
  <1>4. LongPollTypeOK'
    BY <1>1, <1>2, <1>3 DEF Restart, LongPollTypeOK, Stages
  <1>5. QED
    BY <1>1, <1>2, <1>4 DEF RememberedGen, NoLostWakeup, PageIsNext, Prefix, ReceivedIsPrefix

------------------------------------------------------------------------------
(* Readers' steps. *)

LEMMA PageType ==
  ASSUME LongPollTypeOK, NEW r \in Readers
  PROVE  Page(r) \in SUBSET Ids
  BY DEF Page, Unread

(* A step that reads no rows and moves no cursor. *)
LEMMA MoveInv ==
  ASSUME PollInv, NEW r \in Readers, NEW s \in Stages, pc' = [pc EXCEPT ![r] = s],
         UNCHANGED <<db, page, cursor, received>>,
         gen0' = gen0 \/ gen0' = [gen0 EXCEPT ![r] = gen],
         pc[r] = "idle" => gen0'[r] = gen,
         s \in {"empty", "waiting"} => pc[r] = "empty" /\ gen0' = gen0
  PROVE  PollInv'
  <1> USE DEF PollInv
  <1>1. UNCHANGED <<rows, unannounced, lost, gen, page, cursor, received>>
    BY DEF db
  <1>2. Ids' = Ids /\ \A q \in Readers : Unread(q)' = Unread(q)
    BY <1>1 DEF Ids, Unread
  <1>3. LongPollTypeOK'
    BY <1>1, <1>2 DEF LongPollTypeOK
  <1>4. RememberedGen'
    BY <1>1 DEF RememberedGen, LongPollTypeOK
  <1>5. NoLostWakeup'
    <2> SUFFICES ASSUME NEW q \in Readers, pc'[q] \in {"empty", "waiting"}, NEW i \in Unread(q)
                 PROVE  i \in lost \cup UNION unannounced \/ gen0'[q] < gen
      BY <1>1, <1>2 DEF NoLostWakeup
    <2>1. pc[q] \in {"empty", "waiting"} /\ gen0'[q] = gen0[q]
      BY DEF LongPollTypeOK
    <2>2. QED
      BY <2>1 DEF NoLostWakeup
  <1>6. PageIsNext' /\ Prefix'
    BY <1>1, <1>2 DEF PageIsNext, Prefix, ReceivedIsPrefix
  <1>7. QED
    BY <1>3, <1>4, <1>5, <1>6

(* A step that reads a page. *)
LEMMA ReadInv ==
  ASSUME PollInv, NEW r \in Readers, Read(r) \/ Reread(r)
  PROVE  PollInv'
  <1> USE DEF PollInv
  <1>1. UNCHANGED <<rows, unannounced, lost, gen, gen0, cursor, received>>
    BY DEF Read, Reread, db
  <1>2. Ids' = Ids /\ \A q \in Readers : Unread(q)' = Unread(q)
    BY <1>1 DEF Ids, Unread
  <1>3. PICK s \in {"answering", "empty"} :
          /\ page' = [page EXCEPT ![r] = Page(r)]
          /\ pc[r] # "idle" /\ pc' = [pc EXCEPT ![r] = s]
          /\ s = "empty" => Page(r) = {}
    BY DEF Read, Reread, Step
  <1>4. LongPollTypeOK'
    BY <1>1, <1>2, <1>3, PageType DEF LongPollTypeOK, Stages
  <1>5. RememberedGen'
    BY <1>1, <1>3 DEF RememberedGen, LongPollTypeOK
  <1>6. NoLostWakeup'
    <2> SUFFICES ASSUME NEW q \in Readers, pc'[q] \in {"empty", "waiting"}, NEW i \in Unread(q)
                 PROVE  i \in lost \cup UNION unannounced \/ gen0[q] < gen
      BY <1>1, <1>2 DEF NoLostWakeup
    <2>1. CASE q = r
      BY <1>3, <2>1, EmptyPage DEF LongPollTypeOK
    <2>2. CASE q # r
      BY <1>3, <2>2 DEF NoLostWakeup, LongPollTypeOK
    <2>3. QED
      BY <2>1, <2>2
  <1>7. PageIsNext'
    <2>1. \A i \in Page(r) : i \in Unread(r) /\ \A j \in Unread(r) : j < i => j \in Page(r)
      BY PageIsInitial DEF Page
    <2>2. QED
      BY <1>1, <1>2, <1>3, <2>1 DEF PageIsNext, LongPollTypeOK
  <1>8. Prefix'
    BY <1>1 DEF Prefix, ReceivedIsPrefix
  <1>9. QED
    BY <1>4, <1>5, <1>6, <1>7, <1>8

LEMMA CursorType ==
  ASSUME LongPollTypeOK, NEW r \in Readers
  PROVE  NextCursor(r) \in Ids \cup {0}
  <1>1. Len(rows) \in Nat /\ page[r] \in SUBSET (1..Len(rows))
    BY DEF LongPollTypeOK, Ids
  <1>2. page[r] # {} => Last(page[r]) \in Ids
    BY <1>1, LastIsGreatest DEF Ids
  <1> DEFINE mine == {i \in Ids : rows[i] = Follows[r]}
  <1>3. mine \in SUBSET (1..Len(rows))
    BY DEF Ids
  <1>4. mine # {} => Last(mine) \in mine
    BY <1>1, <1>3, LastIsGreatest
  <1>5. HeadSeq(r) \in Ids \cup {0}
    <2>1. CASE mine = {}
      BY <2>1 DEF HeadSeq, Last
    <2>2. CASE mine # {}
      BY <1>4, <2>2 DEF HeadSeq
    <2>3. QED
      BY <2>1, <2>2
  <1>6. QED
    BY <1>2, <1>5 DEF NextCursor, LongPollTypeOK

LEMMA AnswerInv ==
  ASSUME PollInv, NEW r \in Readers, Answer(r)
  PROVE  PollInv'
  <1> USE DEF PollInv
  <1>1. UNCHANGED <<rows, unannounced, lost, gen, gen0>> /\ Ids' = Ids
    BY DEF Answer, db, Ids
  <1>2. /\ pc' = [pc EXCEPT ![r] = "idle"]
        /\ page' = [page EXCEPT ![r] = {}]
        /\ cursor' = [cursor EXCEPT ![r] = NextCursor(r)]
        /\ received' = [received EXCEPT ![r] = @ \cup page[r]]
    BY DEF Answer, Step
  <1>3. \A q \in Readers \ {r} : /\ page'[q] = page[q] /\ cursor'[q] = cursor[q]
                                 /\ received'[q] = received[q] /\ pc'[q] = pc[q]
                                 /\ Unread(q)' = Unread(q)
    BY <1>1, <1>2 DEF LongPollTypeOK, Unread
  <1>4. LongPollTypeOK'
    BY <1>1, <1>2, CursorType DEF LongPollTypeOK, Stages
  <1>5. RememberedGen'
    BY <1>1, <1>2 DEF RememberedGen, LongPollTypeOK
  <1>6. NoLostWakeup'
    BY <1>1, <1>2, <1>3 DEF NoLostWakeup, LongPollTypeOK
  <1>7. PageIsNext'
    BY <1>2, <1>3 DEF PageIsNext, LongPollTypeOK
  <1>8. Prefix'
    <2> SUFFICES ASSUME ~ByHead, NEW q \in Readers
                 PROVE  received'[q] = {i \in 1..cursor'[q] : rows[i] = Follows[q]}
      BY <1>1 DEF Prefix, ReceivedIsPrefix
    <2>1. CASE q # r
      BY <1>3, <2>1 DEF Prefix, ReceivedIsPrefix
    <2>2. CASE q = r /\ page[r] = {}
      BY <1>2, <2>2 DEF NextCursor, Prefix, ReceivedIsPrefix, LongPollTypeOK
    <2>3. CASE q = r /\ page[r] # {}
      <3> DEFINE last == Last(page[r])
      <3>1. Len(rows) \in Nat /\ page[r] \in SUBSET (1..Len(rows)) /\ cursor[r] \in Nat
        BY DEF LongPollTypeOK, Ids
      <3>2. last \in page[r] /\ \A j \in page[r] : j <= last
        BY <2>3, <3>1, LastIsGreatest
      <3>3. /\ last \in Unread(r) /\ last \in 1..Len(rows) /\ last > cursor[r]
            /\ \A j \in Unread(r) : j < last => j \in page[r]
            /\ page[r] \subseteq Unread(r)
        BY <3>1, <3>2 DEF PageIsNext, Unread
      <3>4. cursor'[r] = last /\ received'[r] = received[r] \cup page[r]
        BY <1>2, <2>3 DEF NextCursor, LongPollTypeOK
      <3>5. received[r] = {i \in 1..cursor[r] : rows[i] = Follows[r]}
        BY DEF Prefix, ReceivedIsPrefix
      <3> HIDE DEF last
      <3>6. ASSUME NEW i \in 1..last, rows[i] = Follows[r], i > cursor[r]
            PROVE  i \in page[r]
        <4>1. i \in Unread(r)
          BY <3>1, <3>3, <3>6 DEF Unread, Ids
        <4>2. QED
          BY <3>1, <3>2, <3>3, <4>1
      <3>7. \A i \in page[r] : i \in 1..last /\ rows[i] = Follows[r]
        BY <3>1, <3>2, <3>3 DEF Unread
      <3>8. \A i \in 1..last : i \in 1..cursor[r] \/ i > cursor[r]
        BY <3>1, <3>3
      <3>9. 1..cursor[r] \subseteq 1..last
        BY <3>1, <3>3
      <3>10. QED
        BY <2>3, <3>4, <3>5, <3>6, <3>7, <3>8, <3>9
    <2>4. QED
      BY <2>1, <2>2, <2>3
  <1>9. QED
    BY <1>4, <1>5, <1>6, <1>7, <1>8

LEMMA DropInv ==
  ASSUME PollInv, NEW r \in Readers, Drop(r)
  PROVE  PollInv'
  <1> USE DEF PollInv
  <1>1. UNCHANGED <<rows, unannounced, lost, gen, gen0, cursor, received>>
    BY DEF Drop, db
  <1>2. Ids' = Ids /\ \A q \in Readers : Unread(q)' = Unread(q)
    BY <1>1 DEF Ids, Unread
  <1>3. pc' = [pc EXCEPT ![r] = "idle"] /\ page' = [page EXCEPT ![r] = {}]
    BY DEF Drop, Step
  <1>4. LongPollTypeOK'
    BY <1>1, <1>2, <1>3 DEF LongPollTypeOK, Stages
  <1>5. RememberedGen' /\ NoLostWakeup' /\ PageIsNext' /\ Prefix'
    BY <1>1, <1>2, <1>3
    DEF RememberedGen, NoLostWakeup, PageIsNext, Prefix, ReceivedIsPrefix, LongPollTypeOK
  <1>6. QED
    BY <1>4, <1>5

LEMMA ReaderInv ==
  ASSUME PollInv, NEW r \in Readers, Reader(r)
  PROVE  PollInv'
  <1>1. CASE Poll(r)
    BY <1>1, MoveInv DEF Poll, Step, Stages, PollInv, LongPollTypeOK
  <1>2. CASE StartWait(r)
    <2>1. gen0' = gen0
      BY <1>2 DEF StartWait, WaitsFrom, PollInv, LongPollTypeOK
    <2>2. QED
      BY <1>2, <2>1, MoveInv DEF StartWait, Step, Stages
  <1>3. CASE Wake(r) \/ Timeout(r)
    BY <1>3, MoveInv DEF Wake, Timeout, Step, Stages
  <1>4. QED
    BY <1>1, <1>2, <1>3, ReadInv, AnswerInv, DropInv DEF Reader

LEMMA PollNext ==
  ASSUME PollInv, [Next]_vars
  PROVE  PollInv'
  <1>1. CASE UNCHANGED vars
    BY <1>1 DEF vars, db, PollInv, LongPollTypeOK, RememberedGen, NoLostWakeup, PageIsNext,
                Prefix, ReceivedIsPrefix, Unread, Ids
  <1>2. CASE Writer
    BY <1>2, CommitInv, AnnounceInv, RestartInv DEF Writer
  <1>3. QED
    BY <1>1, <1>2, ReaderInv DEF Next

------------------------------------------------------------------------------
(* Every reachable state satisfies the inductive invariant. *)
THEOREM PollInvariance == Spec => []PollInv
  <1>1. Init => PollInv
    BY PollInit
  <1>2. PollInv /\ [Next]_vars => PollInv'
    BY PollNext
  <1>3. QED
    BY <1>1, <1>2, PTL DEF Spec

(* No row that was announced escapes a reader about to wait: the           *)
(* generation read before the query and compared after it covers the gap.  *)
THEOREM WakeupsAreNotLost == Spec => []NoLostWakeup
  <1>1. PollInv => NoLostWakeup
    BY DEF PollInv
  <1>2. QED
    BY <1>1, PollInvariance, PTL

(* A reader that goes on from the last row it got has received exactly its *)
(* rows up to there, with any page size and any interleaving of commits.   *)
THEOREM FollowingMissesNothing == ~ByHead => (Spec => []ReceivedIsPrefix)
  <1> SUFFICES ASSUME ~ByHead
               PROVE  Spec => []ReceivedIsPrefix
    OBVIOUS
  <1>1. PollInv => ReceivedIsPrefix
    BY DEF PollInv, Prefix
  <1>2. QED
    BY <1>1, PollInvariance, PTL

(* Rows, cursors and pages stay in their types, for any table and limit.   *)
THEOREM PollTypes == Spec => []LongPollTypeOK
  <1>1. PollInv => LongPollTypeOK
    BY DEF PollInv
  <1>2. QED
    BY <1>1, PollInvariance, PTL
==============================================================================
