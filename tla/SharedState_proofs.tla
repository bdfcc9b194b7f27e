-------------------------- MODULE SharedState_proofs --------------------------
(***************************************************************************)
(* Theorems about SharedState, for any agents, memory keys, contents and   *)
(* idempotency keys, any number of events and without bound on time.       *)
(***************************************************************************)
EXTENDS SharedState, FiniteSetTheorems, TLAPS

(* The types, by the part of the state that a step changes. *)

EventKinds == {"memory_set", "knowledge_added", "knowledge_retracted"}

LogTypes ==
  /\ log \in Seq([kind : EventKinds, on : Keys \cup Contents, actor : Agents])
  /\ origin \in Seq([agent : Agents, key : IdemKeys \cup {None}, at : Nat])
  /\ Len(origin) = Len(log)
  /\ clock \in Nat

KeyTypes ==
  /\ calls \in [Slots -> Calls \cup {None}]
  /\ idem \in [Slots -> [answer : Events \cup {0}, at : Nat] \cup {None}]
  /\ told \in [Slots -> [answer : Events \cup {0}, at : Nat] \cup {None}]

MemoryTypes ==
  /\ lclock \in Nat
  /\ current \in [Keys -> [version : Nat, lclock : Nat, event : Nat]]
  /\ history \subseteq [key : Keys, expected : Nat \cup {None},
                        row : [version : Nat, lclock : Nat, event : Events]]

Entries == [first_author : Agents, contributor_count : Nat, present : BOOLEAN, last_event : Events]

KnowledgeTypes ==
  /\ contributions \subseteq [content : Contents, author : Agents, event : Events]
  /\ IsFiniteSet(contributions)
  /\ projection \in [Contents -> {None} \cup Entries]
  /\ fts \in [Contents -> Nat]

Types == LogTypes /\ KeyTypes /\ MemoryTypes /\ KnowledgeTypes

------------------------------------------------------------------------------
(* The shapes of a step. *)

(* A call that writes an event of its kind ... *)
Effect(a, ik, call, kind) ==
  /\ Unanswered(a, ik)
  /\ Makes(a, ik, call)
  /\ Record(kind, call.on, a, ik)
  /\ Store(a, ik, NewEvent)
  /\ clock' = clock

(* ... and one that writes none: it is answered as before, or refused. *)
NoEffect(a, ik, call) ==
  /\ Makes(a, ik, call)
  /\ \/ ~Unanswered(a, ik) /\ Tell(a, ik, idem[Slot(a, ik)].answer) /\ idem' = idem
     \/ Unanswered(a, ik) /\ Store(a, ik, 0)
     \/ Unanswered(a, ik) /\ Tell(a, ik, 0) /\ idem' = idem
  /\ UNCHANGED <<memory, knowledge, log, origin, clock>>

LEMMA StepShapes ==
  ASSUME NEW a \in Agents, NEW ik \in IdemKeys \cup {None}, NEW call \in KnownCalls,
         Makes(a, ik, call), Serve(a, ik, call)
  PROVE  \/ NoEffect(a, ik, call)
         \/ /\ call.op = "set" /\ Effect(a, ik, call, "memory_set")
            /\ SetMemory(a, ik, call.on, call.expected)
         \/ /\ call.op = "post" /\ Effect(a, ik, call, "knowledge_added")
            /\ PostKnowledge(a, ik, call.on)
         \/ /\ call.op = "retract" /\ Effect(a, ik, call, "knowledge_retracted")
            /\ RetractKnowledge(a, ik, call.on)
<1>1. CASE Repeat(a, ik) BY <1>1 DEF Repeat, NoEffect
<1>2. CASE call.op = "set" /\ SetMemory(a, ik, call.on, call.expected)
  BY <1>2 DEF SetMemory, Effect
<1>3. CASE call.op = "set" /\ Conflict(a, ik, call.on, call.expected)
  BY <1>3 DEF Conflict, NoEffect
<1>4. CASE call.op = "post" /\ PostKnowledge(a, ik, call.on)
  BY <1>4 DEF PostKnowledge, Effect
<1>5. CASE call.op = "retract" /\ RetractKnowledge(a, ik, call.on)
  BY <1>5 DEF RetractKnowledge, Effect
<1>6. CASE call.op = "retract" /\ RetractUnknown(a, ik, call.on)
  BY <1>6 DEF RetractUnknown, NoEffect
<1> QED BY <1>1, <1>2, <1>3, <1>4, <1>5, <1>6 DEF Serve

(* The call that is served is one its client may make. *)
LEMMA CallMade ==
  ASSUME Types, NEW call \in KnownCalls, NEW a \in Agents, NEW ik \in IdemKeys \cup {None},
         Makes(a, ik, call)
  PROVE  /\ call \in Calls /\ call.on \in Keys \cup Contents
         /\ call.op = "set" => call.on \in Keys /\ call.expected \in Nat \cup {None}
         /\ call.op # "set" => call.on \in Contents
         /\ calls' \in [Slots -> Calls \cup {None}]
         /\ \A s \in Slots : calls[s] # None => calls'[s] = calls[s]
         /\ ik # None => <<a, ik>> \in Slots /\ calls'[<<a, ik>>] = call
<1>1. CASE call \in [op : {"set"}, on : Keys, expected : 0..MaxEvents \cup {None}]
  <2>1. call.on \in Keys /\ current[call.on].version \in Nat
    BY <1>1 DEF Types, MemoryTypes
  <2>2. call.expected \in Nat \cup {None} BY <1>1, <2>1 DEF Makes
  <2>3. call \in [op : {"set"}, on : Keys, expected : Nat \cup {None}] BY <1>1, <2>2
  <2>4. call \in Calls /\ call.op = "set" BY <2>3 DEF Calls
  <2> HIDE DEF Types
  <2>5. calls \in [Slots -> Calls \cup {None}] BY DEF Types, KeyTypes
  <2>6. ik # None => <<a, ik>> \in Slots BY DEF Slots
  <2> QED BY <2>1, <2>2, <2>4, <2>5, <2>6 DEF Makes
<1>2. CASE call \in [op : {"post", "retract"}, on : Contents]
  <2>1. call \in Calls /\ call.op # "set" /\ call.on \in Contents BY <1>2 DEF Calls
  <2>5. calls \in [Slots -> Calls \cup {None}] BY DEF Types, KeyTypes
  <2>6. ik # None => <<a, ik>> \in Slots BY DEF Slots
  <2> QED BY <2>1, <2>5, <2>6 DEF Makes
<1> QED BY <1>1, <1>2 DEF KnownCalls

------------------------------------------------------------------------------
(* The type invariant. *)

LEMMA RecordTypes ==
  ASSUME LogTypes, NEW kind \in EventKinds, NEW on \in Keys \cup Contents, NEW a \in Agents,
         NEW ik \in IdemKeys \cup {None}, Record(kind, on, a, ik), clock' = clock
  PROVE  /\ LogTypes'
         /\ Len(log) \in Nat /\ Len(log') = NewEvent /\ NewEvent \in Nat
         /\ Events' = Events \cup {NewEvent} /\ NewEvent \notin Events
         /\ \A i \in Events : log'[i] = log[i] /\ origin'[i] = origin[i]
         /\ log'[NewEvent] = [kind |-> kind, on |-> on, actor |-> a]
         /\ origin'[NewEvent] = [agent |-> a, key |-> ik, at |-> clock]
<1>1. /\ log' = Append(log, [kind |-> kind, on |-> on, actor |-> a])
      /\ origin' = Append(origin, [agent |-> a, key |-> ik, at |-> clock])
  BY DEF Record
<1>2. [kind |-> kind, on |-> on, actor |-> a] \in [kind : EventKinds, on : Keys \cup Contents, actor : Agents]
  OBVIOUS
<1>3. [agent |-> a, key |-> ik, at |-> clock] \in [agent : Agents, key : IdemKeys \cup {None}, at : Nat]
  BY DEF LogTypes
<1> HIDE DEF EventKinds
<1>4. /\ log' \in Seq([kind : EventKinds, on : Keys \cup Contents, actor : Agents])
      /\ Len(log') = Len(log) + 1 /\ Len(log) \in Nat
      /\ \A i \in 1..Len(log) : log'[i] = log[i]
      /\ log'[Len(log) + 1] = [kind |-> kind, on |-> on, actor |-> a]
  BY <1>1, <1>2 DEF LogTypes
<1>5. /\ origin' \in Seq([agent : Agents, key : IdemKeys \cup {None}, at : Nat])
      /\ Len(origin') = Len(origin) + 1
      /\ \A i \in 1..Len(log) : origin'[i] = origin[i]
      /\ origin'[Len(log) + 1] = [agent |-> a, key |-> ik, at |-> clock]
  BY <1>1, <1>3 DEF LogTypes
<1>6. LogTypes' BY <1>4, <1>5 DEF LogTypes
<1>7. 1..(Len(log) + 1) = (1..Len(log)) \cup {Len(log) + 1} BY <1>4
<1> QED BY <1>4, <1>5, <1>6, <1>7 DEF Events, NewEvent

LEMMA StoreTypes ==
  ASSUME Types, NEW n \in Nat, Events \subseteq 1..n, NEW answer \in 0..n, NEW a \in Agents,
         NEW ik \in IdemKeys \cup {None},
         \/ Store(a, ik, answer)
         \/ Tell(a, ik, answer) /\ idem' = idem
  PROVE  /\ idem' \in [Slots -> [answer : 0..n, at : Nat] \cup {None}]
         /\ told' \in [Slots -> [answer : 0..n, at : Nat] \cup {None}]
<1>1. idem \in [Slots -> [answer : Events \cup {0}, at : Nat] \cup {None}]
      /\ told \in [Slots -> [answer : Events \cup {0}, at : Nat] \cup {None}] /\ clock \in Nat
  BY DEF Types, KeyTypes, LogTypes
<1>2. Events \cup {0} \subseteq 0..n OBVIOUS
<1>3. [answer : Events \cup {0}, at : Nat] \subseteq [answer : 0..n, at : Nat] BY <1>2
<1>4. idem \in [Slots -> [answer : 0..n, at : Nat] \cup {None}]
      /\ told \in [Slots -> [answer : 0..n, at : Nat] \cup {None}]
  BY <1>1, <1>3
<1>5. [answer |-> answer, at |-> clock] \in [answer : 0..n, at : Nat] BY <1>1
<1>6. ik # None => <<a, ik>> \in Slots BY DEF Slots
<1> QED BY <1>4, <1>5, <1>6 DEF Store, Tell, Slot

LEMMA EffectTypes ==
  ASSUME Types, NEW a \in Agents, NEW ik \in IdemKeys \cup {None}, NEW call \in KnownCalls,
         NEW kind \in EventKinds, Effect(a, ik, call, kind)
  PROVE  /\ LogTypes' /\ KeyTypes'
         /\ NewEvent \in Nat /\ Events' = Events \cup {NewEvent} /\ NewEvent \notin Events
<1>1. call.on \in Keys \cup Contents /\ calls' \in [Slots -> Calls \cup {None}]
  BY CallMade DEF Effect
<1>2. /\ LogTypes' /\ Len(log') = NewEvent /\ NewEvent \in Nat /\ Len(log) \in Nat
      /\ Events' = Events \cup {NewEvent} /\ NewEvent \notin Events
  BY <1>1, RecordTypes DEF Effect, Types
<1>3. Events' = 1..NewEvent BY <1>2 DEF Events
<1>4. Events \subseteq 1..NewEvent /\ NewEvent \in 0..NewEvent /\ 0..NewEvent = Events' \cup {0} BY <1>2, <1>3
<1>5. /\ idem' \in [Slots -> [answer : 0..NewEvent, at : Nat] \cup {None}]
      /\ told' \in [Slots -> [answer : 0..NewEvent, at : Nat] \cup {None}]
  BY <1>2, <1>4, StoreTypes DEF Effect
<1>6. KeyTypes' BY <1>1, <1>4, <1>5 DEF KeyTypes
<1> QED BY <1>2, <1>6

LEMMA NoEffectTypes ==
  ASSUME Types, NEW a \in Agents, NEW ik \in IdemKeys \cup {None}, NEW call \in KnownCalls,
         NoEffect(a, ik, call)
  PROVE  Types'
<1>1. calls' \in [Slots -> Calls \cup {None}] BY CallMade DEF NoEffect
<1>2. UNCHANGED <<memory, knowledge, log, origin, clock>> BY DEF NoEffect
<1>3. Events' = Events /\ Len(log) \in Nat BY <1>2 DEF Events, Types, LogTypes
<1>4. PICK answer \in 0..Len(log) : Store(a, ik, answer) \/ (Tell(a, ik, answer) /\ idem' = idem)
  <2>1. CASE ~Unanswered(a, ik) /\ Tell(a, ik, idem[Slot(a, ik)].answer) /\ idem' = idem
    <3>1. ik # None /\ idem[Slot(a, ik)] # None /\ Slot(a, ik) \in Slots BY <2>1 DEF Unanswered, Slot, Slots
    <3>2. idem[Slot(a, ik)] \in [answer : Events \cup {0}, at : Nat] BY <3>1 DEF Types, KeyTypes
    <3>3. idem[Slot(a, ik)].answer \in 0..Len(log) BY <1>3, <3>2 DEF Events
    <3> QED BY <2>1, <3>3
  <2>2. 0 \in 0..Len(log) BY <1>3
  <2> QED BY <2>1, <2>2 DEF NoEffect
<1>5. /\ idem' \in [Slots -> [answer : 0..Len(log), at : Nat] \cup {None}]
      /\ told' \in [Slots -> [answer : 0..Len(log), at : Nat] \cup {None}]
  BY <1>3, <1>4, StoreTypes DEF Events
<1>6. 0..Len(log) = Events \cup {0} BY <1>3 DEF Events
<1>7. KeyTypes' BY <1>1, <1>3, <1>5, <1>6 DEF KeyTypes
<1>8. LogTypes' BY <1>2 DEF Types, LogTypes
<1>9. MemoryTypes' BY <1>2, <1>3 DEF Types, MemoryTypes, memory
<1>10. KnowledgeTypes' BY <1>2, <1>3 DEF Types, KnowledgeTypes, knowledge, Entries
<1> QED BY <1>7, <1>8, <1>9, <1>10 DEF Types

(* What a growing log leaves of the other types. *)
LEMMA TypesOutliveEvents ==
  ASSUME Types, NEW n, Events' = Events \cup {n}
  PROVE  /\ UNCHANGED memory => MemoryTypes'
         /\ UNCHANGED knowledge => KnowledgeTypes'
<1>1. ASSUME UNCHANGED memory PROVE MemoryTypes'
  <2>1. [version : Nat, lclock : Nat, event : Events] \subseteq [version : Nat, lclock : Nat, event : Events']
    OBVIOUS
  <2> QED BY <1>1, <2>1 DEF Types, MemoryTypes, memory
<1>2. ASSUME UNCHANGED knowledge PROVE KnowledgeTypes'
  <2>1. Entries \subseteq Entries' BY DEF Entries
  <2>2. projection \in [Contents -> {None} \cup Entries'] BY <2>1 DEF Types, KnowledgeTypes
  <2>3. contributions \subseteq [content : Contents, author : Agents, event : Events']
    BY DEF Types, KnowledgeTypes
  <2> QED BY <1>2, <2>2, <2>3 DEF Types, KnowledgeTypes, knowledge
<1> QED BY <1>1, <1>2

(* The number of authors in a finite set of contributions is a number. *)
LEMMA CountIsNat ==
  ASSUME NEW C, IsFiniteSet(C), NEW c
  PROVE  ContributorCount(C, c) \in Nat
<1> DEFINE posts == {y \in C : y.content = c}
<1>1. IsFiniteSet(posts) BY FS_Subset
<1> HIDE DEF posts
<1> DEFINE authors == {x.author : x \in posts}
<1>2. [x \in posts |-> x.author] \in Surjection(posts, authors) BY DEF Surjection
<1>3. IsFiniteSet(authors) BY <1>1, <1>2, FS_Surjection
<1> QED BY <1>3, FS_CardinalityType DEF ContributorCount, posts

LEMMA SetTypes ==
  ASSUME Types, NEW k \in Keys, NEW e \in Nat \cup {None}, NEW a, NEW ik, SetMemory(a, ik, k, e),
         NewEvent \in Nat, Events' = Events \cup {NewEvent}
  PROVE  MemoryTypes'
<1>1. /\ lclock' = lclock + 1 /\ current' = [current EXCEPT ![k] = NextRow(k)]
      /\ history' = history \cup {[key |-> k, row |-> NextRow(k), expected |-> e]}
  BY DEF SetMemory
<1>2. lclock \in Nat /\ current \in [Keys -> [version : Nat, lclock : Nat, event : Nat]]
  BY DEF Types, MemoryTypes
<1>3. current[k].version \in Nat BY <1>2
<1>4. NextRow(k) \in [version : Nat, lclock : Nat, event : Events' \cap Nat] BY <1>2, <1>3 DEF NextRow
<1>5. history \subseteq [key : Keys, expected : Nat \cup {None},
                        row : [version : Nat, lclock : Nat, event : Events']]
  <2>1. [version : Nat, lclock : Nat, event : Events] \subseteq [version : Nat, lclock : Nat, event : Events']
    OBVIOUS
  <2> QED BY <2>1 DEF Types, MemoryTypes
<1>6. [key |-> k, row |-> NextRow(k), expected |-> e] \in
        [key : Keys, expected : Nat \cup {None}, row : [version : Nat, lclock : Nat, event : Events']]
  BY <1>4
<1> QED BY <1>1, <1>2, <1>4, <1>5, <1>6 DEF MemoryTypes

LEMMA PostTypes ==
  ASSUME Types, NEW c \in Contents, NEW a \in Agents, NEW ik, PostKnowledge(a, ik, c),
         Events' = Events \cup {NewEvent}
  PROVE  KnowledgeTypes'
<1>1. /\ contributions' = contributions \cup {[content |-> c, author |-> a, event |-> NewEvent]}
      /\ projection' = [projection EXCEPT ![c] =
           [first_author |-> IF @ = None THEN a ELSE @.first_author,
            contributor_count |-> ContributorCount(contributions', c),
            present |-> TRUE, last_event |-> NewEvent]]
      /\ fts' = [fts EXCEPT ![c] = 1]
  BY DEF PostKnowledge
<1>2. /\ contributions \subseteq [content : Contents, author : Agents, event : Events']
      /\ IsFiniteSet(contributions)
      /\ projection \in [Contents -> {None} \cup Entries] /\ fts \in [Contents -> Nat]
  BY DEF Types, KnowledgeTypes
<1>3. Entries \subseteq Entries' BY DEF Entries
<1>4. IsFiniteSet(contributions') BY <1>1, <1>2, FS_AddElement
<1>5. ContributorCount(contributions', c) \in Nat BY <1>4, CountIsNat
<1> DEFINE author == IF projection[c] = None THEN a ELSE projection[c].first_author
           entry  == [first_author |-> author, contributor_count |-> ContributorCount(contributions', c),
                      present |-> TRUE, last_event |-> NewEvent]
<1>6. author \in Agents BY <1>2 DEF Entries
<1> HIDE DEF author
<1>7. entry \in Entries' BY <1>5, <1>6 DEF Entries
<1>8. projection' = [projection EXCEPT ![c] = entry] BY <1>1 DEF author
<1> HIDE DEF entry
<1>9. projection' \in [Contents -> {None} \cup Entries'] BY <1>2, <1>3, <1>7, <1>8
<1>10. contributions' \subseteq [content : Contents, author : Agents, event : Events'] BY <1>1, <1>2
<1>11. fts' \in [Contents -> Nat] BY <1>1, <1>2
<1> QED BY <1>4, <1>9, <1>10, <1>11 DEF KnowledgeTypes

LEMMA RetractTypes ==
  ASSUME Types, NEW c \in Contents, NEW a \in Agents, NEW ik, RetractKnowledge(a, ik, c),
         Events' = Events \cup {NewEvent}
  PROVE  KnowledgeTypes'
<1>1. /\ projection[c] # None /\ contributions' = contributions
      /\ projection' = [projection EXCEPT ![c].present = FALSE, ![c].last_event = NewEvent]
      /\ fts' = [fts EXCEPT ![c] = 0]
  BY DEF RetractKnowledge
<1>2. /\ contributions \subseteq [content : Contents, author : Agents, event : Events']
      /\ IsFiniteSet(contributions)
      /\ projection \in [Contents -> {None} \cup Entries] /\ fts \in [Contents -> Nat]
  BY DEF Types, KnowledgeTypes
<1>3. Entries \subseteq Entries' BY DEF Entries
<1> DEFINE entry == [projection[c] EXCEPT !.present = FALSE, !.last_event = NewEvent]
<1>4. projection[c] \in Entries BY <1>1, <1>2
<1>5. entry \in Entries' BY <1>4 DEF Entries
<1>6. projection' = [projection EXCEPT ![c] = entry] BY <1>1, <1>2
<1> HIDE DEF entry
<1>7. projection' \in [Contents -> {None} \cup Entries'] BY <1>2, <1>3, <1>5, <1>6
<1> QED BY <1>1, <1>2, <1>7 DEF KnowledgeTypes

LEMMA ServeTypes ==
  ASSUME Types, NEW a \in Agents, NEW ik \in IdemKeys \cup {None}, NEW call \in KnownCalls,
         Makes(a, ik, call), Serve(a, ik, call)
  PROVE  Types'
<1>1. CASE NoEffect(a, ik, call) BY <1>1, NoEffectTypes
<1>2. CASE /\ call.op = "set" /\ Effect(a, ik, call, "memory_set")
           /\ SetMemory(a, ik, call.on, call.expected)
  <2>1. /\ LogTypes' /\ KeyTypes' /\ NewEvent \in Nat /\ Events' = Events \cup {NewEvent}
    BY <1>2, EffectTypes DEF EventKinds
  <2>2. call.on \in Keys /\ call.expected \in Nat \cup {None} BY <1>2, CallMade
  <2>3. MemoryTypes' BY <1>2, <2>1, <2>2, SetTypes
  <2>4. KnowledgeTypes' BY <1>2, <2>1, TypesOutliveEvents DEF SetMemory
  <2> QED BY <2>1, <2>3, <2>4 DEF Types
<1>3. CASE /\ call.op = "post" /\ Effect(a, ik, call, "knowledge_added")
           /\ PostKnowledge(a, ik, call.on)
  <2>1. /\ LogTypes' /\ KeyTypes' /\ Events' = Events \cup {NewEvent}
    BY <1>3, EffectTypes DEF EventKinds
  <2>2. call.on \in Contents BY <1>3, CallMade
  <2>3. KnowledgeTypes' BY <1>3, <2>1, <2>2, PostTypes
  <2>4. MemoryTypes' BY <1>3, <2>1, TypesOutliveEvents DEF PostKnowledge
  <2> QED BY <2>1, <2>3, <2>4 DEF Types
<1>4. CASE /\ call.op = "retract" /\ Effect(a, ik, call, "knowledge_retracted")
           /\ RetractKnowledge(a, ik, call.on)
  <2>1. /\ LogTypes' /\ KeyTypes' /\ Events' = Events \cup {NewEvent}
    BY <1>4, EffectTypes DEF EventKinds
  <2>2. call.on \in Contents BY <1>4, CallMade
  <2>3. KnowledgeTypes' BY <1>4, <2>1, <2>2, RetractTypes
  <2>4. MemoryTypes' BY <1>4, <2>1, TypesOutliveEvents DEF RetractKnowledge
  <2> QED BY <2>1, <2>3, <2>4 DEF Types
<1> QED BY <1>1, <1>2, <1>3, <1>4, StepShapes

LEMMA PruneTypes ==
  ASSUME Types, NEW now, Prune(now)
  PROVE  Types'
<1>1. /\ idem' = [s \in Slots |-> IF Outlived(s, now) THEN None ELSE idem[s]]
      /\ UNCHANGED <<memory, knowledge, log, origin, told, clock, calls>>
  BY DEF Prune
<1>2. KeyTypes' BY <1>1 DEF Types, KeyTypes, Events
<1>3. LogTypes' /\ MemoryTypes' /\ KnowledgeTypes'
  BY <1>1 DEF Types, LogTypes, MemoryTypes, KnowledgeTypes, memory, knowledge, Events, Entries
<1> QED BY <1>2, <1>3 DEF Types

LEMMA TickTypes ==
  ASSUME Types, UNCHANGED <<memory, knowledge, records, calls>>, clock' \in Nat
  PROVE  Types'
BY DEF Types, LogTypes, KeyTypes, MemoryTypes, KnowledgeTypes, memory, knowledge, records, Events, Entries

LEMMA InitialTypes == Init => Types
<1> SUFFICES ASSUME Init PROVE Types
  OBVIOUS
<1>1. log = <<>> /\ origin = <<>> /\ Len(log) = 0 /\ Len(origin) = 0 BY DEF Init
<1>2. LogTypes BY <1>1 DEF Init, LogTypes
<1>3. KeyTypes BY DEF Init, KeyTypes
<1>4. MemoryTypes BY DEF Init, MemoryTypes
<1>5. KnowledgeTypes BY FS_EmptySet DEF Init, KnowledgeTypes
<1> QED BY <1>2, <1>3, <1>4, <1>5 DEF Types

LEMMA TypesInvariance == Spec => []Types
<1>1. Types /\ [Next]_vars => Types'
  <2> SUFFICES ASSUME Types, [Next]_vars PROVE Types'
    OBVIOUS
  <2>1. ASSUME NEW a \in Agents, NEW ik \in IdemKeys \cup {None}, NEW call \in KnownCalls,
               Makes(a, ik, call) /\ Serve(a, ik, call)
        PROVE  Types'
    BY <2>1, ServeTypes
  <2>2. CASE \E now \in (clock - LockWait)..clock : Prune(now) BY <2>2, PruneTypes
  <2>3. CASE Tick BY <2>3, TickTypes DEF Tick, Types, LogTypes
  <2>4. CASE UNCHANGED vars BY <2>4, TickTypes DEF vars, Types, LogTypes
  <2> QED BY <2>1, <2>2, <2>3, <2>4 DEF Next
<1> QED BY <1>1, InitialTypes, PTL DEF Spec

------------------------------------------------------------------------------
(* Idempotency keys. *)

Caller(i) == <<origin[i].agent, origin[i].key>>

(* Until IdemTTL has passed, an effect's answer is kept under its key. *)
EffectsAreKept ==
  \A i \in Events : origin[i].key # None /\ clock - origin[i].at <= IdemTTL =>
    /\ idem[Caller(i)] # None
    /\ idem[Caller(i)].answer = i /\ idem[Caller(i)].at = origin[i].at

(* An answer names an event of the slot's caller, on the slot's call. *)
Names(s, n) == n # 0 => Caller(n) = s /\ calls[s] # None /\ log[n].on = calls[s].on

AnswersName ==
  \A s \in Slots : /\ idem[s] # None => Names(s, idem[s].answer)
                   /\ told[s] # None => Names(s, told[s].answer)

(* What was told is the effect the slot had had by then. *)
ToldInTime ==
  \A s \in Slots, i \in Events :
    told[s] # None /\ Caller(i) = s /\ told[s].at - origin[i].at <= IdemTTL => told[s].answer = i

KeyInv == EffectsAreKept /\ AnswersName /\ OneEffectPerKey /\ ToldInTime

LEMMA ElementOfSeq ==
  ASSUME NEW S, NEW q \in Seq(S), NEW i \in 1..Len(q)
  PROVE  q[i] \in S
OBVIOUS

LEMMA EventTypes ==
  ASSUME Types, NEW i \in Events
  PROVE  /\ clock \in Nat /\ i \in Nat /\ i # 0
         /\ origin[i].at \in Nat
         /\ origin[i].key # None <=> Caller(i) \in Slots
         /\ log[i] \in [kind : EventKinds, on : Keys \cup Contents, actor : Agents]
<1>1. Len(log) \in Nat /\ Len(origin) = Len(log) /\ clock \in Nat BY DEF Types, LogTypes
<1>2. i \in 1..Len(log) /\ i \in 1..Len(origin) BY <1>1 DEF Events
<1> DEFINE O == [agent : Agents, key : IdemKeys \cup {None}, at : Nat]
           L == [kind : EventKinds, on : Keys \cup Contents, actor : Agents]
<1>3. origin \in Seq(O) /\ log \in Seq(L) BY DEF Types, LogTypes
<1> HIDE DEF O, L
<1>4. origin[i] \in O /\ log[i] \in L BY <1>2, <1>3, ElementOfSeq
<1>5. origin[i].agent \in Agents /\ origin[i].key \in IdemKeys \cup {None} /\ origin[i].at \in Nat
  BY <1>4 DEF O
<1>6. origin[i].key # None <=> Caller(i) \in Slots BY <1>5, SharedAssumption DEF Caller, Slots
<1> QED BY <1>1, <1>2, <1>4, <1>5, <1>6 DEF L

(* The fields of a stored answer. *)
LEMMA AnswerTypes ==
  ASSUME Types, NEW s \in Slots
  PROVE  /\ idem[s] # None => idem[s].answer \in Events \cup {0} /\ idem[s].at \in Nat
         /\ told[s] # None => told[s].answer \in Events \cup {0} /\ told[s].at \in Nat
BY DEF Types, KeyTypes

LEMMA EffectKeepsKeys ==
  ASSUME Types, KeyInv, NEW a \in Agents, NEW ik \in IdemKeys \cup {None}, NEW call \in KnownCalls,
         NEW kind \in EventKinds, Effect(a, ik, call, kind)
  PROVE  KeyInv'
<1>0. PICK n, p : n = NewEvent /\ p = <<a, ik>> OBVIOUS
<1>1. /\ call \in Calls /\ call.on \in Keys \cup Contents
      /\ \A s \in Slots : calls[s] # None => calls'[s] = calls[s]
      /\ ik # None => p \in Slots /\ calls'[p] = call
  BY <1>0, CallMade DEF Effect
<1>2. /\ Events' = Events \cup {n} /\ n \notin Events /\ n \in Nat /\ clock' = clock /\ Len(log') = n /\ Len(log) \in Nat
      /\ \A i \in Events : log'[i] = log[i] /\ origin'[i] = origin[i]
      /\ log'[n] = [kind |-> kind, on |-> call.on, actor |-> a]
      /\ origin'[n] = [agent |-> a, key |-> ik, at |-> clock]
  BY <1>0, <1>1, RecordTypes DEF Effect, Types
<1>3. /\ idem' = IF ik = None THEN idem ELSE [idem EXCEPT ![p] = [answer |-> n, at |-> clock]]
      /\ told' = IF ik = None THEN told ELSE [told EXCEPT ![p] = [answer |-> n, at |-> clock]]
      /\ ik # None => idem[p] = None
  BY <1>0 DEF Effect, Store, Tell, Slot, Unanswered
<1>4. idem \in [Slots -> [answer : Events \cup {0}, at : Nat] \cup {None}]
      /\ told \in [Slots -> [answer : Events \cup {0}, at : Nat] \cup {None}]
      /\ clock \in Nat /\ IdemTTL \in Nat
  BY SharedAssumption DEF Types, KeyTypes, LogTypes
<1>5. \A i \in Events : Caller(i)' = Caller(i) BY <1>2 DEF Caller
<1>6. Caller(n)' = p BY <1>0, <1>2 DEF Caller
<1>7. [answer |-> n, at |-> clock] # None /\ call # None BY <1>1, <1>2, <1>4, SharedAssumption
<1>8. n # 0 BY <1>0, <1>2 DEF NewEvent, Events
<1>9. ik # None => \A i \in Events : Caller(i) = p => clock - origin[i].at > IdemTTL
  <2> SUFFICES ASSUME ik # None, NEW i \in Events, Caller(i) = p PROVE clock - origin[i].at > IdemTTL
    OBVIOUS
  <2>1. Caller(i) \in Slots /\ origin[i].key # None /\ origin[i].at \in Nat BY <1>1, EventTypes
  <2>2. ~(clock - origin[i].at <= IdemTTL) BY <1>3, <2>1 DEF KeyInv, EffectsAreKept
  <2> QED BY <1>4, <2>1, <2>2
<1>10. EffectsAreKept'
  <2> SUFFICES ASSUME NEW i \in Events', origin'[i].key # None, clock' - origin'[i].at <= IdemTTL
               PROVE  /\ idem'[Caller(i)'] # None
                      /\ idem'[Caller(i)'].answer = i /\ idem'[Caller(i)'].at = origin'[i].at
    BY DEF EffectsAreKept
  <2>1. CASE i = n
    <3>1. ik # None /\ idem'[p] = [answer |-> n, at |-> clock] BY <1>1, <1>2, <1>3, <1>4, <2>1
    <3> QED BY <1>2, <1>6, <1>7, <2>1, <3>1
  <2>2. CASE i \in Events
    <3>1. /\ idem[Caller(i)] # None /\ idem[Caller(i)].answer = i /\ idem[Caller(i)].at = origin[i].at
      BY <1>2, <2>2 DEF KeyInv, EffectsAreKept
    <3>2. Caller(i) \in Slots /\ origin[i].at \in Nat BY <1>2, <2>2, EventTypes
    <3>3. ik # None => Caller(i) # p BY <1>3, <3>1
    <3>4. idem'[Caller(i)] = idem[Caller(i)] BY <1>3, <1>4, <3>2, <3>3
    <3> QED BY <1>2, <1>5, <2>2, <3>1, <3>4
  <2> QED BY <1>2, <2>1, <2>2
<1>11. AnswersName'
  <2>1. ASSUME NEW s \in Slots, NEW m \in Events \cup {0}, Names(s, m) PROVE Names(s, m)'
    BY <1>1, <1>2, <1>5, <2>1 DEF Names
  <2>2. ik # None => Names(p, n)' BY <1>1, <1>2, <1>6, <1>7 DEF Names
  <2>3. ASSUME NEW s \in Slots, NEW m, idem'[s] # None, m = idem'[s].answer PROVE Names(s, m)'
    <3>1. CASE ik # None /\ s = p BY <1>3, <1>4, <2>2, <2>3, <3>1
    <3>2. CASE ~(ik # None /\ s = p)
      <4>1. idem'[s] = idem[s] BY <1>3, <1>4, <3>2
      <4>2. Names(s, m) /\ m \in Events \cup {0}
        <5>1. idem[s] # None /\ m = idem[s].answer BY <2>3, <4>1
        <5>2. m \in Events \cup {0} BY <5>1, AnswerTypes
        <5>3. Names(s, idem[s].answer) BY <5>1 DEF KeyInv, AnswersName
        <5> QED BY <5>1, <5>2, <5>3
      <4> QED BY <2>1, <4>2
    <3> QED BY <3>1, <3>2
  <2>4. ASSUME NEW s \in Slots, NEW m, told'[s] # None, m = told'[s].answer PROVE Names(s, m)'
    <3>1. CASE ik # None /\ s = p BY <1>3, <1>4, <2>2, <2>4, <3>1
    <3>2. CASE ~(ik # None /\ s = p)
      <4>1. told'[s] = told[s] BY <1>3, <1>4, <3>2
      <4>2. Names(s, m) /\ m \in Events \cup {0}
        <5>1. told[s] # None /\ m = told[s].answer BY <2>4, <4>1
        <5>2. m \in Events \cup {0} BY <5>1, AnswerTypes
        <5>3. Names(s, told[s].answer) BY <5>1 DEF KeyInv, AnswersName
        <5> QED BY <5>1, <5>2, <5>3
      <4> QED BY <2>1, <4>2
    <3> QED BY <3>1, <3>2
  <2> QED BY <2>3, <2>4 DEF AnswersName, Names, Caller
<1>12. OneEffectPerKey'
  <2> SUFFICES ASSUME NEW i \in Events', NEW j \in Events', i < j, origin'[i].key # None,
                      origin'[i].agent = origin'[j].agent, origin'[i].key = origin'[j].key
               PROVE  origin'[j].at - origin'[i].at > IdemTTL
    BY DEF OneEffectPerKey
  <2>0. i \in Events BY <1>0, <1>2, EventTypes DEF NewEvent, Events
  <2>1. CASE j \in Events BY <1>2, <2>0, <2>1 DEF KeyInv, OneEffectPerKey
  <2>2. CASE j = n
    <3>1. origin'[i] = origin[i] /\ origin'[j] = [agent |-> a, key |-> ik, at |-> clock]
      BY <1>2, <2>0, <2>2
    <3>2. ik # None /\ origin[i].agent = a /\ origin[i].key = ik BY <3>1
    <3>3. Caller(i) = p BY <1>0, <3>2 DEF Caller
    <3>4. clock - origin[i].at > IdemTTL BY <1>9, <2>0, <3>2, <3>3
    <3> QED BY <3>1, <3>4
  <2> QED BY <1>2, <2>1, <2>2
<1>13. ToldInTime'
  <2> SUFFICES ASSUME NEW s \in Slots, NEW i \in Events', told'[s] # None, Caller(i)' = s,
                      told'[s].at - origin'[i].at <= IdemTTL
               PROVE  told'[s].answer = i
    BY DEF ToldInTime
  <2>1. CASE i = n
    <3>1. ik # None BY <1>0, <1>6, <2>1, SharedAssumption DEF Slots
    <3> QED BY <1>3, <1>4, <1>6, <2>1, <3>1
  <2>2. CASE i \in Events /\ ik # None /\ s = p
    <3>1. clock - origin[i].at > IdemTTL BY <1>5, <1>9, <2>2
    <3>2. told'[s].at = clock BY <1>3, <1>4, <2>2
    <3>3. origin[i].at \in Nat BY <2>2, EventTypes
    <3> QED BY <1>2, <1>4, <2>2, <3>1, <3>2, <3>3
  <2>3. CASE i \in Events /\ ~(ik # None /\ s = p)
    <3>1. told'[s] = told[s] BY <1>3, <1>4, <2>3
    <3> QED BY <1>2, <1>5, <2>3, <3>1 DEF KeyInv, ToldInTime
  <2> QED BY <1>2, <2>1, <2>2, <2>3
<1> QED BY <1>10, <1>11, <1>12, <1>13 DEF KeyInv

LEMMA NoEffectKeepsKeys ==
  ASSUME Types, KeyInv, NEW a \in Agents, NEW ik \in IdemKeys \cup {None}, NEW call \in KnownCalls,
         NoEffect(a, ik, call)
  PROVE  KeyInv'
<1>0. PICK p : p = <<a, ik>> OBVIOUS
<1>1. /\ \A s \in Slots : calls[s] # None => calls'[s] = calls[s]
      /\ ik # None => p \in Slots
  BY <1>0, CallMade DEF NoEffect
<1>2. UNCHANGED <<log, origin, clock>> /\ Events' = Events BY DEF NoEffect, Events
<1>3. /\ idem \in [Slots -> [answer : Events \cup {0}, at : Nat] \cup {None}]
      /\ told \in [Slots -> [answer : Events \cup {0}, at : Nat] \cup {None}]
      /\ clock \in Nat /\ IdemTTL \in Nat
  BY SharedAssumption DEF Types, KeyTypes, LogTypes
<1>4. PICK answer :
        /\ told' = IF ik = None THEN told ELSE [told EXCEPT ![p] = [answer |-> answer, at |-> clock]]
        /\ \/ idem' = idem
           \/ idem' = IF ik = None THEN idem ELSE [idem EXCEPT ![p] = [answer |-> answer, at |-> clock]]
        /\ \/ ik # None /\ idem[p] # None /\ answer = idem[p].answer /\ idem' = idem
           \/ answer = 0 /\ (ik # None => idem[p] = None)
  <2>1. CASE ~Unanswered(a, ik) /\ Tell(a, ik, idem[Slot(a, ik)].answer) /\ idem' = idem
    <3> DEFINE answer == idem[p].answer
    <3>1. ik # None /\ idem[p] # None BY <1>0, <2>1 DEF Unanswered, Slot
    <3>2. told' = IF ik = None THEN told ELSE [told EXCEPT ![p] = [answer |-> answer, at |-> clock]]
      BY <1>0, <2>1 DEF Tell, Slot
    <3> HIDE DEF answer
    <3>3. answer = idem[p].answer BY DEF answer
    <3> QED BY <2>1, <3>1, <3>2, <3>3
  <2>2. CASE Unanswered(a, ik) /\ Store(a, ik, 0)
    <3> DEFINE answer == 0
    <3>1. ik # None => idem[p] = None BY <1>0, <2>2 DEF Unanswered, Slot
    <3>2. /\ told' = IF ik = None THEN told ELSE [told EXCEPT ![p] = [answer |-> answer, at |-> clock]]
          /\ idem' = IF ik = None THEN idem ELSE [idem EXCEPT ![p] = [answer |-> answer, at |-> clock]]
      BY <1>0, <2>2 DEF Tell, Store, Slot
    <3>3. answer = 0 OBVIOUS
    <3> HIDE DEF answer
    <3> QED BY <3>1, <3>2, <3>3
  <2>3. CASE Unanswered(a, ik) /\ Tell(a, ik, 0) /\ idem' = idem
    <3> DEFINE answer == 0
    <3>1. ik # None => idem[p] = None BY <1>0, <2>3 DEF Unanswered, Slot
    <3>2. told' = IF ik = None THEN told ELSE [told EXCEPT ![p] = [answer |-> answer, at |-> clock]]
      BY <1>0, <2>3 DEF Tell
    <3>3. answer = 0 OBVIOUS
    <3> HIDE DEF answer
    <3> QED BY <2>3, <3>1, <3>2, <3>3
  <2> QED BY <2>1, <2>2, <2>3 DEF NoEffect
<1>5. ASSUME NEW i \in Events, ik # None, Caller(i) = p, clock - origin[i].at <= IdemTTL
      PROVE  idem[p] # None /\ idem[p].answer = i /\ answer = i /\ idem' = idem
  <2>1. Caller(i) \in Slots /\ origin[i].key # None /\ i # 0 BY <1>1, <1>5, EventTypes
  <2>2. idem[p] # None /\ idem[p].answer = i BY <1>5, <2>1 DEF KeyInv, EffectsAreKept
  <2> QED BY <1>4, <1>5, <2>2
<1>6. \A i \in Events : Caller(i)' = Caller(i) BY <1>2 DEF Caller
<1>7. EffectsAreKept'
  <2> SUFFICES ASSUME NEW i \in Events, origin[i].key # None, clock - origin[i].at <= IdemTTL
               PROVE  /\ idem'[Caller(i)] # None
                      /\ idem'[Caller(i)].answer = i /\ idem'[Caller(i)].at = origin[i].at
    BY <1>2, <1>6 DEF EffectsAreKept
  <2>1. /\ idem[Caller(i)] # None /\ idem[Caller(i)].answer = i /\ idem[Caller(i)].at = origin[i].at
    BY DEF KeyInv, EffectsAreKept
  <2>2. Caller(i) \in Slots BY EventTypes
  <2>3. CASE ik # None /\ Caller(i) = p BY <1>5, <2>1, <2>3
  <2>4. CASE ~(ik # None /\ Caller(i) = p)
    <3>1. idem'[Caller(i)] = idem[Caller(i)] BY <1>3, <1>4, <2>2, <2>4
    <3> QED BY <2>1, <3>1
  <2> QED BY <2>3, <2>4
<1>8. AnswersName'
  <2>1. ASSUME NEW s \in Slots, NEW m \in Events \cup {0}, Names(s, m) PROVE Names(s, m)'
    BY <1>1, <1>2, <1>6, <2>1 DEF Names
  <2>2. ik # None => Names(p, answer)'
    <3>1. CASE answer = 0 BY <3>1 DEF Names
    <3>2. CASE ik # None /\ idem[p] # None /\ answer = idem[p].answer
      <4>1. Names(p, idem[p].answer) BY <1>1, <3>2 DEF KeyInv, AnswersName
      <4>2. answer \in Events \cup {0} BY <1>1, <3>2, AnswerTypes
      <4> QED BY <1>1, <2>1, <3>2, <4>1, <4>2
    <3> QED BY <1>4, <3>1, <3>2
  <2>3. ASSUME NEW s \in Slots, NEW m, idem'[s] # None, m = idem'[s].answer PROVE Names(s, m)'
    <3>1. CASE ik # None /\ s = p /\ idem'[s] # idem[s] BY <1>3, <1>4, <2>2, <2>3, <3>1
    <3>2. CASE idem'[s] = idem[s]
      <4>1. idem[s] # None /\ m = idem[s].answer BY <2>3, <3>2
      <4>2. m \in Events \cup {0} BY <4>1, AnswerTypes
      <4>3. Names(s, idem[s].answer) BY <4>1 DEF KeyInv, AnswersName
      <4> QED BY <2>1, <4>1, <4>2, <4>3
    <3> QED BY <1>3, <1>4, <3>1, <3>2
  <2>4. ASSUME NEW s \in Slots, NEW m, told'[s] # None, m = told'[s].answer PROVE Names(s, m)'
    <3>1. CASE ik # None /\ s = p BY <1>3, <1>4, <2>2, <2>4, <3>1
    <3>2. CASE ~(ik # None /\ s = p)
      <4>0. told'[s] = told[s] BY <1>3, <1>4, <3>2
      <4>1. told[s] # None /\ m = told[s].answer BY <2>4, <4>0
      <4>2. m \in Events \cup {0} BY <4>1, AnswerTypes
      <4>3. Names(s, told[s].answer) BY <4>1 DEF KeyInv, AnswersName
      <4> QED BY <2>1, <4>1, <4>2, <4>3
    <3> QED BY <3>1, <3>2
  <2> QED BY <2>3, <2>4 DEF AnswersName, Names, Caller
<1>9. OneEffectPerKey' BY <1>2 DEF KeyInv, OneEffectPerKey
<1>10. ToldInTime'
  <2> SUFFICES ASSUME NEW s \in Slots, NEW i \in Events, told'[s] # None, Caller(i) = s,
                      told'[s].at - origin[i].at <= IdemTTL
               PROVE  told'[s].answer = i
    BY <1>2, <1>6 DEF ToldInTime
  <2>1. CASE ik # None /\ s = p
    <3>1. told'[s] = [answer |-> answer, at |-> clock] BY <1>3, <1>4, <2>1
    <3>2. answer = i BY <1>5, <2>1, <3>1
    <3> QED BY <3>1, <3>2
  <2>2. CASE ~(ik # None /\ s = p)
    <3>1. told'[s] = told[s] BY <1>3, <1>4, <2>2
    <3> QED BY <3>1 DEF KeyInv, ToldInTime
  <2> QED BY <2>1, <2>2
<1> QED BY <1>7, <1>8, <1>9, <1>10 DEF KeyInv

LEMMA PruneKeepsKeys ==
  ASSUME Types, KeyInv, NEW now \in (clock - LockWait)..clock, Prune(now)
  PROVE  KeyInv'
<1>1. /\ idem' = [s \in Slots |-> IF Outlived(s, now) THEN None ELSE idem[s]]
      /\ UNCHANGED <<log, origin, told, clock, calls>> /\ Events' = Events
  BY DEF Prune, Events
<1>2. \A i \in Events : Caller(i)' = Caller(i) BY <1>1 DEF Caller
<1>3. clock \in Nat /\ IdemTTL \in Nat /\ now \in Int /\ now <= clock
  BY SharedAssumption DEF Types, LogTypes
<1>4. EffectsAreKept'
  <2> SUFFICES ASSUME NEW i \in Events, origin[i].key # None, clock - origin[i].at <= IdemTTL
               PROVE  idem'[Caller(i)] = idem[Caller(i)]
    BY <1>1, <1>2 DEF KeyInv, EffectsAreKept
  <2>1. idem[Caller(i)].at = origin[i].at BY DEF KeyInv, EffectsAreKept
  <2>2. Caller(i) \in Slots /\ origin[i].at \in Nat BY EventTypes
  <2>3. ~Outlived(Caller(i), now) BY <1>3, <2>1, <2>2 DEF Outlived
  <2> QED BY <1>1, <2>2, <2>3
<1>5. AnswersName'
  <2>1. \A s \in Slots : idem'[s] # None => idem'[s] = idem[s] BY <1>1
  <2> QED BY <1>1, <2>1 DEF KeyInv, AnswersName, Names, Caller
<1>6. OneEffectPerKey' /\ ToldInTime' BY <1>1 DEF KeyInv, OneEffectPerKey, ToldInTime, Caller
<1> QED BY <1>4, <1>5, <1>6 DEF KeyInv

LEMMA TimeKeepsKeys ==
  ASSUME Types, KeyInv, UNCHANGED <<records, calls>>, clock' \in Nat, clock <= clock'
  PROVE  KeyInv'
<1>1. UNCHANGED <<log, origin, told, idem, calls>> /\ Events' = Events BY DEF records, Events
<1>2. EffectsAreKept'
  <2> SUFFICES ASSUME NEW i \in Events, origin[i].key # None, clock' - origin[i].at <= IdemTTL
               PROVE  clock - origin[i].at <= IdemTTL
    BY <1>1 DEF KeyInv, EffectsAreKept, Caller
  <2>1. origin[i].at \in Nat /\ clock \in Nat BY EventTypes
  <2> QED BY <2>1, SharedAssumption
<1>3. AnswersName' BY <1>1 DEF KeyInv, AnswersName, Names, Caller
<1>4. OneEffectPerKey' /\ ToldInTime' BY <1>1 DEF KeyInv, OneEffectPerKey, ToldInTime, Caller
<1> QED BY <1>2, <1>3, <1>4 DEF KeyInv

LEMMA KeyInvariance == Spec => [](Types /\ KeyInv)
<1>1. Init => KeyInv
  <2> SUFFICES ASSUME Init PROVE KeyInv
    OBVIOUS
  <2>1. Events = {} /\ idem = [s \in Slots |-> None] /\ told = [s \in Slots |-> None]
    <3>1. Len(log) = 0 BY DEF Init
    <3> QED BY <3>1 DEF Init, Events
  <2>2. EffectsAreKept /\ OneEffectPerKey /\ ToldInTime
    BY <2>1 DEF EffectsAreKept, OneEffectPerKey, ToldInTime
  <2>3. AnswersName BY <2>1 DEF AnswersName
  <2> QED BY <2>2, <2>3 DEF KeyInv
<1>2. Types /\ KeyInv /\ [Next]_vars => KeyInv'
  <2> SUFFICES ASSUME Types, KeyInv, [Next]_vars PROVE KeyInv'
    OBVIOUS
  <2>1. ASSUME NEW a \in Agents, NEW ik \in IdemKeys \cup {None}, NEW call \in KnownCalls,
               Makes(a, ik, call) /\ Serve(a, ik, call)
        PROVE  KeyInv'
    BY <2>1, StepShapes, NoEffectKeepsKeys, EffectKeepsKeys DEF EventKinds
  <2>2. CASE \E now \in (clock - LockWait)..clock : Prune(now) BY <2>2, PruneKeepsKeys
  <2>3. clock \in Nat BY DEF Types, LogTypes
  <2>4. CASE Tick BY <2>3, <2>4, TimeKeepsKeys DEF Tick
  <2>5. CASE UNCHANGED vars BY <2>3, <2>5, TimeKeepsKeys DEF vars
  <2> QED BY <2>1, <2>2, <2>4, <2>5 DEF Next
<1> QED BY <1>1, <1>2, TypesInvariance, PTL DEF Spec

------------------------------------------------------------------------------
(* Shared memory. *)

RowsOf(k) == {h.row : h \in {g \in history : g.key = k}}

Writes == {i \in Events : log[i].kind = "memory_set"}

(* NewestWriteWins, in its parts. *)
InOrder == \A g, h \in history : g.row.lclock <= h.row.lclock <=> g.row.event <= h.row.event
EveryTime == {h.row.lclock : h \in history} = 1..lclock
EveryWrite == {h.row.event : h \in history} = Writes
Counted == \A k \in Keys : IsFiniteSet(RowsOf(k)) /\ current[k].version = Cardinality(RowsOf(k))
Newest == \A k \in Keys : current[k].version > 0 =>
            current[k] \in RowsOf(k) /\ \A r \in RowsOf(k) : r.lclock <= current[k].lclock

(* No version of a key is above the one it shows. *)
NoneAbove == \A h \in history : h.row.version <= current[h.key].version

MemoryInv == InOrder /\ EveryTime /\ EveryWrite /\ Counted /\ Newest /\ NoneAbove /\ NoLostUpdate

LEMMA RowTypes ==
  ASSUME Types, NEW h \in history
  PROVE  /\ h.key \in Keys /\ h.expected \in Nat \cup {None}
         /\ h.row.version \in Nat /\ h.row.lclock \in Nat /\ h.row.event \in Events
         /\ h = [key |-> h.key, expected |-> h.expected, row |-> h.row]
         /\ h.row \in RowsOf(h.key)
<1>1. h \in [key : Keys, expected : Nat \cup {None}, row : [version : Nat, lclock : Nat, event : Events]]
  BY DEF Types, MemoryTypes
<1> QED BY <1>1 DEF RowsOf

(* What does not write memory keeps it. *)
LEMMA MemoryRests ==
  ASSUME Types, MemoryInv, UNCHANGED memory, Writes' = Writes
  PROVE  MemoryInv'
BY DEF MemoryInv, InOrder, EveryTime, EveryWrite, Counted, Newest, NoneAbove, NoLostUpdate, RowsOf, memory

LEMMA SetKeepsMemory ==
  ASSUME Types, MemoryInv, NEW a \in Agents, NEW ik \in IdemKeys \cup {None}, NEW call \in KnownCalls,
         call.op = "set", Effect(a, ik, call, "memory_set"), SetMemory(a, ik, call.on, call.expected)
  PROVE  MemoryInv'
<1>0. PICK n, k, e, r : n = NewEvent /\ k = call.on /\ e = call.expected /\ r = NextRow(k)
  OBVIOUS
<1>1. k \in Keys /\ e \in Nat \cup {None} BY <1>0, CallMade DEF Effect
<1>2. /\ lclock' = lclock + 1 /\ current' = [current EXCEPT ![k] = r]
      /\ history' = history \cup {[key |-> k, row |-> r, expected |-> e]}
      /\ e \in {current[k].version, None}
  BY <1>0 DEF SetMemory, Expects
<1>3. /\ lclock \in Nat /\ current \in [Keys -> [version : Nat, lclock : Nat, event : Nat]]
      /\ current[k].version \in Nat
  BY <1>1 DEF Types, MemoryTypes
<1>4. /\ r.version = current[k].version + 1 /\ r.lclock = lclock + 1 /\ r.event = n
  BY <1>0 DEF NextRow
<1>5. /\ Events' = Events \cup {n} /\ n \notin Events /\ n \in Nat
      /\ \A i \in Events : log'[i] = log[i]
      /\ log'[n].kind = "memory_set"
  <2>1. LogTypes /\ Record("memory_set", call.on, a, ik) /\ clock' = clock /\ "memory_set" \in EventKinds
        /\ call.on \in Keys \cup Contents
    BY <1>0, <1>1 DEF Effect, Types, EventKinds
  <2>2. /\ Events' = Events \cup {NewEvent} /\ NewEvent \notin Events /\ NewEvent \in Nat
        /\ \A i \in Events : log'[i] = log[i]
        /\ log'[NewEvent] = [kind |-> "memory_set", on |-> call.on, actor |-> a]
    BY <2>1, RecordTypes
  <2> QED BY <1>0, <2>2
<1>6. \A i \in Events : i < n BY <1>0 DEF NewEvent, Events, Types, LogTypes
<1>7. \A h \in history : h.row.lclock <= lclock /\ h.row.lclock < r.lclock /\ h.row.event < r.event
  <2> SUFFICES ASSUME NEW h \in history
               PROVE  h.row.lclock <= lclock /\ h.row.lclock < r.lclock /\ h.row.event < r.event
    OBVIOUS
  <2>1. h.row.lclock \in 1..lclock BY DEF MemoryInv, EveryTime
  <2> QED BY <1>3, <1>4, <1>6, <2>1, RowTypes
<1> DEFINE h0 == [key |-> k, row |-> r, expected |-> e]
<1>8. h0.key = k /\ h0.row = r /\ h0.expected = e OBVIOUS
<1>9. history' = history \cup {h0} BY <1>2
<1> HIDE DEF h0
<1>10. InOrder'
  <2> SUFFICES ASSUME NEW g \in history', NEW h \in history'
               PROVE  g.row.lclock <= h.row.lclock <=> g.row.event <= h.row.event
    BY DEF InOrder
  <2>1. CASE g \in history /\ h \in history BY <2>1 DEF MemoryInv, InOrder
  <2>2. CASE g = h0 /\ h \in history
    <3>1. h.row.lclock < r.lclock /\ h.row.event < r.event /\ h.row.lclock \in Nat /\ h.row.event \in Nat
      BY <1>7, <2>2, RowTypes, EventTypes
    <3> QED BY <1>3, <1>4, <1>5, <1>8, <2>2, <3>1
  <2>3. CASE g \in history /\ h = h0
    <3>1. g.row.lclock < r.lclock /\ g.row.event < r.event /\ g.row.lclock \in Nat /\ g.row.event \in Nat
      BY <1>7, <2>3, RowTypes, EventTypes
    <3> QED BY <1>3, <1>4, <1>5, <1>8, <2>3, <3>1
  <2>4. CASE g = h0 /\ h = h0 BY <1>3, <1>4, <1>5, <1>8, <2>4
  <2> QED BY <1>9, <2>1, <2>2, <2>3, <2>4
<1>11. EveryTime'
  <2>1. {h.row.lclock : h \in history'} = {h.row.lclock : h \in history} \cup {lclock + 1} BY <1>4, <1>8, <1>9
  <2>2. 1..(lclock + 1) = (1..lclock) \cup {lclock + 1} BY <1>3
  <2> QED BY <1>2, <2>1, <2>2 DEF MemoryInv, EveryTime
<1>12. EveryWrite'
  <2>1. {h.row.event : h \in history'} = {h.row.event : h \in history} \cup {n} BY <1>4, <1>8, <1>9
  <2>2. Writes' = Writes \cup {n} BY <1>5 DEF Writes
  <2> QED BY <2>1, <2>2 DEF MemoryInv, EveryWrite
<1>13. RowsOf(k)' = RowsOf(k) \cup {r} BY <1>8, <1>9 DEF RowsOf
<1>14. \A j \in Keys \ {k} : RowsOf(j)' = RowsOf(j) BY <1>8, <1>9 DEF RowsOf
<1>15. \A q \in RowsOf(k) : q.lclock \in Nat /\ q.lclock < r.lclock
  <2> SUFFICES ASSUME NEW q \in RowsOf(k) PROVE q.lclock \in Nat /\ q.lclock < r.lclock
    OBVIOUS
  <2>1. PICK h \in history : h.key = k /\ q = h.row BY DEF RowsOf
  <2> QED BY <1>7, <2>1, RowTypes
<1>16. r \notin RowsOf(k) BY <1>15
<1>17. current'[k] = r /\ \A j \in Keys \ {k} : current'[j] = current[j] BY <1>1, <1>2, <1>3
<1>18. Counted'
  <2> SUFFICES ASSUME NEW j \in Keys PROVE IsFiniteSet(RowsOf(j)') /\ current'[j].version = Cardinality(RowsOf(j)')
    BY DEF Counted
  <2>1. CASE j = k
    <3>1. IsFiniteSet(RowsOf(k)) /\ current[k].version = Cardinality(RowsOf(k)) BY <1>1 DEF MemoryInv, Counted
    <3>2. /\ IsFiniteSet(RowsOf(k) \cup {r})
          /\ Cardinality(RowsOf(k) \cup {r}) = Cardinality(RowsOf(k)) + 1
      BY <1>16, <3>1, FS_AddElement
    <3>3. current'[k].version = Cardinality(RowsOf(k)) + 1 BY <1>4, <1>17, <3>1
    <3> QED BY <1>13, <2>1, <3>2, <3>3
  <2>2. CASE j # k BY <1>14, <1>17, <2>2 DEF MemoryInv, Counted
  <2> QED BY <2>1, <2>2
<1>19. Newest'
  <2> SUFFICES ASSUME NEW j \in Keys, current'[j].version > 0
               PROVE  current'[j] \in RowsOf(j)' /\ \A q \in RowsOf(j)' : q.lclock <= current'[j].lclock
    BY DEF Newest
  <2>1. CASE j = k
    <3>1. \A q \in RowsOf(k) \cup {r} : q.lclock <= r.lclock BY <1>3, <1>4, <1>15
    <3> QED BY <1>13, <1>17, <2>1, <3>1
  <2>2. CASE j # k BY <1>14, <1>17, <2>2 DEF MemoryInv, Newest
  <2> QED BY <2>1, <2>2
<1>20. NoneAbove'
  <2> SUFFICES ASSUME NEW h \in history' PROVE h.row.version <= current'[h.key].version
    BY DEF NoneAbove
  <2>1. CASE h = h0 BY <1>3, <1>4, <1>8, <1>17, <2>1
  <2>2. CASE h \in history
    <3>1. h.row.version <= current[h.key].version /\ h.row.version \in Nat /\ h.key \in Keys
      BY <2>2, RowTypes DEF MemoryInv, NoneAbove
    <3> QED BY <1>3, <1>4, <1>17, <3>1
  <2> QED BY <1>9, <2>1, <2>2
<1>21. NoLostUpdate'
  <2>1. ASSUME NEW h \in history', h.expected # None PROVE h.row.version = h.expected + 1
    <3>1. CASE h = h0 BY <1>2, <1>4, <1>8, <2>1, <3>1
    <3>2. CASE h \in history BY <2>1, <3>2 DEF MemoryInv, NoLostUpdate
    <3> QED BY <1>9, <3>1, <3>2
  <2>2. ASSUME NEW h \in history, h.key = k PROVE h.row.version # r.version
    <3>1. h.row.version <= current[k].version /\ h.row.version \in Nat
      BY <2>2, RowTypes DEF MemoryInv, NoneAbove
    <3> QED BY <1>3, <1>4, <3>1
  <2>3. ASSUME NEW g \in history', NEW h \in history', g.key = h.key, g.row.version = h.row.version
        PROVE  g = h
    <3>1. CASE g \in history /\ h \in history BY <2>3, <3>1 DEF MemoryInv, NoLostUpdate
    <3>2. CASE g = h0 /\ h \in history BY <1>8, <2>2, <2>3, <3>2
    <3>3. CASE g \in history /\ h = h0 BY <1>8, <2>2, <2>3, <3>3
    <3> QED BY <1>9, <3>1, <3>2, <3>3
  <2> QED BY <2>1, <2>3 DEF NoLostUpdate
<1> QED BY <1>10, <1>11, <1>12, <1>18, <1>19, <1>20, <1>21 DEF MemoryInv

(* The events of the other kinds are no writes. *)
LEMMA OtherKindsWriteNothing ==
  ASSUME Types, NEW a \in Agents, NEW ik \in IdemKeys \cup {None}, NEW call \in KnownCalls,
         NEW kind \in EventKinds, kind # "memory_set", Effect(a, ik, call, kind)
  PROVE  Writes' = Writes
<1>0. PICK n : n = NewEvent OBVIOUS
<1>1. call.on \in Keys \cup Contents BY CallMade DEF Effect
<1>2. /\ Events' = Events \cup {n} /\ n \notin Events
      /\ \A i \in Events : log'[i] = log[i]
      /\ log'[n] = [kind |-> kind, on |-> call.on, actor |-> a]
  BY <1>0, <1>1, RecordTypes DEF Effect, Types
<1> QED BY <1>2 DEF Writes

LEMMA MemoryInvariance == Spec => [](Types /\ MemoryInv)
<1>1. Init => MemoryInv
  <2> SUFFICES ASSUME Init PROVE MemoryInv
    OBVIOUS
  <2>1. /\ history = {} /\ Events = {} /\ lclock = 0
        /\ \A k \in Keys : current[k].version = 0
    <3>1. Len(log) = 0 BY DEF Init
    <3> QED BY <3>1 DEF Init, Events
  <2>2. \A k \in Keys : RowsOf(k) = {} BY <2>1 DEF RowsOf
  <2>3. Counted BY <2>1, <2>2, FS_EmptySet DEF Counted
  <2>4. Newest BY <2>1 DEF Newest
  <2>5. InOrder /\ EveryTime /\ EveryWrite /\ NoneAbove /\ NoLostUpdate
    BY <2>1 DEF InOrder, EveryTime, EveryWrite, Writes, NoneAbove, NoLostUpdate
  <2> QED BY <2>3, <2>4, <2>5 DEF MemoryInv
<1>2. Types /\ MemoryInv /\ [Next]_vars => MemoryInv'
  <2> SUFFICES ASSUME Types, MemoryInv, [Next]_vars PROVE MemoryInv'
    OBVIOUS
  <2>1. UNCHANGED <<memory, log>> => MemoryInv' BY MemoryRests DEF Writes, Events
  <2>2. ASSUME NEW a \in Agents, NEW ik \in IdemKeys \cup {None}, NEW call \in KnownCalls,
               Makes(a, ik, call) /\ Serve(a, ik, call)
        PROVE  MemoryInv'
    <3>1. CASE NoEffect(a, ik, call) BY <2>1, <3>1 DEF NoEffect
    <3>2. CASE /\ call.op = "set" /\ Effect(a, ik, call, "memory_set")
               /\ SetMemory(a, ik, call.on, call.expected)
      BY <3>2, SetKeepsMemory
    <3>3. CASE Effect(a, ik, call, "knowledge_added") /\ PostKnowledge(a, ik, call.on)
      <4>1. Writes' = Writes BY <3>3, OtherKindsWriteNothing DEF EventKinds
      <4> QED BY <3>3, <4>1, MemoryRests DEF PostKnowledge
    <3>4. CASE Effect(a, ik, call, "knowledge_retracted") /\ RetractKnowledge(a, ik, call.on)
      <4>1. Writes' = Writes BY <3>4, OtherKindsWriteNothing DEF EventKinds
      <4> QED BY <3>4, <4>1, MemoryRests DEF RetractKnowledge
    <3> QED BY <2>2, <3>1, <3>2, <3>3, <3>4, StepShapes
  <2>3. CASE \E now \in (clock - LockWait)..clock : Prune(now) BY <2>1, <2>3 DEF Prune
  <2>4. CASE Tick BY <2>1, <2>4 DEF Tick, records
  <2>5. CASE UNCHANGED vars BY <2>1, <2>5 DEF vars, records
  <2> QED BY <2>2, <2>3, <2>4, <2>5 DEF Next
<1> QED BY <1>1, <1>2, TypesInvariance, PTL DEF Spec

------------------------------------------------------------------------------
(* The projection of the knowledge log. *)

Posts(c) == {i \in Events : log[i].kind = "knowledge_added" /\ log[i].on = c}
Touched(c) == Posts(c) \cup {i \in Events : log[i].kind = "knowledge_retracted" /\ log[i].on = c}

(* A contribution is a post as the log has it. *)
ContributionsArePosts ==
  \A c \in Contents : {x.author : x \in {y \in contributions : y.content = c}} = {log[i].actor : i \in Posts(c)}

Projected(c) ==
  /\ projection[c].last_event \in Touched(c)
  /\ \A i \in Touched(c) : i <= projection[c].last_event
  /\ projection[c].present <=> projection[c].last_event \in Posts(c)
  /\ projection[c].contributor_count = Cardinality({log[i].actor : i \in Posts(c)})
  /\ \E i \in Posts(c) : projection[c].first_author = log[i].actor /\ \A j \in Posts(c) : i <= j

EntryIsLog(c) ==
  /\ projection[c] = None <=> Posts(c) = {}
  /\ projection[c] = None => fts[c] = 0 /\ Touched(c) = {}
  /\ projection[c] # None => Projected(c) /\ fts[c] = IF projection[c].present THEN 1 ELSE 0

KnowledgeInv == ContributionsArePosts /\ \A c \in Contents : EntryIsLog(c)

(* What an event adds to the log of the contents. *)
LEMMA LogAfter ==
  ASSUME Types, NEW a \in Agents, NEW ik \in IdemKeys \cup {None}, NEW call \in KnownCalls,
         NEW kind \in EventKinds, Effect(a, ik, call, kind), NEW n, n = NewEvent
  PROVE  /\ n \in Nat /\ \A i \in Events : i \in Nat /\ i < n
         /\ \A i \in Events : log'[i] = log[i]
         /\ log'[n].actor = a
         /\ \A c \in Contents :
              /\ Posts(c) \subseteq Events /\ Touched(c) \subseteq Events
              /\ Posts(c)' = Posts(c) \cup (IF kind = "knowledge_added" /\ call.on = c THEN {n} ELSE {})
              /\ Touched(c)' = Touched(c) \cup (IF kind # "memory_set" /\ call.on = c THEN {n} ELSE {})
<1>1. call.on \in Keys \cup Contents BY CallMade DEF Effect
<1>2. /\ Events' = Events \cup {n} /\ n \notin Events /\ n \in Nat
      /\ \A i \in Events : log'[i] = log[i]
      /\ log'[n] = [kind |-> kind, on |-> call.on, actor |-> a]
  BY <1>1, RecordTypes DEF Effect, Types
<1>3. \A i \in Events : i \in Nat /\ i < n BY DEF NewEvent, Events, Types, LogTypes
<1>4. log'[n].actor = a /\ log'[n].kind = kind /\ log'[n].on = call.on BY <1>2
<1>5. ASSUME NEW c \in Contents
      PROVE  Posts(c)' = Posts(c) \cup (IF kind = "knowledge_added" /\ call.on = c THEN {n} ELSE {})
  BY <1>2, <1>4 DEF Posts
<1>6. ASSUME NEW c \in Contents
      PROVE  Touched(c)' = Touched(c) \cup (IF kind # "memory_set" /\ call.on = c THEN {n} ELSE {})
  BY <1>2, <1>4, <1>5 DEF Touched, EventKinds
<1>7. \A c \in Contents : Posts(c) \subseteq Events /\ Touched(c) \subseteq Events BY DEF Posts, Touched
<1> QED BY <1>2, <1>3, <1>4, <1>5, <1>6, <1>7

(* An entry whose content an event is not about stays as it is. *)
LEMMA EntryRests ==
  ASSUME NEW c \in Contents, EntryIsLog(c), projection'[c] = projection[c], fts'[c] = fts[c],
         Posts(c)' = Posts(c), Touched(c)' = Touched(c), \A i \in Posts(c) : log'[i] = log[i]
  PROVE  EntryIsLog(c)'
<1>1. {log'[i].actor : i \in Posts(c)'} = {log[i].actor : i \in Posts(c)} OBVIOUS
<1>2. Projected(c) => Projected(c)' BY <1>1 DEF Projected
<1> QED BY <1>2 DEF EntryIsLog

LEMMA KnowledgeRests ==
  ASSUME KnowledgeInv, UNCHANGED knowledge,
         \A c \in Contents : /\ Posts(c)' = Posts(c) /\ Touched(c)' = Touched(c)
                             /\ \A i \in Posts(c) : log'[i] = log[i]
  PROVE  KnowledgeInv'
<1>1. \A c \in Contents : EntryIsLog(c)' BY EntryRests DEF KnowledgeInv, knowledge
<1>2. ASSUME NEW c \in Contents PROVE {log'[i].actor : i \in Posts(c)'} = {log[i].actor : i \in Posts(c)}
  OBVIOUS
<1>3. ContributionsArePosts' BY <1>2 DEF KnowledgeInv, ContributionsArePosts, knowledge
<1> QED BY <1>1, <1>3 DEF KnowledgeInv

LEMMA PostKeepsKnowledge ==
  ASSUME Types, KnowledgeInv, NEW a \in Agents, NEW ik \in IdemKeys \cup {None}, NEW call \in KnownCalls,
         call.op = "post", Effect(a, ik, call, "knowledge_added"), PostKnowledge(a, ik, call.on)
  PROVE  KnowledgeInv'
<1>0. PICK n, c : n = NewEvent /\ c = call.on OBVIOUS
<1>1. c \in Contents BY <1>0, CallMade DEF Effect
<1>2. /\ n \in Nat /\ \A i \in Events : i \in Nat /\ i < n
      /\ \A i \in Events : log'[i] = log[i]
      /\ log'[n].actor = a
      /\ \A d \in Contents :
           /\ Posts(d) \subseteq Events /\ Touched(d) \subseteq Events
           /\ Posts(d)' = Posts(d) \cup (IF c = d THEN {n} ELSE {})
           /\ Touched(d)' = Touched(d) \cup (IF c = d THEN {n} ELSE {})
  BY <1>0, LogAfter DEF EventKinds
<1>3. PICK x0 : x0 = [content |-> c, author |-> a, event |-> n] OBVIOUS
<1>4. x0.content = c /\ x0.author = a BY <1>3
<1>5. PICK entry :
        /\ entry.first_author = IF projection[c] = None THEN a ELSE projection[c].first_author
        /\ entry.contributor_count = ContributorCount(contributions', c)
        /\ entry.present = TRUE /\ entry.last_event = n
        /\ projection' = [projection EXCEPT ![c] = entry]
  <2> DEFINE entry == [first_author |-> IF projection[c] = None THEN a ELSE projection[c].first_author,
                       contributor_count |-> ContributorCount(contributions', c),
                       present |-> TRUE, last_event |-> n]
  <2>1. projection' = [projection EXCEPT ![c] = entry] BY <1>0 DEF PostKnowledge
  <2>2. /\ entry.first_author = IF projection[c] = None THEN a ELSE projection[c].first_author
        /\ entry.contributor_count = ContributorCount(contributions', c)
        /\ entry.present = TRUE /\ entry.last_event = n
    OBVIOUS
  <2> HIDE DEF entry
  <2> QED BY <2>1, <2>2
<1>6. /\ contributions' = contributions \cup {x0} /\ fts' = [fts EXCEPT ![c] = 1]
  BY <1>0, <1>3 DEF PostKnowledge
<1>7. projection \in [Contents -> {None} \cup Entries] /\ fts \in [Contents -> Nat]
  BY DEF Types, KnowledgeTypes
<1>8. /\ projection'[c] = entry /\ fts'[c] = 1
      /\ \A d \in Contents \ {c} : projection'[d] = projection[d] /\ fts'[d] = fts[d]
  BY <1>1, <1>5, <1>6, <1>7
<1>9. \A d \in Contents : \A i \in Posts(d) : log'[i] = log[i] BY <1>2
<1>10. ContributionsArePosts'
  <2> SUFFICES ASSUME NEW d \in Contents
               PROVE  {x.author : x \in {y \in contributions' : y.content = d}} = {log'[i].actor : i \in Posts(d)'}
    BY DEF ContributionsArePosts
  <2>1. {x.author : x \in {y \in contributions : y.content = d}} = {log[i].actor : i \in Posts(d)}
    BY DEF KnowledgeInv, ContributionsArePosts
  <2>2. CASE d = c
    <3>1. {x.author : x \in {y \in contributions' : y.content = d}}
            = {x.author : x \in {y \in contributions : y.content = d}} \cup {a}
      BY <1>4, <1>6, <2>2
    <3>2. {log'[i].actor : i \in Posts(d)'} = {log[i].actor : i \in Posts(d)} \cup {a}
      BY <1>2, <1>9, <2>2
    <3> QED BY <2>1, <3>1, <3>2
  <2>3. CASE d # c
    <3>1. {y \in contributions' : y.content = d} = {y \in contributions : y.content = d} BY <1>4, <1>6, <2>3
    <3>2. {log'[i].actor : i \in Posts(d)'} = {log[i].actor : i \in Posts(d)} BY <1>2, <1>9, <2>3
    <3> QED BY <2>1, <3>1, <3>2
  <2> QED BY <2>2, <2>3
<1>11. \A d \in Contents \ {c} : EntryIsLog(d)' BY <1>2, <1>8, <1>9, EntryRests DEF KnowledgeInv
<1>12. n \in Posts(c)' /\ n \in Touched(c)' BY <1>1, <1>2
<1>13. entry # None
  <2> DEFINE author == IF projection[c] = None THEN a ELSE projection[c].first_author
             count  == ContributorCount(contributions', c)
  <2>1. author \in Agents BY <1>1, <1>7 DEF Entries
  <2>2. count \in Nat
    <3>1. IsFiniteSet(contributions') BY <1>6, FS_AddElement DEF Types, KnowledgeTypes
    <3> QED BY <3>1, CountIsNat
  <2> HIDE DEF author, count
  <2>3. [first_author |-> author, contributor_count |-> count, present |-> TRUE, last_event |-> n] # None
    <3>1. [first_author |-> author, contributor_count |-> count, present |-> TRUE, last_event |-> n]
            \in [first_author : Agents, contributor_count : Nat, present : BOOLEAN, last_event : Nat]
      BY <1>2, <2>1, <2>2
    <3>2. None \notin [first_author : Agents, contributor_count : Nat, present : BOOLEAN, last_event : Nat]
      BY SharedAssumption
    <3> QED BY <3>1, <3>2
  <2>4. projection' = [projection EXCEPT ![c] =
          [first_author |-> author, contributor_count |-> count, present |-> TRUE, last_event |-> n]]
    BY <1>0 DEF PostKnowledge, author, count
  <2> QED BY <1>1, <1>7, <1>8, <2>3, <2>4
<1>14. Projected(c)'
  <2>1. \A i \in Touched(c)' : i <= n BY <1>1, <1>2
  <2>2. entry.contributor_count = Cardinality({log'[i].actor : i \in Posts(c)'})
    BY <1>1, <1>5, <1>10 DEF ContributorCount, ContributionsArePosts
  <2>3. \E i \in Posts(c)' : entry.first_author = log'[i].actor /\ \A j \in Posts(c)' : i <= j
    <3>1. CASE projection[c] = None
      <4>1. Posts(c)' = {n} BY <1>1, <1>2, <3>1 DEF KnowledgeInv, EntryIsLog
      <4> QED BY <1>2, <1>5, <3>1, <4>1
    <3>2. CASE projection[c] # None
      <4>1. PICK i \in Posts(c) : projection[c].first_author = log[i].actor /\ \A j \in Posts(c) : i <= j
        BY <1>1, <3>2 DEF KnowledgeInv, EntryIsLog, Projected
      <4>2. i \in Posts(c)' /\ log'[i] = log[i] /\ i <= n BY <1>1, <1>2, <1>9
      <4> QED BY <1>1, <1>2, <1>5, <3>2, <4>1, <4>2
    <3> QED BY <3>1, <3>2
  <2> QED BY <1>5, <1>8, <1>12, <2>1, <2>2, <2>3 DEF Projected
<1>15. EntryIsLog(c)' BY <1>5, <1>8, <1>12, <1>13, <1>14 DEF EntryIsLog
<1> QED BY <1>10, <1>11, <1>15 DEF KnowledgeInv

LEMMA RetractKeepsKnowledge ==
  ASSUME Types, KnowledgeInv, NEW a \in Agents, NEW ik \in IdemKeys \cup {None}, NEW call \in KnownCalls,
         call.op = "retract", Effect(a, ik, call, "knowledge_retracted"), RetractKnowledge(a, ik, call.on)
  PROVE  KnowledgeInv'
<1>0. PICK n, c : n = NewEvent /\ c = call.on OBVIOUS
<1>1. c \in Contents BY <1>0, CallMade DEF Effect
<1>2. /\ n \in Nat /\ \A i \in Events : i \in Nat /\ i < n
      /\ \A i \in Events : log'[i] = log[i]
      /\ \A d \in Contents :
           /\ Posts(d) \subseteq Events /\ Touched(d) \subseteq Events
           /\ Posts(d)' = Posts(d)
           /\ Touched(d)' = Touched(d) \cup (IF c = d THEN {n} ELSE {})
  BY <1>0, LogAfter DEF EventKinds
<1>3. PICK entry : entry = [projection[c] EXCEPT !.present = FALSE, !.last_event = n] OBVIOUS
<1>4. /\ projection[c] # None /\ contributions' = contributions
      /\ projection' = [projection EXCEPT ![c].present = FALSE, ![c].last_event = n]
      /\ fts' = [fts EXCEPT ![c] = 0]
  BY <1>0 DEF RetractKnowledge
<1>5. projection \in [Contents -> {None} \cup Entries] /\ fts \in [Contents -> Nat]
  BY DEF Types, KnowledgeTypes
<1>6. projection[c] \in Entries BY <1>1, <1>4, <1>5
<1>7. /\ entry.first_author = projection[c].first_author
      /\ entry.contributor_count = projection[c].contributor_count
      /\ entry.present = FALSE /\ entry.last_event = n
      /\ entry \in [first_author : Agents, contributor_count : Nat, present : BOOLEAN, last_event : Nat]
  BY <1>2, <1>3, <1>6 DEF Entries
<1>8. entry # None BY <1>7, SharedAssumption
<1>9. projection' = [projection EXCEPT ![c] = entry] BY <1>1, <1>3, <1>4, <1>5
<1>10. /\ projection'[c] = entry /\ fts'[c] = 0
       /\ \A d \in Contents \ {c} : projection'[d] = projection[d] /\ fts'[d] = fts[d]
  BY <1>1, <1>4, <1>5, <1>9
<1>11. \A d \in Contents : \A i \in Posts(d) : log'[i] = log[i] BY <1>2
<1>12. \A d \in Contents : {log'[i].actor : i \in Posts(d)'} = {log[i].actor : i \in Posts(d)} BY <1>2, <1>11
<1>13. ContributionsArePosts' BY <1>4, <1>12 DEF KnowledgeInv, ContributionsArePosts
<1>14. \A d \in Contents \ {c} : EntryIsLog(d)' BY <1>2, <1>10, <1>11, EntryRests DEF KnowledgeInv
<1>15. Posts(c) # {} /\ Projected(c) BY <1>1, <1>4 DEF KnowledgeInv, EntryIsLog
<1>16. n \in Touched(c)' /\ n \notin Posts(c)' BY <1>1, <1>2
<1>17. Projected(c)'
  <2>1. \A i \in Touched(c)' : i <= n BY <1>1, <1>2
  <2>2. projection[c].contributor_count = Cardinality({log'[i].actor : i \in Posts(c)'})
    BY <1>1, <1>12, <1>15 DEF Projected
  <2>3. \E i \in Posts(c)' : projection[c].first_author = log'[i].actor /\ \A j \in Posts(c)' : i <= j
    BY <1>1, <1>2, <1>11, <1>15 DEF Projected
  <2> QED BY <1>7, <1>10, <1>16, <2>1, <2>2, <2>3 DEF Projected
<1>18. EntryIsLog(c)' BY <1>1, <1>2, <1>7, <1>8, <1>10, <1>15, <1>17 DEF EntryIsLog
<1> QED BY <1>13, <1>14, <1>18 DEF KnowledgeInv

LEMMA KnowledgeInvariance == Spec => [](Types /\ KnowledgeInv)
<1>1. Init => KnowledgeInv
  <2> SUFFICES ASSUME Init PROVE KnowledgeInv
    OBVIOUS
  <2>1. Events = {}
    <3>1. Len(log) = 0 BY DEF Init
    <3> QED BY <3>1 DEF Events
  <2>2. \A c \in Contents : Posts(c) = {} /\ Touched(c) = {} BY <2>1 DEF Posts, Touched
  <2>3. /\ contributions = {} /\ \A c \in Contents : projection[c] = None /\ fts[c] = 0 BY DEF Init
  <2> QED BY <2>2, <2>3 DEF KnowledgeInv, ContributionsArePosts, EntryIsLog
<1>2. Types /\ KnowledgeInv /\ [Next]_vars => KnowledgeInv'
  <2> SUFFICES ASSUME Types, KnowledgeInv, [Next]_vars PROVE KnowledgeInv'
    OBVIOUS
  <2>1. UNCHANGED <<knowledge, log>> => KnowledgeInv' BY KnowledgeRests DEF Posts, Touched, Events
  <2>2. ASSUME NEW a \in Agents, NEW ik \in IdemKeys \cup {None}, NEW call \in KnownCalls,
               Makes(a, ik, call) /\ Serve(a, ik, call)
        PROVE  KnowledgeInv'
    <3>1. CASE NoEffect(a, ik, call) BY <2>1, <3>1 DEF NoEffect
    <3>2. CASE Effect(a, ik, call, "memory_set") /\ SetMemory(a, ik, call.on, call.expected)
      <4>1. PICK n : n = NewEvent OBVIOUS
      <4>2. \A c \in Contents : /\ Posts(c)' = Posts(c) /\ Touched(c)' = Touched(c)
                               /\ \A i \in Posts(c) : log'[i] = log[i]
        BY <3>2, <4>1, LogAfter DEF EventKinds
      <4> QED BY <3>2, <4>2, KnowledgeRests DEF SetMemory
    <3>3. CASE call.op = "post" /\ Effect(a, ik, call, "knowledge_added") /\ PostKnowledge(a, ik, call.on)
      BY <3>3, PostKeepsKnowledge
    <3>4. CASE /\ call.op = "retract" /\ Effect(a, ik, call, "knowledge_retracted")
               /\ RetractKnowledge(a, ik, call.on)
      BY <3>4, RetractKeepsKnowledge
    <3> QED BY <2>2, <3>1, <3>2, <3>3, <3>4, StepShapes
  <2>3. CASE \E now \in (clock - LockWait)..clock : Prune(now) BY <2>1, <2>3 DEF Prune
  <2>4. CASE Tick BY <2>1, <2>4 DEF Tick, records
  <2>5. CASE UNCHANGED vars BY <2>1, <2>5 DEF vars, records
  <2> QED BY <2>2, <2>3, <2>4, <2>5 DEF Next
<1> QED BY <1>1, <1>2, TypesInvariance, PTL DEF Spec

------------------------------------------------------------------------------
(* The rows of shared memory, knowledge and idempotency stay well-formed   *)
(* (schema.py), whatever is written, repeated, refused or pruned.          *)
THEOREM SharedTypes == Spec => []SharedTypeOK
<1>1. Types => SharedTypeOK
  BY DEF Types, LogTypes, KeyTypes, MemoryTypes, KnowledgeTypes, Entries, EventKinds, SharedTypeOK
<1> QED BY <1>1, TypesInvariance, PTL

(* A call under an idempotency key is applied once: again only after the   *)
(* key has outlived its time to live (idempotency.py:19-41, maintenance.py). *)
THEOREM AppliedOnce == Spec => []OneEffectPerKey
  BY KeyInvariance, PTL DEF KeyInv

(* A repeated call hears of the effect the first had, and of no other      *)
(* (idempotency.py:19-41).                                                 *)
THEOREM TrueAnswers == Spec => []AnswersAreTrue
<1>1. Types /\ KeyInv => AnswersAreTrue
  <2> SUFFICES ASSUME Types, KeyInv, NEW s \in Slots, told[s] # None
               PROVE  /\ told[s].answer # 0 =>
                           /\ Caller(told[s].answer) = s
                           /\ log[told[s].answer].on = calls[s].on
                      /\ \A i \in Events :
                           Caller(i) = s /\ told[s].at - origin[i].at <= IdemTTL => told[s].answer = i
    BY DEF AnswersAreTrue, Caller
  <2>1. Names(s, told[s].answer) BY DEF KeyInv, AnswersName
  <2> QED BY <2>1 DEF Names, KeyInv, ToldInTime
<1> QED BY <1>1, KeyInvariance, PTL

(* Compare-and-swap loses no update (memory.py:30-52).                     *)
THEOREM UpdatesSurvive == Spec => []NoLostUpdate
  BY MemoryInvariance, PTL DEF MemoryInv

(* The newest write of a key is the one it shows, and its version counts   *)
(* its writes (memory.py:30-66, clock.py).                                 *)
THEOREM LastWriteWins == Spec => []NewestWriteWins
<1>1. MemoryInv => NewestWriteWins
  BY DEF MemoryInv, InOrder, EveryTime, EveryWrite, Writes, Counted, Newest, RowsOf, NewestWriteWins
<1> QED BY <1>1, MemoryInvariance, PTL

(* The searched projection is what the log of posts and retractions says,  *)
(* the last operation on an entry winning (knowledge.py:54-92, 155-185).   *)
THEOREM FaithfulProjection == Spec => []ProjectionIsLog
<1>1. Types /\ KnowledgeInv => ProjectionIsLog
  <2> SUFFICES ASSUME Types, KnowledgeInv PROVE ProjectionIsLog
    OBVIOUS
  <2>1. Indexed = Listed BY DEF KnowledgeInv, EntryIsLog, Indexed, Listed, Types, KnowledgeTypes, Entries
  <2>2. \A c \in Contents : fts[c] <= 1 BY DEF KnowledgeInv, EntryIsLog
  <2> QED BY <2>1, <2>2 DEF ProjectionIsLog, KnowledgeInv, EntryIsLog, Projected, Posts, Touched
<1> QED BY <1>1, KnowledgeInvariance, PTL
==============================================================================
