---------------------------- MODULE HostTurn_proofs ----------------------------
(***************************************************************************)
(* Theorems about HostTurn, for any hosts, commands and deny-lists, any    *)
(* bound on a memory and any number of turns.                              *)
(***************************************************************************)
EXTENDS HostTurn, FiniteSetTheorems, WellFoundedInduction, TLAPS

Rows == [turn : Turns, status : Statuses]

Stages == {"idle", "loading", "working", "checking", "asking", "running", "saving"}

(* Where a turn holds a memory. *)
Remembering == stage \in {"working", "checking", "asking", "running", "saving"}

------------------------------------------------------------------------------
(* What is saved of a memory. *)

LEMMA LeastNat ==
  ASSUME NEW S \in SUBSET Nat, S # {}
  PROVE  \E m \in S : \A t \in S : m <= t
  <1>1. PICK m \in S : \A t \in S : ~(<<t, m>> \in OpToRel(<, Nat))
    BY NatLessThanWellFounded, WFMin
  <1>2. \A t \in S : ~(t < m)
    BY <1>1 DEF OpToRel
  <1>3. QED
    BY <1>2

(* A saved memory has at most MemoryBound turns: the oldest of them has    *)
(* fewer than MemoryBound after it.                                        *)
LEMMA BoundedSize ==
  ASSUME NEW n \in Nat, NEW S, S \subseteq 1..n
  PROVE  /\ Bounded(S) \subseteq S
         /\ IsFiniteSet(Bounded(S))
         /\ Cardinality(Bounded(S)) <= MemoryBound
  <1>1. Bounded(S) \subseteq S
    BY DEF Bounded
  <1>2. IsFiniteSet(S)
    <2>1. IsFiniteSet(1..n)
      BY FS_Interval
    <2>2. QED
      BY <2>1, FS_Subset
  <1>3. IsFiniteSet(Bounded(S)) /\ Cardinality(Bounded(S)) \in Nat
    BY <1>1, <1>2, FS_Subset, FS_CardinalityType
  <1>4. CASE Bounded(S) = {}
    BY <1>1, <1>3, <1>4, FS_EmptySet, HostTurnAssumption
  <1>5. CASE Bounded(S) # {}
    <2>1. PICK m \in Bounded(S) : \A t \in Bounded(S) : m <= t
      <3>1. Bounded(S) \in SUBSET Nat
        <4>1. 1..n \subseteq Nat
          OBVIOUS
        <4>2. QED
          BY <1>1, <4>1
      <3>2. QED
        BY <1>5, <3>1, LeastNat
    <2> DEFINE Later == {u \in S : u > m}
    <2>2. Cardinality(Later) < MemoryBound
      BY <2>1 DEF Bounded
    <2>3. IsFiniteSet(Later) /\ Cardinality(Later) \in Nat
      <3>1. Later \in SUBSET S
        OBVIOUS
      <3> HIDE DEF Later
      <3>2. QED
        BY <1>2, <3>1, FS_Subset, FS_CardinalityType
    <2>4. Bounded(S) \subseteq Later \cup {m}
      <3> SUFFICES ASSUME NEW t \in Bounded(S), t # m
                   PROVE  t \in S /\ t > m
        OBVIOUS
      <3>1. t \in 1..n /\ m \in 1..n /\ m <= t
        BY <1>1, <2>1
      <3>2. QED
        BY <1>1, <3>1
    <2> HIDE DEF Later
    <2>5. IsFiniteSet(Later \cup {m}) /\ Cardinality(Later \cup {m}) <= Cardinality(Later) + 1
      BY <2>3, FS_AddElement
    <2>6. Cardinality(Bounded(S)) <= Cardinality(Later \cup {m})
      BY <2>4, <2>5, FS_Subset
    <2>7. Cardinality(Later \cup {m}) \in Nat
      BY <2>5, FS_CardinalityType
    <2>8. QED
      BY <1>1, <1>3, <2>2, <2>3, <2>5, <2>6, <2>7, HostTurnAssumption
  <1>6. QED
    BY <1>4, <1>5

(* The newest turn of a memory is saved. *)
LEMMA BoundedKeepsNewest ==
  ASSUME NEW n \in Nat, NEW S, S \subseteq 1..n, n \in S
  PROVE  n \in Bounded(S)
  <1>1. {u \in S : u > n} = {}
    <2> SUFFICES ASSUME NEW u \in S
                 PROVE  ~(u > n)
      OBVIOUS
    <2>1. u \in 1..n
      OBVIOUS
    <2>2. QED
      BY <2>1
  <1>2. Cardinality({u \in S : u > n}) = 0
    BY <1>1, FS_EmptySet
  <1>3. QED
    BY <1>2, HostTurnAssumption DEF Bounded

(* What is not saved is older than all that is, and gave way to as much as *)
(* the bound allows.                                                       *)
LEMMA BoundedCutsOldest ==
  ASSUME NEW n \in Nat, NEW S, S \subseteq 1..n, NEW u \in S, u \notin Bounded(S)
  PROVE  Cardinality(Bounded(S)) >= MemoryBound /\ \A v \in Bounded(S) : u < v
  <1> DEFINE Later(x) == {v \in S : v > x}
             Cut == S \ Bounded(S)
             Over == {k \in Nat : \A x \in Cut : x <= k}
  <1>1. IsFiniteSet(S) /\ S \subseteq Nat
    <2>1. IsFiniteSet(1..n)
      BY FS_Interval
    <2>2. IsFiniteSet(S)
      BY <2>1, FS_Subset
    <2>3. S \subseteq Nat
      OBVIOUS
    <2>4. QED
      BY <2>2, <2>3
  <1>2. \A x \in S : IsFiniteSet(Later(x)) /\ Cardinality(Later(x)) \in Nat
    <2> SUFFICES ASSUME NEW x \in S
                 PROVE  IsFiniteSet(Later(x)) /\ Cardinality(Later(x)) \in Nat
      OBVIOUS
    <2>1. Later(x) \in SUBSET S
      OBVIOUS
    <2> HIDE DEF Later
    <2>2. QED
      BY <1>1, <2>1, FS_Subset, FS_CardinalityType
  <1>3. \A x \in S : x \in Bounded(S) <=> Cardinality(Later(x)) < MemoryBound
    BY DEF Bounded
  <1>4. ASSUME NEW v \in Bounded(S)
        PROVE  u < v
    <2>1. v \in S /\ v # u
      BY DEF Bounded
    <2>2. ASSUME v < u
          PROVE  FALSE
      <3>1. Later(u) \in SUBSET Later(v)
        <4> SUFFICES ASSUME NEW w \in S, w > u
                     PROVE  w > v
          OBVIOUS
        <4>1. u \in Nat /\ v \in Nat /\ w \in Nat
          BY <1>1, <2>1
        <4>2. QED
          BY <2>2, <4>1
      <3> HIDE DEF Later
      <3>2. Cardinality(Later(u)) <= Cardinality(Later(v))
        BY <1>2, <2>1, <3>1, FS_Subset
      <3>3. Cardinality(Later(v)) < MemoryBound /\ ~(Cardinality(Later(u)) < MemoryBound)
        BY <1>3, <2>1
      <3>4. Cardinality(Later(u)) \in Nat /\ Cardinality(Later(v)) \in Nat /\ MemoryBound \in Nat
        BY <1>2, <2>1, HostTurnAssumption
      <3>5. QED
        BY <3>2, <3>3, <3>4
    <2>3. u \in Nat /\ v \in Nat
      BY <1>1, <2>1
    <2>4. QED
      BY <2>1, <2>2, <2>3
  <1>5. PICK x \in Cut : \A y \in Cut : y <= x
    <2>1. n \in Over
      OBVIOUS
    <2>2. PICK k \in Over : \A l \in Over : k <= l
      BY <2>1, LeastNat
    <2>3. ASSUME k \notin Cut
          PROVE  FALSE
      <3>1. k \in Nat /\ \A y \in Cut : y \in Nat /\ y < k
        BY <1>1, <2>2, <2>3
      <3>2. u \in Cut /\ u < k /\ u \in Nat
        BY <3>1
      <3>3. k - 1 \in Nat /\ \A y \in Cut : y <= k - 1
        BY <3>1, <3>2
      <3>4. k - 1 \in Over
        BY <3>3
      <3>5. QED
        BY <2>2, <3>1, <3>4
    <2>4. QED
      BY <2>2, <2>3
  <1>6. Later(x) \in SUBSET Bounded(S)
    <2> SUFFICES ASSUME NEW v \in S, v > x
                 PROVE  v \in Bounded(S)
      OBVIOUS
    <2>1. v \notin Cut
      BY <1>1, <1>5
    <2>2. QED
      BY <2>1
  <1>7. x \in S /\ ~(Cardinality(Later(x)) < MemoryBound)
    BY <1>3, <1>5
  <1>8. Cardinality(Later(x)) <= Cardinality(Bounded(S)) /\ Cardinality(Bounded(S)) \in Nat
    <2>1. IsFiniteSet(Bounded(S))
      BY BoundedSize
    <2> HIDE DEF Later
    <2>2. QED
      BY <1>6, <2>1, FS_Subset, FS_CardinalityType
  <1>9. Cardinality(Bounded(S)) >= MemoryBound
    BY <1>2, <1>7, <1>8, HostTurnAssumption
  <1>10. QED
    BY <1>4, <1>9

------------------------------------------------------------------------------
(* The memory of the thread. *)

(* A copy of the memory: some earlier turns, no more than the bound. *)
Saved(m) == m \subseteq 1..turn /\ Cardinality(m) <= MemoryBound

MemoryTypes ==
  /\ turn \in 0..MaxTurns
  /\ stage \in Stages
  /\ host \in Hosts \cup {None}
  /\ stage # "idle" => host \in Hosts /\ turn > 0
  /\ Saved(stored)
  /\ local \in [Hosts -> SUBSET (1..turn)]
  /\ \A h \in Hosts : Saved(local[h])
  /\ \A m \in late : Saved(m)
  /\ memory \in [Turns -> SUBSET (1..turn)]
  /\ source \in Places
  /\ last \in [turn : 0..MaxTurns, at : Places, overwritten : BOOLEAN]

(* Where the last turn was saved it is found, unless a late call came       *)
(* between; and a turn under way is in its own memory.                      *)
MemoryInv ==
  /\ Remembering => turn \in memory[turn]
  /\ last.turn > 0 =>
       /\ last.at \in Hosts \cup {"server"}
       /\ last.at = "server" /\ ~last.overwritten => last.turn \in stored
       /\ last.at \in Hosts => last.turn \in local[last.at]
  /\ RemembersLastTurn

(* The body of MemoryIsWhole. *)
Whole(m) ==
  \A t \in m : \A u \in memory[t] :
    u \in m \/ (Cardinality(m) >= MemoryBound /\ \A v \in m : u < v)

(* A turn knows none that come after it, and until it has loaded its memory *)
(* no copy knows the turn.                                                  *)
LineInv ==
  /\ \A n \in Turns : memory[n] \subseteq 1..n /\ Whole(memory[n]) /\ (n > turn => memory[n] = {})
  /\ \A m \in Copies : Whole(m) /\ (stage = "loading" => turn \notin m)

(* A call that a memory does not notice. *)
SameMemory ==
  /\ UNCHANGED <<copies, host, turn, memory, source, last>>
  /\ stage' \in Stages /\ (stage = "idle" <=> stage' = "idle")
  /\ Remembering' => Remembering
  /\ stage' = "loading" => stage = "loading"

(* Copies that are lost or take the place of others do no harm. *)
LEMMA SameLine ==
  ASSUME LineInv, UNCHANGED <<turn, memory>>, Copies' \subseteq Copies,
         stage' = "loading" => stage = "loading"
  PROVE  LineInv'
  <1>1. \A m : Whole(m) => Whole(m)'
    BY DEF Whole
  <1>2. \A n \in Turns : memory'[n] \subseteq 1..n /\ Whole(memory[n])' /\ (n > turn' => memory'[n] = {})
    BY DEF LineInv, Whole
  <1>3. \A m \in Copies' : Whole(m)' /\ (stage' = "loading" => turn' \notin m)
    BY <1>1 DEF LineInv
  <1>4. QED
    BY <1>2, <1>3 DEF LineInv, Whole

LEMMA SameMemoryInv ==
  ASSUME MemoryTypes, MemoryInv, LineInv, SameMemory
  PROVE  MemoryTypes' /\ MemoryInv' /\ LineInv'
  <1>1. MemoryTypes'
    BY DEF MemoryTypes, SameMemory, copies, Saved
  <1>2. MemoryInv'
    BY DEF MemoryInv, SameMemory, copies, RemembersLastTurn, Remembering
  <1>3. Copies' = Copies
    BY DEF SameMemory, copies, Copies
  <1>4. LineInv'
    BY <1>3, SameLine DEF SameMemory
  <1>5. QED
    BY <1>1, <1>2, <1>4

LEMMA StartMemory ==
  ASSUME MemoryTypes, MemoryInv, LineInv, NEW h \in Hosts, StartTurn(h)
  PROVE  MemoryTypes' /\ MemoryInv' /\ LineInv'
  <1>1. /\ turn' = turn + 1 /\ turn' \in 0..MaxTurns /\ stage' = "loading" /\ host' = h
        /\ 1..turn \subseteq 1..turn' /\ turn \in Nat
        /\ UNCHANGED <<stored, local, late, memory, source, last>>
    BY HostTurnAssumption DEF StartTurn, Goes, MemoryTypes, copies, past
  <1>2. MemoryTypes'
    BY <1>1 DEF MemoryTypes, Saved, Stages
  <1>3. MemoryInv'
    BY <1>1 DEF MemoryInv, Remembering, RemembersLastTurn
  <1>4. Copies' = Copies /\ \A m \in Copies : turn' \notin m
    BY <1>1 DEF Copies, MemoryTypes, Saved
  <1>5. LineInv'
    <2>1. \A n \in Turns : n > turn' => n > turn
      BY <1>1, HostTurnAssumption DEF Turns
    <2>2. QED
      BY <1>1, <1>4, <2>1 DEF LineInv, Whole
  <1>6. QED
    BY <1>2, <1>3, <1>5

(* A turn begins with a copy, whichever it is, and itself. *)
LEMMA LineGoesOn ==
  ASSUME MemoryTypes, LineInv, NEW copy \in Copies \cup {{}}, stage = "loading", stage' # "loading",
         memory' = [memory EXCEPT ![turn] = copy \cup {turn}], UNCHANGED <<copies, turn>>
  PROVE  LineInv'
  <1>1. turn \in Turns /\ MaxTurns \in Nat /\ Copies' = Copies
    BY HostTurnAssumption DEF MemoryTypes, Turns, copies, Copies
  <1>2. turn \notin copy /\ Whole(copy) /\ copy \subseteq 1..turn
    BY DEF LineInv, Whole, Copies, MemoryTypes, Saved
  <1>3. /\ memory'[turn] = copy \cup {turn}
        /\ \A n \in Turns \ {turn} : memory'[n] = memory[n]
    BY <1>1 DEF MemoryTypes
  <1>4. ASSUME NEW m, turn \notin m, Whole(m), m \subseteq Turns
        PROVE  Whole(m)'
    BY <1>3, <1>4 DEF Whole
  <1>5. \A m \in Copies : Whole(m)'
    <2>1. \A m \in Copies : turn \notin m /\ Whole(m) /\ m \subseteq Turns
      BY <1>1 DEF LineInv, Copies, MemoryTypes, Saved, Turns
    <2>2. QED
      BY <1>4, <2>1
  <1>6. ASSUME NEW n \in Turns \ {turn}
        PROVE  memory[n] \subseteq 1..n /\ Whole(memory[n]) /\ (n > turn => memory[n] = {}) /\ turn \notin memory[n]
    <2>1. memory[n] \subseteq 1..n /\ Whole(memory[n]) /\ (n > turn => memory[n] = {})
      BY DEF LineInv
    <2>2. turn \notin memory[n]
      BY <1>1, <2>1 DEF Turns
    <2>3. QED
      BY <2>1, <2>2
  <1>7. ASSUME NEW n \in Turns \ {turn}
        PROVE  Whole(memory[n])'
    <2>1. \A t \in memory[n] : memory'[t] = memory[t]
      BY <1>1, <1>3, <1>6 DEF Turns
    <2>2. memory'[n] = memory[n]
      BY <1>3
    <2>3. QED
      BY <1>6, <2>1, <2>2 DEF Whole
  <1>8. Whole(memory[turn])'
    <2> DEFINE M == copy \cup {turn}
    <2>1. IsFiniteSet(copy) /\ IsFiniteSet(M) /\ Cardinality(copy) <= Cardinality(M)
      <3>1. IsFiniteSet(1..turn)
        BY <1>1, FS_Interval DEF Turns
      <3>2. M \in SUBSET (1..turn) /\ copy \in SUBSET M
        BY <1>1, <1>2 DEF Turns
      <3> HIDE DEF M
      <3>3. QED
        BY <3>1, <3>2, FS_Subset
    <2>2. ASSUME NEW t \in copy, NEW u \in memory[t], u \notin copy
          PROVE  Cardinality(M) >= MemoryBound /\ \A v \in M : u < v
      <3>1. Cardinality(copy) >= MemoryBound /\ \A v \in copy : u < v
        BY <1>2, <2>2 DEF Whole
      <3>2. Cardinality(copy) \in Nat /\ Cardinality(M) \in Nat
        <4> HIDE DEF M
        <4>1. QED
          BY <2>1, FS_CardinalityType
      <3>3. Cardinality(M) >= MemoryBound
        <4> HIDE DEF M
        <4>1. QED
          BY <2>1, <3>1, <3>2, HostTurnAssumption
      <3>4. u < turn
        <4>1. t \in Turns /\ t <= turn /\ t # turn
          BY <1>1, <1>2, <2>2 DEF Turns
        <4>2. u \in 1..t
          BY <4>1, <2>2 DEF LineInv
        <4>3. QED
          BY <1>1, <4>1, <4>2 DEF Turns
      <3>5. QED
        BY <3>1, <3>3, <3>4
    <2>3. \A t \in copy : memory'[t] = memory[t]
      BY <1>1, <1>2, <1>3 DEF Turns
    <2>4. memory'[turn] = M
      BY <1>3
    <2> HIDE DEF M
    <2>5. M = copy \cup {turn}
      BY DEF M
    <2>6. QED
      BY <2>2, <2>3, <2>4, <2>5 DEF Whole
  <1>9. memory'[turn] \subseteq 1..turn
    <2>1. turn \in 1..turn
      BY <1>1 DEF Turns
    <2>2. QED
      BY <1>2, <1>3, <2>1
  <1>10. ASSUME NEW n \in Turns
         PROVE  memory'[n] \subseteq 1..n /\ Whole(memory[n])' /\ (n > turn' => memory'[n] = {})
    <2>1. CASE n = turn
      BY <1>8, <1>9, <2>1 DEF Turns
    <2>2. CASE n # turn
      BY <1>3, <1>6, <1>7, <2>2
    <2>3. QED
      BY <2>1, <2>2
  <1>11. QED
    BY <1>1, <1>5, <1>10 DEF LineInv, Whole

LEMMA LoadMemory ==
  ASSUME MemoryTypes, MemoryInv, LineInv, LoadFromServer \/ LoadFromFile \/ LoadNothing
  PROVE  MemoryTypes' /\ MemoryInv' /\ LineInv'
  <1>1. PICK copy \in {stored, local[host], {}}, place \in {"server", host, None} :
           /\ Load(copy, place)
           /\ place = "server" => copy = stored
           /\ place \in Hosts => copy = local[place]
    BY HostTurnAssumption DEF LoadFromServer, LoadFromFile, LoadNothing, Load, Goes, MemoryTypes
  <1>2. /\ stage = "loading" /\ stage' = "working" /\ host \in Hosts /\ turn \in 1..turn /\ turn \in Turns
        /\ memory' = [memory EXCEPT ![turn] = copy \cup {turn}] /\ source' = place
        /\ UNCHANGED <<copies, host, turn, last>>
    BY <1>1, HostTurnAssumption DEF Load, Goes, MemoryTypes, Turns
  <1>3. UNCHANGED <<stored, local, late>>
    BY <1>2 DEF copies
  <1>4. copy \in Copies \cup {{}} /\ copy \subseteq 1..turn
    BY <1>1, <1>2 DEF Copies, MemoryTypes, Saved
  <1>5. MemoryTypes'
    BY <1>1, <1>2, <1>3, <1>4 DEF MemoryTypes, Saved, Stages, Places
  <1>6. memory'[turn] = copy \cup {turn}
    BY <1>2 DEF MemoryTypes
  <1>7. MemoryInv'
    BY <1>1, <1>2, <1>3, <1>6, HostTurnAssumption DEF MemoryInv, Remembering, RemembersLastTurn
  <1>8. LineInv'
    BY <1>2, <1>4, LineGoesOn
  <1>9. QED
    BY <1>5, <1>7, <1>8

(* What is saved of a memory is whole. *)
LEMMA SavedIsWhole ==
  ASSUME MemoryTypes, LineInv, turn \in Turns
  PROVE  Whole(Bounded(memory[turn]))
  <1> DEFINE M == memory[turn]
  <1>1. M \subseteq 1..turn /\ turn \in Nat /\ Bounded(M) \subseteq M
    BY HostTurnAssumption DEF MemoryTypes, Turns, Bounded
  <1>2. Whole(M)
    BY DEF LineInv
  <1> HIDE DEF M
  <1>3. ASSUME NEW t \in Bounded(M), NEW u \in memory[t], u \notin Bounded(M)
        PROVE  Cardinality(Bounded(M)) >= MemoryBound /\ \A v \in Bounded(M) : u < v
    <2>1. CASE u \in M
      BY <1>1, <1>3, <2>1, BoundedCutsOldest
    <2>2. CASE u \notin M
      <3>1. Cardinality(M) >= MemoryBound /\ \A v \in M : u < v
        BY <1>1, <1>2, <1>3, <2>2 DEF Whole
      <3>2. CASE Bounded(M) = M
        BY <3>1, <3>2
      <3>3. CASE Bounded(M) # M
        <4>1. PICK x \in M : x \notin Bounded(M)
          BY <1>1, <3>3
        <4>2. Cardinality(Bounded(M)) >= MemoryBound
          BY <1>1, <4>1, BoundedCutsOldest
        <4>3. QED
          BY <1>1, <3>1, <4>2
      <3>4. QED
        BY <3>2, <3>3
    <2>3. QED
      BY <2>1, <2>2
  <1>4. Whole(Bounded(M))
    BY <1>3 DEF Whole
  <1>5. QED
    BY <1>4 DEF M

LEMMA SaveMemory ==
  ASSUME MemoryTypes, MemoryInv, LineInv, SaveToServer \/ SaveToFile \/ SaveNowhere
  PROVE  MemoryTypes' /\ MemoryInv' /\ LineInv'
  <1>1. /\ stage = "saving" /\ stage' = "idle" /\ host \in Hosts /\ host' = None
        /\ turn \in Nat /\ turn > 0 /\ turn \in Turns
        /\ turn \in memory[turn] /\ memory[turn] \subseteq 1..turn
        /\ UNCHANGED <<turn, memory, source>>
    BY HostTurnAssumption DEF SaveToServer, SaveToFile, SaveNowhere, Ended, Goes, MemoryTypes, MemoryInv,
       Remembering, Turns
  <1>2. PICK b : b = Bounded(memory[turn])
    OBVIOUS
  <1>3. b \subseteq 1..turn /\ Cardinality(b) <= MemoryBound /\ turn \in b
    BY <1>1, <1>2, BoundedSize, BoundedKeepsNewest
  <1>4. ASSUME SaveToServer
        PROVE  MemoryTypes' /\ MemoryInv' /\ Copies' \subseteq Copies \cup {b}
    <2>1. /\ stored' = b /\ last' = [turn |-> turn, at |-> "server", overwritten |-> FALSE]
          /\ UNCHANGED <<local, late>>
      BY <1>2, <1>4 DEF SaveToServer, SavedAt
    <2>2. MemoryTypes'
      BY <1>1, <1>3, <2>1 DEF MemoryTypes, Saved, Stages, Places
    <2>3. MemoryInv'
      BY <1>1, <1>3, <2>1, HostTurnAssumption DEF MemoryInv, Remembering, RemembersLastTurn
    <2>4. Copies' \subseteq Copies \cup {b}
      BY <2>1 DEF Copies
    <2>5. QED
      BY <2>2, <2>3, <2>4
  <1>5. ASSUME SaveToFile
        PROVE  MemoryTypes' /\ MemoryInv' /\ Copies' \subseteq Copies \cup {b}
    <2>1. /\ local' = [local EXCEPT ![host] = b]
          /\ last' = [turn |-> turn, at |-> host, overwritten |-> FALSE]
          /\ late' \subseteq late \cup {b} /\ UNCHANGED stored
      BY <1>2, <1>5 DEF SaveToFile, SavedAt, GiveUpServer
    <2>2. MemoryTypes'
      BY <1>1, <1>3, <2>1 DEF MemoryTypes, Saved, Stages, Places
    <2>3. MemoryInv'
      BY <1>1, <1>3, <2>1, HostTurnAssumption DEF MemoryTypes, MemoryInv, Remembering, RemembersLastTurn
    <2>4. Copies' \subseteq Copies \cup {b}
      BY <2>1 DEF Copies, MemoryTypes
    <2>5. QED
      BY <2>2, <2>3, <2>4
  <1>6. ASSUME SaveNowhere
        PROVE  MemoryTypes' /\ MemoryInv' /\ Copies' \subseteq Copies \cup {b}
    <2>1. late' \subseteq late \cup {b} /\ UNCHANGED <<stored, local, last>>
      BY <1>2, <1>6 DEF SaveNowhere, GiveUpServer
    <2>2. MemoryTypes'
      BY <1>1, <1>3, <2>1 DEF MemoryTypes, Saved, Stages
    <2>3. MemoryInv'
      BY <1>1, <2>1 DEF MemoryInv, Remembering, RemembersLastTurn
    <2>4. Copies' \subseteq Copies \cup {b}
      BY <2>1 DEF Copies
    <2>5. QED
      BY <2>2, <2>3, <2>4
  <1>7. Whole(b)
    BY <1>1, <1>2, SavedIsWhole
  <1>8. MemoryTypes' /\ MemoryInv' /\ Copies' \subseteq Copies \cup {b}
    BY <1>4, <1>5, <1>6
  <1>9. LineInv'
    <2>1. \A m \in Copies' : Whole(m)'
      BY <1>1, <1>7, <1>8 DEF LineInv, Whole
    <2>2. QED
      BY <1>1, <2>1 DEF LineInv, Whole
  <1>10. QED
    BY <1>8, <1>9

LEMMA LateMemory ==
  ASSUME MemoryTypes, MemoryInv, LineInv, NEW m \in late, LateSave(m)
  PROVE  MemoryTypes' /\ MemoryInv' /\ LineInv'
  <1>1. /\ stored' = m /\ late' = late \ {m} /\ last' = [last EXCEPT !.overwritten = TRUE]
        /\ UNCHANGED <<local, host, stage, turn, memory, source>>
    BY DEF LateSave, worker
  <1>2. /\ last' \in [turn : 0..MaxTurns, at : Places, overwritten : BOOLEAN]
        /\ last'.overwritten /\ last'.turn = last.turn /\ last'.at = last.at
    BY <1>1 DEF MemoryTypes
  <1>3. MemoryTypes'
    BY <1>1, <1>2 DEF MemoryTypes, Saved
  <1>4. MemoryInv'
    BY <1>1, <1>2, HostTurnAssumption DEF MemoryInv, Remembering, RemembersLastTurn
  <1>5. Copies' \subseteq Copies
    BY <1>1 DEF Copies
  <1>6. LineInv'
    BY <1>1, <1>5, SameLine
  <1>7. QED
    BY <1>3, <1>4, <1>6

LEMMA CrashMemory ==
  ASSUME MemoryTypes, MemoryInv, LineInv, Crash
  PROVE  MemoryTypes' /\ MemoryInv' /\ LineInv'
  <1>1. stage' = "idle" /\ host' = None /\ UNCHANGED <<stored, local, late, turn, memory, source, last>>
    BY DEF Crash, copies, past
  <1>2. MemoryTypes' /\ MemoryInv'
    BY <1>1 DEF MemoryTypes, Saved, Stages, MemoryInv, Remembering, RemembersLastTurn
  <1>3. LineInv'
    BY <1>1, SameLine DEF Copies
  <1>4. QED
    BY <1>2, <1>3

------------------------------------------------------------------------------
(* The command guard. *)

Checks(k) == [phase : {"none", "sent", "decided", "filed"},
              decision : {"allow", "ask", "deny"}, request : 0..k]

GuardTypes ==
  /\ rules \subseteq {"deny", "ask"} \X Commands
  /\ requests \in Seq(Rows)
  /\ Len(requests) <= MaxTurns
  /\ checks \in [Turns -> Checks(Len(requests))]
  /\ consoles \in [Turns -> SUBSET {"allowed", "denied"}]
  /\ command \in [Turns -> Commands \cup {None}]
  /\ ran \cup heard \subseteq Turns

(* The body of RunsAsDecided: turn n may run its command. *)
Cleared(n) ==
  \/ n \notin heard /\ command[n] \notin LocalDeny
  \/ /\ n \in heard
     /\ command[n] \notin Builtin
     /\ \/ checks[n].decision = "allow"
        \/ checks[n].decision = "ask" /\ consoles[checks[n].request] = {"allowed"}

(* A check is asked for once, decided by the rules, and filed with its     *)
(* request, if it has one ...                                              *)
CheckInv ==
  \A n \in Turns :
    /\ checks[n].phase = "none" <=> command[n] = None
    /\ n > turn => command[n] = None
    /\ checks[n].phase # "filed" => checks[n].request = 0
    /\ checks[n].phase \in {"decided", "filed"} /\ checks[n].decision # "deny" =>
         command[n] \notin Builtin
    /\ checks[n].phase = "filed" /\ checks[n].decision = "ask" =>
         checks[n].request \in 1..Len(requests)

(* ... a request belongs to one check, and no console has settled it while *)
(* it is pending ...                                                       *)
RequestInv ==
  /\ \A r \in 1..Len(requests) :
       /\ checks[requests[r].turn].request = r
       /\ consoles[r] \in {{}, {"allowed"}, {"denied"}}
       /\ requests[r].status = "pending" => consoles[r] = {}
       /\ requests[r].status \in {"allowed", "denied"} => consoles[r] = {requests[r].status}
  /\ \A r \in Turns : r > Len(requests) => consoles[r] = {}

(* ... and a turn runs its command only when that was cleared. *)
TurnInv ==
  /\ \A n \in heard : checks[n].phase = "filed"
  /\ \A n \in ran \cup heard : command[n] # None
  /\ stage \in {"checking", "asking", "running"} => turn \in Turns
  /\ stage = "checking" => command[turn] # None /\ turn \notin ran \cup heard
  /\ stage = "asking" => turn \in heard /\ checks[turn].decision = "ask"
  /\ stage = "running" => Cleared(turn) /\ command[turn] # None
  /\ \A n \in ran : Cleared(n)

GuardInv == GuardTypes /\ CheckInv /\ RequestInv /\ TurnInv

LEMMA RequestType ==
  ASSUME requests \in Seq(Rows), NEW r \in 1..Len(requests)
  PROVE  requests[r] \in Rows /\ requests[r].turn \in Turns /\ requests[r].status \in Statuses
  <1>1. requests[r] \in Rows
    OBVIOUS
  <1>2. QED
    BY <1>1 DEF Rows

LEMMA CheckType ==
  ASSUME GuardTypes, NEW n \in Turns
  PROVE  /\ checks[n] \in Checks(Len(requests))
         /\ checks[n].phase \in {"none", "sent", "decided", "filed"}
         /\ checks[n].decision \in {"allow", "ask", "deny"}
         /\ checks[n].request \in 0..Len(requests)
  <1>1. checks[n] \in Checks(Len(requests))
    BY DEF GuardTypes
  <1>2. QED
    BY <1>1 DEF Checks

(* Each request belongs to a turn of its own, so there is room for one     *)
(* more as long as a turn has none.                                        *)
LEMMA RoomForRequest ==
  ASSUME GuardTypes, RequestInv, NEW n \in Turns, checks[n].request = 0
  PROVE  Len(requests) < MaxTurns
  <1>1. Len(requests) \in Nat /\ MaxTurns \in Nat
    BY HostTurnAssumption DEF GuardTypes
  <1> DEFINE f == [r \in 1..Len(requests) |-> requests[r].turn]
             T == Turns \ {n}
  <1>2. \A r \in 1..Len(requests) : requests[r].turn \in T /\ checks[requests[r].turn].request = r
    <2> SUFFICES ASSUME NEW r \in 1..Len(requests)
                 PROVE  requests[r].turn \in T /\ checks[requests[r].turn].request = r
      OBVIOUS
    <2>1. requests[r].turn \in Turns
      BY RequestType DEF GuardTypes
    <2>2. checks[requests[r].turn].request = r /\ r # 0
      BY DEF RequestInv
    <2>3. QED
      BY <2>1, <2>2
  <1>3. IsFiniteSet(T) /\ Cardinality(T) = MaxTurns - 1
    <2>1. IsFiniteSet(Turns) /\ Cardinality(Turns) = MaxTurns
      BY <1>1, FS_Interval DEF Turns
    <2>2. QED
      BY <1>1, <2>1, FS_RemoveElement
  <1>4. f \in Injection(1..Len(requests), T)
    <2>1. f \in [1..Len(requests) -> T]
      BY <1>2
    <2>2. \A r, q \in 1..Len(requests) : f[r] = f[q] => r = q
      BY <1>2
    <2> HIDE DEF f, T
    <2>3. QED
      BY <2>1, <2>2 DEF Injection, IsInjective
  <1>5. IsFiniteSet(1..Len(requests)) /\ Cardinality(1..Len(requests)) = Len(requests)
    BY <1>1, FS_Interval
  <1> HIDE DEF f, T
  <1>6. Cardinality(1..Len(requests)) <= Cardinality(T)
    BY <1>3, <1>4, FS_Injection
  <1>7. QED
    BY <1>1, <1>3, <1>5, <1>6

(* Steps that leave the guard alone, and the turn outside of its calls. *)
LEMMA ElsewhereGuard ==
  ASSUME GuardInv, turn \in Nat, UNCHANGED <<checks, requests, consoles, command, ran, heard>>,
         rules' \subseteq {"deny", "ask"} \X Commands,
         \/ turn' \in Nat /\ turn' >= turn /\ stage' \notin {"checking", "asking", "running"}
         \/ UNCHANGED <<turn, stage>>
  PROVE  GuardInv'
  <1>1. GuardTypes'
    BY DEF GuardInv, GuardTypes
  <1>2. CheckInv'
    BY HostTurnAssumption DEF GuardInv, CheckInv, Turns
  <1>3. RequestInv'
    BY DEF GuardInv, RequestInv
  <1>4. TurnInv'
    BY DEF GuardInv, TurnInv, Cleared
  <1>5. QED
    BY <1>1, <1>2, <1>3, <1>4 DEF GuardInv

LEMMA DecisionDenies ==
  ASSUME NEW c
  PROVE  /\ Decision(c) \in {"allow", "ask", "deny"}
         /\ Decision(c) # "deny" => c \notin Builtin
  BY DEF Decision

LEMMA ReadRulesGuard ==
  ASSUME GuardInv, NEW n \in Turns, ReadRules(n)
  PROVE  GuardInv'
  <1> USE DEF GuardInv
  <1>1. /\ checks[n].phase = "sent"
        /\ checks' = [checks EXCEPT ![n] = [@ EXCEPT !.phase = "decided", !.decision = Decision(command[n])]]
        /\ UNCHANGED <<rules, requests, consoles, command, ran, heard, turn, stage>>
    BY DEF ReadRules, worker, past
  <1>2. /\ Decision(command[n]) \in {"allow", "ask", "deny"}
        /\ Decision(command[n]) # "deny" => command[n] \notin Builtin
    BY DecisionDenies
  <1>3. PICK row : row = [checks[n] EXCEPT !.phase = "decided", !.decision = Decision(command[n])]
    OBVIOUS
  <1>4. checks[n] \in Checks(Len(requests)) /\ n \notin heard /\ checks[n].request = 0
    BY <1>1, CheckType DEF CheckInv, TurnInv
  <1>5. /\ row \in Checks(Len(requests)) /\ row.phase = "decided"
        /\ row.decision = Decision(command[n]) /\ row.request = checks[n].request
    BY <1>2, <1>3, <1>4 DEF Checks
  <1>6. checks' = [checks EXCEPT ![n] = row]
    BY <1>1, <1>3
  <1>7. checks'[n] = row /\ \A m \in Turns : m # n => checks'[m] = checks[m]
    BY <1>6 DEF GuardTypes
  <1>8. GuardTypes'
    BY <1>1, <1>5, <1>6 DEF GuardTypes
  <1>9. CheckInv'
    BY <1>1, <1>2, <1>4, <1>5, <1>7 DEF CheckInv
  <1>10. RequestInv'
    <2>1. \A m \in Turns : checks'[m].request = checks[m].request
      BY <1>5, <1>7
    <2>2. \A r \in 1..Len(requests) : requests[r].turn \in Turns
      BY RequestType DEF GuardTypes
    <2>3. QED
      BY <1>1, <2>1, <2>2 DEF RequestInv
  <1>11. TurnInv'
    <2>1. \A m \in heard : checks'[m] = checks[m]
      BY <1>4, <1>7 DEF GuardTypes
    <2>2. \A m \in Turns : Cleared(m) => Cleared(m)'
      BY <1>1, <2>1 DEF Cleared
    <2>3. QED
      BY <1>1, <2>1, <2>2 DEF TurnInv, GuardTypes
  <1>12. QED
    BY <1>8, <1>9, <1>10, <1>11

LEMMA FileGuard ==
  ASSUME GuardInv, NEW n \in Turns, FileCheck(n)
  PROVE  GuardInv'
  <1> USE DEF GuardInv
  <1>1. checks[n].phase = "decided" /\ UNCHANGED <<rules, consoles, command, ran, heard, turn, stage>>
    BY DEF FileCheck, worker, past
  <1>2. /\ checks[n] \in Checks(Len(requests)) /\ checks[n].request = 0
        /\ n \notin heard /\ Len(requests) \in Nat
    BY <1>1, CheckType DEF CheckInv, TurnInv, GuardTypes
  <1>3. \A r \in 1..Len(requests) : requests[r].turn \in Turns /\ requests[r].turn # n
    <2>1. \A r \in 1..Len(requests) : requests[r].turn \in Turns
      BY RequestType DEF GuardTypes
    <2>2. \A r \in 1..Len(requests) : checks[requests[r].turn].request = r /\ r # 0
      BY DEF RequestInv
    <2>3. QED
      BY <1>2, <2>1, <2>2
  <1>4. CASE checks[n].decision = "ask"
    <2>1. PICK row : row = [checks[n] EXCEPT !.phase = "filed", !.request = Len(requests) + 1]
      OBVIOUS
    <2>2. /\ checks' = [checks EXCEPT ![n] = row]
          /\ requests' = Append(requests, [turn |-> n, status |-> "pending"])
      BY <1>4, <2>1 DEF FileCheck
    <2>3. /\ row \in Checks(Len(requests) + 1) /\ row.phase = "filed"
          /\ row.decision = "ask" /\ row.request = Len(requests) + 1
      <3>1. PICK k : k = Len(requests) + 1
        OBVIOUS
      <3>2. k \in 0..k
        BY <1>2, <3>1
      <3>3. row = [checks[n] EXCEPT !.phase = "filed", !.request = k]
        BY <2>1, <3>1
      <3>4. row \in Checks(k) /\ row.phase = "filed" /\ row.decision = "ask" /\ row.request = k
        BY <1>2, <1>4, <3>2, <3>3 DEF Checks
      <3>5. QED
        BY <3>1, <3>4
    <2>4. checks'[n] = row /\ \A m \in Turns : m # n => checks'[m] = checks[m]
      BY <2>2 DEF GuardTypes
    <2>5. Len(requests) + 1 \in Turns
      BY <1>2, RoomForRequest, HostTurnAssumption DEF Turns
    <2>6. PICK new : new = [turn |-> n, status |-> "pending"]
      OBVIOUS
    <2>7. new \in Rows /\ new.turn = n /\ new.status = "pending"
      BY <2>6 DEF Rows, Statuses
    <2>8. /\ requests' \in Seq(Rows) /\ Len(requests') = Len(requests) + 1
          /\ requests'[Len(requests) + 1] = new
          /\ \A r \in 1..Len(requests) : requests'[r] = requests[r]
      BY <2>2, <2>6, <2>7 DEF GuardTypes
    <2>9. Checks(Len(requests)) \subseteq Checks(Len(requests) + 1)
      <3>1. 0..Len(requests) \subseteq 0..(Len(requests) + 1)
        BY <1>2
      <3>2. QED
        BY <3>1 DEF Checks
    <2>10. GuardTypes'
      BY <1>1, <2>2, <2>3, <2>5, <2>8, <2>9 DEF GuardTypes, Turns
    <2>11. CheckInv'
      <3>1. \A r : r \in 1..Len(requests) => r \in 1..(Len(requests) + 1)
        BY <1>2
      <3>2. Len(requests) + 1 \in 1..(Len(requests) + 1)
        BY <1>2
      <3>3. QED
        BY <1>1, <1>4, <2>3, <2>4, <2>8, <3>1, <3>2 DEF CheckInv
    <2>12. RequestInv'
      <3>1. ASSUME NEW r \in 1..Len(requests')
            PROVE  r \in 1..Len(requests) \/ r = Len(requests) + 1
        BY <1>2, <2>8
      <3>2. consoles[Len(requests) + 1] = {}
        BY <1>2, <2>5 DEF RequestInv
      <3>3. \A r \in 1..Len(requests) :
              /\ checks'[requests'[r].turn].request = r
              /\ consoles'[r] \in {{}, {"allowed"}, {"denied"}}
              /\ requests'[r].status = "pending" => consoles'[r] = {}
              /\ requests'[r].status \in {"allowed", "denied"} => consoles'[r] = {requests'[r].status}
        BY <1>1, <1>3, <2>4, <2>8 DEF RequestInv
      <3>4. \A r \in Turns : r > Len(requests') => r > Len(requests)
        BY <1>2, <2>8 DEF Turns
      <3>5. QED
        BY <1>1, <2>3, <2>4, <2>7, <2>8, <3>1, <3>2, <3>3, <3>4 DEF RequestInv
    <2>13. TurnInv'
      <3>1. \A m \in heard : checks'[m] = checks[m]
        BY <1>2, <2>4 DEF GuardTypes
      <3>2. \A m \in Turns : Cleared(m) => Cleared(m)'
        BY <1>1, <3>1 DEF Cleared
      <3>3. QED
        BY <1>1, <3>1, <3>2 DEF TurnInv, GuardTypes
    <2>14. QED
      BY <2>10, <2>11, <2>12, <2>13
  <1>5. CASE checks[n].decision # "ask"
    <2>1. PICK row : row = [checks[n] EXCEPT !.phase = "filed"]
      OBVIOUS
    <2>2. checks' = [checks EXCEPT ![n] = row] /\ UNCHANGED requests
      BY <1>5, <2>1 DEF FileCheck
    <2>3. /\ row \in Checks(Len(requests)) /\ row.phase = "filed"
          /\ row.decision = checks[n].decision /\ row.request = 0
      BY <1>2, <2>1 DEF Checks
    <2>4. checks'[n] = row /\ \A m \in Turns : m # n => checks'[m] = checks[m]
      BY <2>2 DEF GuardTypes
    <2>5. GuardTypes'
      BY <1>1, <2>2, <2>3 DEF GuardTypes
    <2>6. CheckInv'
      BY <1>1, <1>5, <2>2, <2>3, <2>4 DEF CheckInv
    <2>7. RequestInv'
      BY <1>1, <1>3, <2>2, <2>4 DEF RequestInv
    <2>8. TurnInv'
      <3>1. \A m \in heard : checks'[m] = checks[m]
        BY <1>2, <2>4 DEF GuardTypes
      <3>2. \A m \in Turns : Cleared(m) => Cleared(m)'
        BY <1>1, <3>1 DEF Cleared
      <3>3. QED
        BY <1>1, <3>1, <3>2 DEF TurnInv, GuardTypes
    <2>9. QED
      BY <2>5, <2>6, <2>7, <2>8
  <1>6. QED
    BY <1>4, <1>5

(* A request is settled, or deleted. *)
LEMMA SettleGuard ==
  ASSUME GuardInv, NEW r \in 1..Len(requests),
         Prune(r) \/ \E v \in {"allowed", "denied"} : Resolve(r, v)
  PROVE  GuardInv'
  <1> USE DEF GuardInv
  <1>1. UNCHANGED <<rules, checks, command, ran, heard, turn, stage>>
    BY DEF Prune, Resolve, worker, past
  <1>2. PICK status \in {"gone", "allowed", "denied"} :
          /\ requests' = [requests EXCEPT ![r].status = status]
          /\ \/ status = "gone" /\ UNCHANGED consoles
             \/ /\ status # "gone" /\ requests[r].status = "pending"
                /\ consoles' = [consoles EXCEPT ![r] = @ \cup {status}]
    BY DEF Prune, Resolve, Open
  <1>3. PICK row : row = [requests[r] EXCEPT !.status = status]
    OBVIOUS
  <1>4. requests[r] \in Rows
    BY RequestType DEF GuardTypes
  <1>5. row \in Rows /\ row.turn = requests[r].turn /\ row.status = status
    BY <1>2, <1>3, <1>4 DEF Rows, Statuses
  <1>6. requests' = [requests EXCEPT ![r] = row]
    BY <1>2, <1>3
  <1>7. /\ requests' \in Seq(Rows) /\ Len(requests') = Len(requests)
        /\ requests'[r] = row
        /\ \A q \in 1..Len(requests) : q # r => requests'[q] = requests[q]
    BY <1>5, <1>6 DEF GuardTypes
  <1>8. r \in Turns /\ Len(requests) \in Nat
    BY HostTurnAssumption DEF GuardTypes, Turns
  <1>9. /\ consoles'[r] = IF status = "gone" THEN consoles[r] ELSE {status}
        /\ \A q \in Turns : q # r => consoles'[q] = consoles[q]
        /\ consoles' \in [Turns -> SUBSET {"allowed", "denied"}]
    <2>1. status # "gone" => consoles[r] = {}
      BY <1>2 DEF RequestInv
    <2>2. CASE status = "gone"
      BY <1>2, <2>2 DEF GuardTypes
    <2>3. CASE status # "gone"
      <3>1. {} \cup {status} = {status} /\ {status} \in SUBSET {"allowed", "denied"}
        BY <2>3
      <3>2. consoles' = [consoles EXCEPT ![r] = {status}]
        BY <1>2, <2>1, <2>3, <3>1
      <3>3. QED
        BY <1>8, <2>3, <3>1, <3>2 DEF GuardTypes
    <2>4. QED
      BY <2>2, <2>3
  <1>10. GuardTypes'
    BY <1>1, <1>7, <1>9 DEF GuardTypes
  <1>11. CheckInv'
    BY <1>1, <1>7 DEF CheckInv
  <1>12. RequestInv'
    <2>1. \A q \in 1..Len(requests) : q \in Turns /\ requests'[q].turn = requests[q].turn
      BY <1>5, <1>7, <1>8, HostTurnAssumption DEF GuardTypes, Turns
    <2>2. /\ consoles'[r] \in {{}, {"allowed"}, {"denied"}}
          /\ status \in {"allowed", "denied"} => consoles'[r] = {status}
      BY <1>2, <1>9 DEF RequestInv
    <2>3. QED
      BY <1>1, <1>2, <1>5, <1>7, <1>8, <1>9, <2>1, <2>2 DEF RequestInv
  <1>13. TurnInv'
    <2>1. ASSUME NEW n \in Turns, Cleared(n)
          PROVE  Cleared(n)'
      <3>1. CASE n \in heard /\ checks[n].decision = "ask" /\ consoles[checks[n].request] = {"allowed"}
        <4>1. checks[n].request \in 1..Len(requests)
          BY <3>1 DEF CheckInv, TurnInv
        <4>2. checks[n].request \in Turns
          BY <4>1, HostTurnAssumption DEF GuardTypes, Turns
        <4>3. consoles'[checks[n].request] = {"allowed"}
          <5>1. checks[n].request = r => status = "gone"
            BY <1>2, <3>1 DEF RequestInv
          <5>2. QED
            BY <1>9, <3>1, <4>2, <5>1
        <4>4. QED
          BY <1>1, <2>1, <3>1, <4>3 DEF Cleared
      <3>2. CASE ~(n \in heard /\ checks[n].decision = "ask" /\ consoles[checks[n].request] = {"allowed"})
        BY <1>1, <2>1, <3>2 DEF Cleared
      <3>3. QED
        BY <3>1, <3>2
    <2>2. QED
      BY <1>1, <2>1 DEF TurnInv, GuardTypes
  <1>14. QED
    BY <1>10, <1>11, <1>12, <1>13

LEMMA SendGuard ==
  ASSUME GuardInv, turn \in 1..MaxTurns, NEW c \in Commands, SendCheck(c)
  PROVE  GuardInv'
  <1> USE DEF GuardInv
  <1>1. /\ stage' = "checking" /\ command[turn] = None /\ turn \in Turns
        /\ command' = [command EXCEPT ![turn] = c]
        /\ checks' = [checks EXCEPT ![turn].phase = "sent"]
        /\ UNCHANGED <<rules, requests, consoles, turn, ran, heard>>
    BY DEF SendCheck, Goes, past, Turns
  <1>2. /\ checks[turn] \in Checks(Len(requests)) /\ checks[turn].phase = "none"
        /\ checks[turn].request = 0 /\ turn \notin ran \cup heard /\ c # None
    BY <1>1, CheckType, HostTurnAssumption DEF CheckInv, TurnInv
  <1>3. PICK row : row = [checks[turn] EXCEPT !.phase = "sent"]
    OBVIOUS
  <1>4. /\ row \in Checks(Len(requests)) /\ row.phase = "sent"
        /\ row.decision = checks[turn].decision /\ row.request = 0
    BY <1>2, <1>3 DEF Checks
  <1>5. checks' = [checks EXCEPT ![turn] = row]
    BY <1>1, <1>3
  <1>6. /\ checks'[turn] = row /\ \A m \in Turns : m # turn => checks'[m] = checks[m]
        /\ command'[turn] = c /\ \A m \in Turns : m # turn => command'[m] = command[m]
    BY <1>1, <1>5 DEF GuardTypes
  <1>7. GuardTypes'
    BY <1>1, <1>4, <1>5 DEF GuardTypes
  <1>8. CheckInv'
    BY <1>1, <1>2, <1>4, <1>6 DEF CheckInv, Turns
  <1>9. RequestInv'
    <2>1. \A m \in Turns : checks'[m].request = checks[m].request
      BY <1>2, <1>4, <1>6
    <2>2. \A r \in 1..Len(requests) : requests[r].turn \in Turns
      BY RequestType DEF GuardTypes
    <2>3. QED
      BY <1>1, <2>1, <2>2 DEF RequestInv
  <1>10. TurnInv'
    <2>1. \A m \in ran \cup heard : m \in Turns /\ m # turn /\ checks'[m] = checks[m] /\ command'[m] = command[m]
      BY <1>2, <1>6 DEF GuardTypes
    <2>2. \A m \in ran : Cleared(m) => Cleared(m)'
      BY <1>1, <2>1 DEF Cleared
    <2>3. QED
      BY <1>1, <1>2, <1>6, <2>1, <2>2, HostTurnAssumption DEF TurnInv
  <1>11. QED
    BY <1>7, <1>8, <1>9, <1>10

(* The host goes on from its check, by what it heard or by its own list. *)
LEMMA AnswerGuard ==
  ASSUME GuardInv, HearDecision \/ DecideLocally \/ HearVerdict \/ AskTimesOut \/ RunTool
  PROVE  GuardInv'
  <1> USE DEF GuardInv
  <1>1. /\ UNCHANGED <<guard, turn, command>> /\ turn \in Turns
    BY DEF HearDecision, DecideLocally, HearVerdict, AskTimesOut, RunTool, Goes, TurnInv
  <1>2. UNCHANGED <<rules, checks, requests, consoles, turn, command>>
    BY <1>1 DEF guard
  <1>3. CheckInv' /\ RequestInv'
    BY <1>2 DEF CheckInv, RequestInv
  <1>4. CASE HearDecision
    <2>1. /\ stage = "checking" /\ checks[turn].phase = "filed" /\ heard' = heard \cup {turn}
          /\ stage' = Proceeds(checks[turn].decision) /\ ran' = ran
      BY <1>4 DEF HearDecision, Goes
    <2>2. turn \notin ran /\ command[turn] # None
      BY <2>1 DEF TurnInv
    <2>3. checks[turn].decision \in {"allow", "ask", "deny"}
      BY <1>1, CheckType
    <2>4. checks[turn].decision # "deny" => command[turn] \notin Builtin
      BY <1>1, <2>1 DEF CheckInv
    <2>5. stage' = IF checks[turn].decision = "deny" THEN "working"
                   ELSE IF checks[turn].decision = "ask" THEN "asking" ELSE "running"
      BY <2>1, <2>3 DEF Proceeds
    <2>6. GuardTypes'
      BY <1>1, <1>2, <2>1 DEF GuardTypes
    <2>7. \A m \in ran : Cleared(m)'
      BY <1>2, <2>1, <2>2 DEF Cleared, TurnInv
    <2>8. stage' = "running" => Cleared(turn)'
      BY <1>2, <2>1, <2>3, <2>4, <2>5 DEF Cleared
    <2>9. TurnInv'
      BY <1>1, <1>2, <2>1, <2>2, <2>3, <2>5, <2>7, <2>8 DEF TurnInv
    <2>10. QED
      BY <1>3, <2>6, <2>9
  <1>5. CASE ~HearDecision
    <2>1. heard' = heard
      BY <1>5 DEF DecideLocally, HearVerdict, AskTimesOut, RunTool, past
    <2>2. \A m : Cleared(m) => Cleared(m)'
      BY <1>2, <2>1 DEF Cleared
    <2>3. CASE DecideLocally
      <3>1. /\ stage = "checking" /\ ran' = ran
            /\ stage' = IF command[turn] \in LocalDeny THEN "working" ELSE "running"
        BY <2>3 DEF DecideLocally, Goes, past
      <3>2. command[turn] # None /\ (stage' = "running" => Cleared(turn))
        BY <3>1 DEF TurnInv, Cleared
      <3>3. QED
        BY <1>2, <1>3, <2>1, <2>2, <3>1, <3>2 DEF GuardTypes, TurnInv
    <2>4. CASE HearVerdict \/ AskTimesOut
      <3>1. stage = "asking" /\ stage' \in {"working", "running"} /\ ran' = ran
        BY <2>4 DEF HearVerdict, AskTimesOut, Goes, past
      <3>2. turn \in heard /\ checks[turn].phase = "filed" /\ checks[turn].decision = "ask"
            /\ command[turn] # None
        BY <3>1 DEF TurnInv
      <3>3. command[turn] \notin Builtin /\ checks[turn].request \in 1..Len(requests)
        BY <1>1, <3>2 DEF CheckInv
      <3>4. stage' = "running" => consoles[checks[turn].request] = {"allowed"}
        <4>1. stage' = "running" => requests[checks[turn].request].status = "allowed"
          BY <2>4 DEF HearVerdict, AskTimesOut, Goes
        <4>2. QED
          BY <3>3, <4>1 DEF RequestInv
      <3>5. stage' = "running" => Cleared(turn)
        BY <3>2, <3>3, <3>4 DEF Cleared
      <3>6. QED
        BY <1>2, <1>3, <2>1, <2>2, <3>1, <3>2, <3>5 DEF GuardTypes, TurnInv
    <2>5. CASE RunTool
      <3>1. stage = "running" /\ stage' = "working" /\ ran' = ran \cup {turn}
        BY <2>5 DEF RunTool, Goes
      <3>2. Cleared(turn) /\ command[turn] # None
        BY <3>1 DEF TurnInv
      <3>3. QED
        BY <1>1, <1>2, <1>3, <2>1, <2>2, <3>1, <3>2 DEF GuardTypes, TurnInv
    <2>6. QED
      BY <1>5, <2>3, <2>4, <2>5
  <1>6. QED
    BY <1>4, <1>5

------------------------------------------------------------------------------
(* The inductive invariant of a thread's turns. *)
TurnsInv == MemoryTypes /\ MemoryInv /\ LineInv /\ GuardInv

LEMMA InitTurns == Init => TurnsInv
  <1> SUFFICES ASSUME Init
               PROVE  TurnsInv
    OBVIOUS
  <1> USE HostTurnAssumption DEF Init
  <1>1. Cardinality({}) = 0
    BY FS_EmptySet
  <1>2. MemoryTypes
    BY <1>1 DEF MemoryTypes, Saved, Stages, Places
  <1>3. MemoryInv
    BY DEF MemoryInv, Remembering, RemembersLastTurn
  <1>L. LineInv
    BY DEF LineInv, Whole, Copies, Turns
  <1>4. requests \in Seq(Rows) /\ Len(requests) = 0
    OBVIOUS
  <1>5. NoCheck \in Checks(Len(requests)) /\ NoCheck.phase = "none" /\ NoCheck.request = 0
    BY <1>4 DEF NoCheck, Checks
  <1>6. GuardTypes
    BY <1>4, <1>5 DEF GuardTypes
  <1>7. CheckInv
    BY <1>5 DEF CheckInv, Turns
  <1>8. RequestInv
    BY <1>4 DEF RequestInv, Turns
  <1>9. TurnInv
    BY DEF TurnInv
  <1>10. QED
    BY <1>2, <1>3, <1>L, <1>6, <1>7, <1>8, <1>9 DEF TurnsInv, GuardInv

LEMMA NextTurns ==
  ASSUME TurnsInv, [Next]_vars
  PROVE  TurnsInv'
  <1> USE DEF TurnsInv
  <1>1. turn \in Nat /\ (stage # "idle" => turn \in 1..MaxTurns)
    BY HostTurnAssumption DEF MemoryTypes
  <1>2. rules \subseteq {"deny", "ask"} \X Commands
    BY DEF GuardInv, GuardTypes
  <1>3. ASSUME SameMemory, GuardInv'
        PROVE  TurnsInv'
    BY <1>3, SameMemoryInv
  <1>4. ASSUME UNCHANGED guard, UNCHANGED <<command, ran, heard>>, MemoryTypes', MemoryInv', LineInv',
               \/ turn' \in Nat /\ turn' >= turn /\ stage' \notin {"checking", "asking", "running"}
               \/ UNCHANGED <<turn, stage>>
        PROVE  TurnsInv'
    <2>1. UNCHANGED <<rules, checks, requests, consoles>>
      BY <1>4 DEF guard
    <2>2. QED
      BY <1>1, <1>2, <1>4, <2>1, ElsewhereGuard
  <1>5. CASE UNCHANGED vars
    BY <1>1, <1>2, <1>5, ElsewhereGuard, SameMemoryInv
    DEF vars, guard, worker, past, SameMemory, MemoryTypes, Remembering
  <1>6. CASE Server
    <2>1. ASSUME UNCHANGED <<copies, worker, past>>, GuardInv'
          PROVE  TurnsInv'
      BY <1>3, <2>1 DEF worker, past, SameMemory, MemoryTypes, Remembering
    <2>2. ASSUME NEW kind \in {"deny", "ask"}, NEW c \in Commands, AddRule(kind, c)
          PROVE  TurnsInv'
      BY <1>1, <1>2, <2>1, <2>2, ElsewhereGuard DEF AddRule, worker, past
    <2>3. ASSUME NEW rule \in rules, DeleteRule(rule)
          PROVE  TurnsInv'
      BY <1>1, <1>2, <2>1, <2>3, ElsewhereGuard DEF DeleteRule, worker, past
    <2>4. ASSUME NEW n \in Turns, ReadRules(n) \/ FileCheck(n)
          PROVE  TurnsInv'
      BY <2>1, <2>4, ReadRulesGuard, FileGuard DEF ReadRules, FileCheck
    <2>5. ASSUME NEW r \in 1..Len(requests),
                 Prune(r) \/ \E v \in {"allowed", "denied"} : Resolve(r, v)
          PROVE  TurnsInv'
      BY <2>1, <2>5, SettleGuard DEF Prune, Resolve
    <2>6. ASSUME NEW m \in late, LateSave(m)
          PROVE  TurnsInv'
      BY <1>4, <2>6, LateMemory DEF LateSave, worker
    <2>7. QED
      BY <1>6, <2>2, <2>3, <2>4, <2>5, <2>6 DEF Server
  <1>7. CASE Host
    <2>1. ASSUME NEW h \in Hosts, StartTurn(h)
          PROVE  TurnsInv'
      BY <1>1, <1>4, <2>1, StartMemory DEF StartTurn, Goes, past
    <2>2. CASE LoadFromServer \/ LoadFromFile \/ LoadNothing
      BY <1>1, <1>4, <2>2, LoadMemory DEF LoadFromServer, LoadFromFile, LoadNothing, Load, Goes
    <2>3. CASE SaveToServer \/ SaveToFile \/ SaveNowhere
      BY <1>1, <1>4, <2>3, SaveMemory DEF SaveToServer, SaveToFile, SaveNowhere, Ended, Goes
    <2>4. CASE Crash
      BY <1>1, <1>4, <2>4, CrashMemory DEF Crash, past
    <2>5. CASE Finish
      <3>1. SameMemory
        BY <2>5 DEF Finish, Goes, past, SameMemory, Stages, Remembering
      <3>2. QED
        BY <1>1, <1>4, <2>5, <3>1, SameMemoryInv DEF Finish, Goes, past
    <2>6. ASSUME NEW c \in Commands, SendCheck(c)
          PROVE  TurnsInv'
      <3>1. SameMemory
        BY <2>6 DEF SendCheck, Goes, past, SameMemory, Stages, Remembering
      <3>2. QED
        BY <1>1, <1>3, <2>6, <3>1, SendGuard DEF SendCheck, Goes
    <2>7. CASE HearDecision \/ DecideLocally \/ HearVerdict \/ AskTimesOut \/ RunTool
      <3>1. GuardInv'
        BY <2>7, AnswerGuard
      <3>2. /\ stage \in {"checking", "asking", "running"}
            /\ UNCHANGED <<copies, host, turn, memory, source, last>>
        BY <2>7 DEF HearDecision, DecideLocally, HearVerdict, AskTimesOut, RunTool, Goes, past
      <3>3. stage' \in {"working", "asking", "running"}
        <4>1. stage = "checking" => turn \in Turns
          BY DEF GuardInv, TurnInv
        <4>2. CASE HearDecision
          <5>1. checks[turn].decision \in {"allow", "ask", "deny"}
            BY <4>1, <4>2, CheckType DEF HearDecision, GuardInv
          <5>2. QED
            BY <4>2, <5>1 DEF HearDecision, Goes, Proceeds
        <4>3. QED
          BY <2>7, <4>2 DEF DecideLocally, HearVerdict, AskTimesOut, RunTool, Goes
      <3>4. SameMemory
        BY <3>2, <3>3 DEF SameMemory, Stages, Remembering
      <3>5. QED
        BY <1>3, <3>1, <3>4
    <2>8. QED
      BY <1>7, <2>1, <2>2, <2>3, <2>4, <2>5, <2>6, <2>7 DEF Host
  <1>8. QED
    BY <1>5, <1>6, <1>7 DEF Next

THEOREM TurnsInvariance == Spec => []TurnsInv
  <1>1. TurnsInv /\ [Next]_vars => TurnsInv'
    BY NextTurns
  <1>2. QED
    BY <1>1, InitTurns, PTL DEF Spec

(* Rules, checks, requests and copies of a memory stay in their types, and *)
(* no copy outgrows its bound.                                             *)
THEOREM HostTurnTypes == Spec => []HostTurnTypeOK
  <1>1. TurnsInv => HostTurnTypeOK
    <2> SUFFICES ASSUME MemoryTypes, GuardTypes
                 PROVE  HostTurnTypeOK
      BY DEF TurnsInv, GuardInv
    <2>1. \A m \in Copies : m \subseteq 1..turn /\ Cardinality(m) <= MemoryBound
      BY DEF MemoryTypes, Saved, Copies
    <2>2. memory \in [Turns -> SUBSET (1..turn)]
      BY DEF MemoryTypes
    <2>3. /\ rules \subseteq {"deny", "ask"} \X Commands
          /\ requests \in Seq([turn : Turns, status : Statuses]) /\ Len(requests) <= MaxTurns
          /\ checks \in [Turns -> [phase : {"none", "sent", "decided", "filed"},
                                   decision : {"allow", "ask", "deny"}, request : 0..Len(requests)]]
          /\ consoles \in [Turns -> SUBSET {"allowed", "denied"}]
          /\ command \in [Turns -> Commands \cup {None}]
          /\ ran \cup heard \subseteq Turns
      BY DEF GuardTypes, Rows, Checks
    <2>4. /\ host \in Hosts \cup {None} /\ stage \in Stages /\ turn \in 0..MaxTurns
          /\ source \in Places
          /\ last \in [turn : 0..MaxTurns, at : Places, overwritten : BOOLEAN]
      BY DEF MemoryTypes
    <2>5. QED
      BY ONLY <2>1, <2>2, <2>3, <2>4 DEF Stages, HostTurnTypeOK
  <1>2. QED
    BY <1>1, TurnsInvariance, PTL

(* A command is run only as the guard decided it, or, unheard, as the      *)
(* host's own list allows.                                                 *)
THEOREM GuardObeyed == Spec => []RunsAsDecided
  <1>1. TurnsInv => RunsAsDecided
    BY DEF TurnsInv, GuardInv, TurnInv, Cleared, RunsAsDecided
  <1>2. QED
    BY <1>1, TurnsInvariance, PTL

(* One verdict stands for each request, and the host finds that one. *)
THEOREM VerdictStands == Spec => []OneVerdict
  <1>1. TurnsInv => OneVerdict
    <2> SUFFICES ASSUME RequestInv, NEW r \in 1..Len(requests)
                 PROVE  Cardinality(consoles[r]) <= 1
      BY DEF TurnsInv, GuardInv, RequestInv, OneVerdict
    <2>1. consoles[r] = {} \/ \E v : consoles[r] = {v}
      BY DEF RequestInv
    <2>2. Cardinality(consoles[r]) \in {0, 1}
      BY <2>1, FS_EmptySet, FS_Singleton
    <2>3. QED
      BY <2>2
  <1>2. QED
    BY <1>1, TurnsInvariance, PTL

(* A turn remembers the last one that was saved, when it finds that one's  *)
(* copy where it was saved: on the server unless a late call came between, *)
(* in a file whatever came (atmcp_workbench_host.py:645-673).              *)
THEOREM MemoryFollows == Spec => []RemembersLastTurn
  <1>1. TurnsInv => RemembersLastTurn
    BY DEF TurnsInv, MemoryInv
  <1>2. QED
    BY <1>1, TurnsInvariance, PTL

(* Whichever copy is found, stale, overwritten late or cut by the bound, it *)
(* is whole: it knows of each of its turns all that this turn knew, but for *)
(* the oldest (atmcp_workbench_host.py:659-673).                            *)
THEOREM WholeMemories == Spec => []MemoryIsWhole
  <1>1. TurnsInv => MemoryIsWhole
    <2> SUFFICES ASSUME LineInv, turn \in 0..MaxTurns
                 PROVE  MemoryIsWhole
      BY DEF TurnsInv, MemoryTypes
    <2>1. \A m \in Copies \cup {memory[n] : n \in 1..turn} : Whole(m)
      BY HostTurnAssumption DEF LineInv, Turns
    <2>2. QED
      BY <2>1 DEF Whole, MemoryIsWhole
  <1>2. QED
    BY <1>1, TurnsInvariance, PTL

------------------------------------------------------------------------------
(* A turn runs its command once, and only a question has a request. *)
WarrantInv ==
  /\ stage \in {"checking", "asking", "running"} => turn \notin ran
  /\ \A n \in Turns : checks[n].request # 0 => checks[n].decision = "ask"

(* What a call does to the checks: one of them moves on. *)
Moved(n, phase, decision, request) ==
  /\ checks'[n].phase = phase
  /\ checks'[n].decision = decision
  /\ checks'[n].request = request
  /\ \A m \in Turns : m # n => checks'[m] = checks[m]

LEMMA SendMoves ==
  ASSUME GuardTypes, NEW c \in Commands, SendCheck(c), turn \in Turns
  PROVE  /\ Moved(turn, "sent", checks[turn].decision, checks[turn].request)
         /\ command'[turn] = c /\ \A m \in Turns : m # turn => command'[m] = command[m]
  <1>1. PICK row : row = [checks[turn] EXCEPT !.phase = "sent"]
    OBVIOUS
  <1>2. checks[turn] \in Checks(Len(requests)) /\ checks' = [checks EXCEPT ![turn] = row]
    BY <1>1, CheckType DEF SendCheck
  <1>3. row.phase = "sent" /\ row.decision = checks[turn].decision /\ row.request = checks[turn].request
    BY <1>1, <1>2 DEF Checks
  <1>4. command' = [command EXCEPT ![turn] = c]
    BY DEF SendCheck
  <1>5. QED
    BY <1>2, <1>3, <1>4 DEF Moved, GuardTypes

LEMMA ReadMoves ==
  ASSUME GuardTypes, NEW n \in Turns, ReadRules(n)
  PROVE  Moved(n, "decided", Decision(command[n]), checks[n].request)
  <1>1. PICK row : row = [checks[n] EXCEPT !.phase = "decided", !.decision = Decision(command[n])]
    OBVIOUS
  <1>2. checks[n] \in Checks(Len(requests)) /\ checks' = [checks EXCEPT ![n] = row]
    BY <1>1, CheckType DEF ReadRules
  <1>3. row.phase = "decided" /\ row.decision = Decision(command[n]) /\ row.request = checks[n].request
    BY <1>1, <1>2 DEF Checks
  <1>4. QED
    BY <1>2, <1>3 DEF Moved, GuardTypes

LEMMA FileMoves ==
  ASSUME GuardTypes, NEW n \in Turns, FileCheck(n)
  PROVE  Moved(n, "filed", checks[n].decision,
               IF checks[n].decision = "ask" THEN Len(requests) + 1 ELSE checks[n].request)
  <1>1. checks[n] \in Checks(Len(requests))
    BY CheckType
  <1>2. CASE checks[n].decision = "ask"
    <2>1. PICK k : k = Len(requests) + 1
      OBVIOUS
    <2>2. PICK row : row = [checks[n] EXCEPT !.phase = "filed", !.request = k]
      OBVIOUS
    <2>3. checks' = [checks EXCEPT ![n] = row]
      BY <1>2, <2>1, <2>2 DEF FileCheck
    <2>4. row.phase = "filed" /\ row.decision = checks[n].decision /\ row.request = k
      BY <1>1, <2>2 DEF Checks
    <2>5. QED
      BY <1>2, <2>1, <2>3, <2>4 DEF Moved, GuardTypes
  <1>3. CASE checks[n].decision # "ask"
    <2>1. PICK row : row = [checks[n] EXCEPT !.phase = "filed"]
      OBVIOUS
    <2>2. checks' = [checks EXCEPT ![n] = row]
      BY <1>3, <2>1 DEF FileCheck
    <2>3. row.phase = "filed" /\ row.decision = checks[n].decision /\ row.request = checks[n].request
      BY <1>1, <2>1 DEF Checks
    <2>4. QED
      BY <1>3, <2>2, <2>3 DEF Moved, GuardTypes
  <1>4. QED
    BY <1>2, <1>3

LEMMA KeepsWarrantInv ==
  ASSUME GuardInv, WarrantInv, stage # "idle" => turn \in Turns, [Next]_vars
  PROVE  WarrantInv'
  <1> USE DEF GuardInv
  <1>1. ASSUME NEW n \in Turns, ReadRules(n)
        PROVE  WarrantInv'
    <2>1. checks[n].request = 0 /\ UNCHANGED <<stage, turn, ran>>
      BY <1>1 DEF ReadRules, CheckInv, worker, past
    <2>2. QED
      BY <1>1, <2>1, ReadMoves DEF Moved, WarrantInv
  <1>2. ASSUME NEW n \in Turns, FileCheck(n)
        PROVE  WarrantInv'
    <2>1. checks[n].request = 0 /\ UNCHANGED <<stage, turn, ran>>
      BY <1>2 DEF FileCheck, CheckInv, worker, past
    <2>2. QED
      BY <1>2, <2>1, FileMoves DEF Moved, WarrantInv
  <1>3. ASSUME NEW c \in Commands, SendCheck(c)
        PROVE  WarrantInv'
    <2>1. turn \in Turns /\ command[turn] = None /\ UNCHANGED <<turn, ran>>
      BY <1>3 DEF SendCheck, Goes, past
    <2>2. turn \notin ran
      BY <2>1 DEF TurnInv
    <2>3. QED
      BY <1>3, <2>1, <2>2, SendMoves DEF Moved, WarrantInv
  <1>4. ASSUME UNCHANGED checks, stage' \in {"checking", "asking", "running"} => turn' \notin ran'
        PROVE  WarrantInv'
    BY <1>4 DEF WarrantInv
  <1>5. CASE Server
    <2>1. CASE UNCHANGED <<checks, stage, turn, ran>>
      BY <1>4, <2>1 DEF WarrantInv
    <2>2. \/ \E n \in Turns : ReadRules(n) \/ FileCheck(n)
          \/ UNCHANGED <<checks, stage, turn, ran>>
      BY <1>5 DEF Server, AddRule, DeleteRule, Prune, Resolve, LateSave, guard, worker, past
    <2>3. QED
      BY <1>1, <1>2, <2>1, <2>2
  <1>6. ASSUME NEW h \in Hosts, StartTurn(h)
        PROVE  WarrantInv'
    BY <1>4, <1>6 DEF StartTurn, Goes, guard
  <1>7. CASE \/ LoadFromServer \/ LoadFromFile \/ LoadNothing \/ Finish
             \/ SaveToServer \/ SaveToFile \/ SaveNowhere \/ Crash
    BY <1>4, <1>7 DEF LoadFromServer, LoadFromFile, LoadNothing, Load, Finish, SaveToServer, SaveToFile,
       SaveNowhere, Ended, Crash,
       Goes, guard
  <1>8. CASE HearDecision \/ DecideLocally \/ HearVerdict \/ AskTimesOut \/ RunTool
    <2>1. /\ UNCHANGED <<checks, turn>> /\ stage \in {"checking", "asking", "running"}
          /\ stage' # "working" => ran' = ran
      BY <1>8 DEF HearDecision, DecideLocally, HearVerdict, AskTimesOut, RunTool, Goes, guard, past
    <2>2. QED
      BY <1>4, <2>1 DEF WarrantInv
  <1>9. CASE UNCHANGED vars
    BY <1>4, <1>9 DEF vars, guard, worker, past, WarrantInv
  <1>10. QED
    BY <1>3, <1>5, <1>6, <1>7, <1>8, <1>9 DEF Next, Host

------------------------------------------------------------------------------
(* The refinement: every step is a step or a stutter of each turn's case. *)
CaseStep(n) == [Case(n)!Next]_(Case(n)!case)

(* The actions of the abstract specification under the mapping ... *)
LEMMA CaseSteps ==
  ASSUME NEW n
  PROVE  /\ command[n] = None /\ command'[n] \in Commands /\ DecisionOn(n)' = DecisionOn(n)
            /\ VerdictsOn(n)' = VerdictsOn(n) /\ WarrantOf(n)' = WarrantOf(n) => CaseStep(n)
         /\ command[n] # None /\ DecisionOn(n) = None /\ DecisionOn(n)' \in {"allow", "ask", "deny"}
            /\ (command[n] \in Builtin => DecisionOn(n)' = "deny") /\ command'[n] = command[n]
            /\ VerdictsOn(n)' = VerdictsOn(n) /\ WarrantOf(n)' = WarrantOf(n) => CaseStep(n)
         /\ DecisionOn(n) = "ask" /\ VerdictsOn(n) = {}
            /\ (\E v \in {"allowed", "denied"} : VerdictsOn(n)' = {v}) /\ command'[n] = command[n]
            /\ DecisionOn(n)' = DecisionOn(n) /\ WarrantOf(n)' = WarrantOf(n) => CaseStep(n)
  BY DEF CaseStep, Case!Next, Case!Ask, Case!Decide, Case!Settle, Case!case

SameCase(n) == command'[n] = command[n] /\ DecisionOn(n)' = DecisionOn(n) /\ VerdictsOn(n)' = VerdictsOn(n)

(* ... and those of the host, which only move its warrant. *)
LEMMA WarrantSteps ==
  ASSUME NEW n, SameCase(n),
         \/ WarrantOf(n)' = WarrantOf(n)
         \/ /\ command[n] # None
            /\ \/ /\ WarrantOf(n) = "none"
                  /\ \/ DecisionOn(n) = "allow" /\ WarrantOf(n)' = "server"
                     \/ DecisionOn(n) = "ask" /\ VerdictsOn(n) = {"allowed"} /\ WarrantOf(n)' = "human"
                     \/ command[n] \notin LocalDeny /\ WarrantOf(n)' = "host"
               \/ WarrantOf(n) \in {"server", "human", "host"} /\ WarrantOf(n)' = "used"
               \/ WarrantOf(n) \in {"none", "server", "human", "host"} /\ WarrantOf(n)' = "void"
  PROVE  CaseStep(n)
  BY DEF SameCase, CaseStep, Case!Next, Case!Issue, Case!Use, Case!Void, Case!Warrants, Case!case

LEMMA CaseInitially ==
  ASSUME Init, NEW n \in Turns
  PROVE  Case(n)!Init
  BY DEF Init, Case!Init, DecisionOn, VerdictsOn, WarrantOf, NoCheck

(* A warrant sees the decision only of a turn that has heard it. *)
LEMMA SameWarrant ==
  ASSUME NEW n, UNCHANGED <<command, turn, stage, ran, heard>>,
         n \in heard => checks'[n].decision = checks[n].decision
  PROVE  WarrantOf(n)' = WarrantOf(n)
  BY DEF WarrantOf, Issuer

LEMMA ReadCase ==
  ASSUME GuardInv, NEW m \in Turns, ReadRules(m), NEW n \in Turns
  PROVE  CaseStep(n)
  <1> USE DEF GuardInv
  <1>1. /\ checks[m].phase = "sent" /\ checks[m].request = 0 /\ command[m] # None /\ m \notin heard
        /\ UNCHANGED <<consoles, command, turn, stage, ran, heard>>
    BY DEF ReadRules, CheckInv, TurnInv, worker, past
  <1>2. Moved(m, "decided", Decision(command[m]), 0)
    BY <1>1, ReadMoves
  <1>3. WarrantOf(n)' = WarrantOf(n)
    BY <1>1, <1>2, SameWarrant DEF Moved
  <1>4. CASE n # m
    BY <1>1, <1>2, <1>3, <1>4, WarrantSteps DEF Moved, SameCase, DecisionOn, VerdictsOn
  <1>5. CASE n = m
    <2>1. DecisionOn(n) = None /\ DecisionOn(n)' = Decision(command[n]) /\ VerdictsOn(n)' = VerdictsOn(n)
      BY <1>1, <1>2, <1>5 DEF Moved, DecisionOn, VerdictsOn
    <2>2. Decision(command[n]) \in {"allow", "ask", "deny"} /\ (command[n] \in Builtin => Decision(command[n]) = "deny")
      BY DecisionDenies
    <2>3. QED
      BY <1>1, <1>3, <1>5, <2>1, <2>2, CaseSteps
  <1>6. QED
    BY <1>4, <1>5

LEMMA FileCase ==
  ASSUME GuardInv, NEW m \in Turns, FileCheck(m), NEW n \in Turns
  PROVE  CaseStep(n)
  <1> USE DEF GuardInv
  <1>1. /\ checks[m].phase = "decided" /\ checks[m].request = 0
        /\ UNCHANGED <<consoles, command, turn, stage, ran, heard>>
    BY DEF FileCheck, CheckInv, worker, past
  <1>2. PICK k : k = IF checks[m].decision = "ask" THEN Len(requests) + 1 ELSE 0
    OBVIOUS
  <1>3. Moved(m, "filed", checks[m].decision, k)
    BY <1>1, <1>2, FileMoves
  <1>4. k # 0 => consoles[k] = {}
    <2>1. Len(requests) \in Nat /\ Len(requests) + 1 \in Turns
      BY <1>1, RoomForRequest, HostTurnAssumption DEF GuardTypes, Turns
    <2>2. QED
      BY <1>2, <2>1 DEF RequestInv
  <1>5. WarrantOf(n)' = WarrantOf(n)
    BY <1>1, <1>3, SameWarrant DEF Moved
  <1>6. DecisionOn(n)' = DecisionOn(n)
    BY <1>1, <1>3 DEF Moved, DecisionOn
  <1>7. VerdictsOn(n)' = VerdictsOn(n)
    BY <1>1, <1>3, <1>4 DEF Moved, VerdictsOn
  <1>8. QED
    BY <1>1, <1>5, <1>6, <1>7, WarrantSteps DEF SameCase

(* A verdict is given once, on a question. *)
LEMMA ResolveCase ==
  ASSUME GuardInv, WarrantInv, NEW r \in 1..Len(requests), NEW v \in {"allowed", "denied"},
         Resolve(r, v), NEW n \in Turns
  PROVE  CaseStep(n)
  <1> USE DEF GuardInv
  <1>1. UNCHANGED <<checks, command, turn, stage, ran, heard>>
    BY DEF Resolve, worker, past
  <1>2. /\ consoles[r] = {} /\ r \in Turns
        /\ consoles' = [consoles EXCEPT ![r] = @ \cup {v}]
    BY HostTurnAssumption DEF Resolve, Open, RequestInv, GuardTypes, Turns
  <1>3. consoles'[r] = {v} /\ \A q \in Turns : q # r => consoles'[q] = consoles[q]
    <2>1. {} \cup {v} = {v}
      OBVIOUS
    <2>2. QED
      BY <1>2, <2>1 DEF GuardTypes
  <1>4. WarrantOf(n)' = WarrantOf(n) /\ DecisionOn(n)' = DecisionOn(n)
    BY <1>1, SameWarrant DEF DecisionOn
  <1>5. CASE checks[n].request = r
    <2>1. checks[n].phase = "filed" /\ checks[n].decision = "ask" /\ r # 0
      BY <1>2, <1>5 DEF CheckInv, WarrantInv, Turns
    <2>2. DecisionOn(n) = "ask" /\ VerdictsOn(n) = {} /\ VerdictsOn(n)' = {v}
      BY <1>1, <1>2, <1>3, <1>5, <2>1 DEF DecisionOn, VerdictsOn
    <2>3. QED
      BY <1>1, <1>4, <2>2, CaseSteps
  <1>6. CASE checks[n].request # r
    <2>1. checks[n].request # 0 => checks[n].request \in Turns
      BY CheckType, HostTurnAssumption DEF GuardTypes, Turns
    <2>2. VerdictsOn(n)' = VerdictsOn(n)
      BY <1>1, <1>3, <1>6, <2>1 DEF VerdictsOn
    <2>3. QED
      BY <1>1, <1>4, <2>2, WarrantSteps DEF SameCase
  <1>7. QED
    BY <1>5, <1>6

LEMMA ServerCase ==
  ASSUME GuardInv, WarrantInv, Server, NEW n \in Turns
  PROVE  CaseStep(n)
  <1>1. \/ \E m \in Turns : ReadRules(m) \/ FileCheck(m)
        \/ \E r \in 1..Len(requests), v \in {"allowed", "denied"} : Resolve(r, v)
        \/ UNCHANGED <<checks, consoles, command, turn, stage, ran, heard>>
    BY DEF Server, AddRule, DeleteRule, Prune, LateSave, guard, worker, past
  <1>2. CASE UNCHANGED <<checks, consoles, command, turn, stage, ran, heard>>
    BY <1>2, SameWarrant, WarrantSteps DEF SameCase, DecisionOn, VerdictsOn
  <1>3. QED
    BY <1>1, <1>2, ReadCase, FileCase, ResolveCase

LEMMA SendCase ==
  ASSUME GuardInv, NEW c \in Commands, SendCheck(c), turn \in Turns, NEW n \in Turns
  PROVE  CaseStep(n)
  <1> USE DEF GuardInv
  <1>1. /\ stage = "working" /\ stage' = "checking" /\ command[turn] = None /\ c # None
        /\ UNCHANGED <<consoles, turn, ran, heard>>
    BY HostTurnAssumption DEF SendCheck, Goes, past
  <1>2. checks[turn].phase = "none" /\ checks[turn].request = 0 /\ turn \notin ran
    BY <1>1 DEF CheckInv, TurnInv
  <1>3. /\ Moved(turn, "sent", checks[turn].decision, 0)
        /\ command'[turn] = c /\ \A m \in Turns : m # turn => command'[m] = command[m]
    BY <1>2, SendMoves
  <1>4. DecisionOn(n)' = DecisionOn(n) /\ VerdictsOn(n)' = VerdictsOn(n)
    BY <1>1, <1>2, <1>3 DEF Moved, DecisionOn, VerdictsOn
  <1>5. WarrantOf(n)' = WarrantOf(n)
    BY <1>1, <1>2, <1>3 DEF WarrantOf
  <1>6. QED
    BY <1>1, <1>3, <1>4, <1>5, CaseSteps, WarrantSteps DEF SameCase

(* The host goes on from its check: to a warrant, or to none. *)
LEMMA AnswerCase ==
  ASSUME GuardInv, WarrantInv,
         HearDecision \/ DecideLocally \/ HearVerdict \/ AskTimesOut \/ RunTool, NEW n \in Turns
  PROVE  CaseStep(n)
  <1> USE DEF GuardInv
  <1>1. /\ UNCHANGED <<checks, consoles, command, turn>> /\ turn \in Turns
        /\ stage \in {"checking", "asking", "running"} /\ turn \notin ran /\ command[turn] # None
    BY DEF HearDecision, DecideLocally, HearVerdict, AskTimesOut, RunTool, Goes, TurnInv, guard, WarrantInv
  <1>2. SameCase(n)
    BY <1>1 DEF SameCase, DecisionOn, VerdictsOn
  <1>3. CASE n # turn
    <2>1. ran' \subseteq ran \cup {turn} /\ ran \subseteq ran'
      BY DEF HearDecision, DecideLocally, HearVerdict, AskTimesOut, RunTool, past
    <2>2. WarrantOf(n)' = WarrantOf(n)
      BY <1>1, <1>3, <2>1 DEF WarrantOf
    <2>3. QED
      BY <1>2, <2>2, WarrantSteps
  <1>4. CASE n = turn
    <2>1. CASE HearDecision
      <3>1. /\ stage = "checking" /\ checks[n].phase = "filed" /\ n \in heard' /\ n \notin ran'
            /\ stage' = Proceeds(checks[n].decision)
        BY <1>1, <1>4, <2>1 DEF HearDecision, Goes
      <3>2. checks[n].decision \in {"allow", "ask", "deny"} /\ DecisionOn(n) = checks[n].decision
        BY <3>1, CheckType DEF DecisionOn
      <3>3. stage' = IF checks[n].decision = "deny" THEN "working"
                     ELSE IF checks[n].decision = "ask" THEN "asking" ELSE "running"
        BY <3>1, <3>2 DEF Proceeds
      <3>4. WarrantOf(n) = "none"
        BY <1>1, <1>4, <3>1 DEF WarrantOf
      <3>5. WarrantOf(n)' = IF checks[n].decision = "deny" THEN "void"
                            ELSE IF checks[n].decision = "ask" THEN "none" ELSE "server"
        BY <1>1, <1>4, <3>1, <3>2, <3>3 DEF WarrantOf, Issuer
      <3>6. QED
        BY <1>1, <1>2, <1>4, <3>2, <3>4, <3>5, WarrantSteps
    <2>2. CASE DecideLocally
      <3>1. /\ stage = "checking" /\ n \notin heard /\ UNCHANGED <<ran, heard>>
            /\ stage' = IF command[n] \in LocalDeny THEN "working" ELSE "running"
        BY <1>4, <2>2 DEF DecideLocally, Goes, past, TurnInv
      <3>2. WarrantOf(n) = "none" /\ WarrantOf(n)' = IF command[n] \in LocalDeny THEN "void" ELSE "host"
        BY <1>1, <1>4, <3>1 DEF WarrantOf, Issuer
      <3>3. QED
        BY <1>1, <1>2, <1>4, <3>2, WarrantSteps
    <2>3. CASE HearVerdict \/ AskTimesOut
      <3>1. /\ stage = "asking" /\ stage' \in {"working", "running"} /\ UNCHANGED <<ran, heard>>
            /\ stage' = "running" => requests[checks[n].request].status = "allowed"
        BY <1>4, <2>3 DEF HearVerdict, AskTimesOut, Goes, past
      <3>2. /\ n \in heard /\ checks[n].phase = "filed" /\ checks[n].decision = "ask"
            /\ checks[n].request \in 1..Len(requests)
        BY <1>4, <3>1 DEF TurnInv, CheckInv
      <3>3. stage' = "running" => consoles[checks[n].request] = {"allowed"}
        BY <3>1, <3>2 DEF RequestInv
      <3>4. DecisionOn(n) = "ask" /\ VerdictsOn(n) = consoles[checks[n].request]
        BY <3>2 DEF DecisionOn, VerdictsOn
      <3>5. WarrantOf(n) = "none" /\ WarrantOf(n)' = IF stage' = "running" THEN "human" ELSE "void"
        BY <1>1, <1>4, <3>1, <3>2 DEF WarrantOf, Issuer
      <3>6. QED
        BY <1>1, <1>2, <1>4, <3>3, <3>4, <3>5, WarrantSteps
    <2>4. CASE RunTool
      <3>1. stage = "running" /\ n \in ran'
        BY <1>4, <2>4 DEF RunTool, Goes
      <3>2. WarrantOf(n) \in {"server", "human", "host"} /\ WarrantOf(n)' = "used"
        BY <1>1, <1>4, <3>1 DEF WarrantOf, Issuer
      <3>3. QED
        BY <1>1, <1>2, <1>4, <3>2, WarrantSteps
    <2>5. QED
      BY <2>1, <2>2, <2>3, <2>4
  <1>5. QED
    BY <1>3, <1>4

(* The rest of a turn: a crash makes a warrant void, and nothing else      *)
(* touches one.                                                            *)
LEMMA ElsewhereCase ==
  ASSUME GuardInv, WarrantInv, NEW n \in Turns, UNCHANGED <<checks, consoles, command, ran, heard>>,
         \/ UNCHANGED <<turn, stage>>
         \/ turn' = turn /\ stage' \notin {"checking", "asking", "running"}
         \/ stage = "idle" /\ stage' = "loading"
  PROVE  CaseStep(n)
  <1> USE DEF GuardInv
  <1>1. SameCase(n)
    BY DEF SameCase, DecisionOn, VerdictsOn
  <1>2. CASE n = turn /\ turn' = turn /\ stage \in {"checking", "asking", "running"}
             /\ stage' \notin {"checking", "asking", "running"}
    <2>1. n \notin ran /\ command[n] # None
      BY <1>2 DEF WarrantInv, TurnInv
    <2>2. WarrantOf(n) \in {"none", "server", "human", "host"} /\ WarrantOf(n)' = "void"
      BY <1>2, <2>1 DEF WarrantOf, Issuer
    <2>3. QED
      BY <1>1, <2>1, <2>2, WarrantSteps
  <1>3. CASE ~(n = turn /\ turn' = turn /\ stage \in {"checking", "asking", "running"}
               /\ stage' \notin {"checking", "asking", "running"})
    <2>1. WarrantOf(n)' = WarrantOf(n)
      BY <1>3 DEF WarrantOf, Issuer
    <2>2. QED
      BY <1>1, <2>1, WarrantSteps
  <1>4. QED
    BY <1>2, <1>3

LEMMA NextCase ==
  ASSUME GuardInv, WarrantInv, stage # "idle" => turn \in Turns, [Next]_vars, NEW n \in Turns
  PROVE  CaseStep(n)
  <1>1. ASSUME NEW h \in Hosts, StartTurn(h)
        PROVE  CaseStep(n)
    BY <1>1, ElsewhereCase DEF StartTurn, Goes, guard, past
  <1>2. CASE \/ LoadFromServer \/ LoadFromFile \/ LoadNothing \/ Finish
             \/ SaveToServer \/ SaveToFile \/ SaveNowhere \/ Crash
    BY <1>2, ElsewhereCase DEF LoadFromServer, LoadFromFile, LoadNothing, Load, Finish, SaveToServer,
       SaveToFile, SaveNowhere, Ended,
       Crash, Goes, guard, past
  <1>3. ASSUME NEW c \in Commands, SendCheck(c)
        PROVE  CaseStep(n)
    BY <1>3, SendCase DEF SendCheck, Goes
  <1>4. CASE UNCHANGED vars
    BY <1>4, ElsewhereCase DEF vars, guard, worker, past
  <1>5. QED
    BY <1>1, <1>2, <1>3, <1>4, ServerCase, AnswerCase DEF Next, Host

(* The guard, on server and host, implements a warrant for the command of   *)
(* every turn: it is run once, and only on a warrant that stands, however  *)
(* late the server, the humans and the sweep are.                          *)
THEOREM GuardIsWarrant == Spec => ImplementsWarrant
  <1>1. Init => WarrantInv /\ \A n \in Turns : Case(n)!Init
    BY CaseInitially DEF Init, WarrantInv, NoCheck
  <1>2. TurnsInv /\ WarrantInv /\ [Next]_vars
        => WarrantInv' /\ [\A n \in Turns : [Case(n)!Next]_(Case(n)!case)]_vars
    <2>1. TurnsInv => GuardInv /\ (stage # "idle" => turn \in Turns)
      BY HostTurnAssumption DEF TurnsInv, MemoryTypes, Turns
    <2>2. QED
      BY <2>1, KeepsWarrantInv, NextCase DEF CaseStep
  <1>3. QED
    BY <1>1, <1>2, TurnsInvariance, PTL DEF Spec, ImplementsWarrant
==============================================================================
