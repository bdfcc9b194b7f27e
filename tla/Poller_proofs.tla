---------------------------- MODULE Poller_proofs ----------------------------
(***************************************************************************)
(* Theorems about Poller, for any budget, cost, number of retries,         *)
(* directives, sessions and faults.                                        *)
(***************************************************************************)
EXTENDS Poller, FiniteSetTheorems, TLAPS

Known == DOMAIN holds \cup {None}

TypeInv ==
  /\ holds \in Seq(SUBSET Nat)
  /\ file \in [session : Known, spent : Nat]
  /\ stage \in {"down", "idle", "working", "told", "heard"}
  /\ mode \in {"resume", "fresh"}
  /\ sid \in Known /\ retry \in Known /\ resumed \in Known
  /\ ended \in [kind : {"ok", "transient", "permanent"}, session : Known, cost : 0..MaxCost]
  /\ spent \in Nat /\ paid \in Nat /\ slips \in Nat /\ faults \in Nat
  /\ directive \in 0..MaxDirectives
  /\ stage \in {"working", "told", "heard"} => directive \in 1..MaxDirectives
  /\ attempt \in 0..MaxRetries
  /\ silent \in BOOLEAN /\ unsaved \in BOOLEAN /\ lost \in BOOLEAN
  /\ \A s \in DOMAIN holds : holds[s] \subseteq 1..directive
  /\ heard \subseteq 1..directive
  /\ stage # "down" => file.spent <= spent

(* What was paid is in the file, or is the cost of the attempt that has    *)
(* just ended, or slipped; and an attempt begins below the budget.         *)
Pending == IF stage \in {"told", "heard"} THEN ended.cost ELSE 0

MoneyInv ==
  /\ paid <= file.spent + MaxCost * slips + Pending
  /\ stage = "working" => ~OverBudget(spent)
  /\ BudgetHolds

(* In resume mode the session in memory is the one an attempt resumes, the *)
(* one a retry resumes and, unless its write failed, the one in the file;  *)
(* it holds what was heard, and the session just told holds that too.      *)
SessionInv ==
  /\ stage = "down" \/ mode = "fresh" => ~unsaved
  /\ stage \in {"working", "told"} /\ attempt = 0 => retry = None
  /\ ~lost /\ ~unsaved => heard \subseteq HeldBy(file.session)
  /\ mode = "resume" /\ stage # "down" =>
       /\ ~unsaved => file.session = sid
       /\ ~lost => heard \subseteq HeldBy(sid)
       /\ stage \in {"working", "told"} /\ attempt > 0 => retry = sid
       /\ stage = "heard" => retry = sid
       /\ stage = "working" => resumed = sid
       /\ stage = "told" /\ ended.session = None => sid = None
       /\ stage = "told" /\ ~lost => heard \subseteq HeldBy(ended.session)

(* In fresh mode what a directive's attempts tell and its retries resume   *)
(* holds nothing else, from a first attempt on that told something.        *)
Apart(s) == HeldBy(s) \subseteq {directive}

FreshInv ==
  mode = "fresh" =>
    /\ stage = "working" /\ attempt = 0 => resumed = None
    /\ stage = "working" /\ attempt > 0 => resumed = retry
    /\ ~silent =>
         /\ stage \in {"working", "told"} /\ attempt > 0 => Apart(retry)
         /\ stage = "told" => Apart(ended.session)
         /\ stage = "heard" => Apart(retry)

PollerInv == TypeInv /\ MoneyInv /\ SessionInv /\ FreshInv

-----------------------------------------------------------------------------
(* Sessions are only opened, and only remember more. *)
LEMMA SessionsGrow ==
  ASSUME holds \in Seq(SUBSET Nat), NEW S, S \subseteq Nat,
         \/ holds' = holds
         \/ holds' = Append(holds, S)
         \/ \E s \in DOMAIN holds : holds' = [holds EXCEPT ![s] = @ \cup S]
  PROVE  /\ holds' \in Seq(SUBSET Nat)
         /\ Known \subseteq Known'
         /\ \A s \in Known : HeldBy(s) \subseteq HeldBy(s)'
<1>1. None \notin DOMAIN holds BY PollerAssumption
<1>2. CASE holds' = holds BY <1>2 DEF Known, HeldBy
<1>3. CASE holds' = Append(holds, S)
  <2>1. /\ holds' \in Seq(SUBSET Nat)
        /\ DOMAIN holds \subseteq DOMAIN holds'
        /\ \A s \in DOMAIN holds : holds'[s] = holds[s]
    BY <1>3
  <2> QED BY <2>1, <1>1 DEF Known, HeldBy
<1>4. CASE \E s \in DOMAIN holds : holds' = [holds EXCEPT ![s] = @ \cup S]
  <2>1. PICK s \in DOMAIN holds : holds' = [holds EXCEPT ![s] = @ \cup S] BY <1>4
  <2>2. holds' \in Seq(SUBSET Nat) BY <2>1
  <2>3. DOMAIN holds = DOMAIN holds' /\ \A r \in DOMAIN holds : holds[r] \subseteq holds'[r]
    BY <2>1
  <2> QED BY <2>2, <2>3, <1>1 DEF Known, HeldBy
<1> QED BY <1>2, <1>3, <1>4

(* The session that would be opened next. *)
LEMMA Opening ==
  ASSUME holds \in Seq(SUBSET Nat), NEW S, S \subseteq Nat, holds' = Append(holds, S)
  PROVE  /\ Fresh \in Known' /\ Fresh \notin Known /\ Fresh # None
         /\ holds'[Fresh] = S
         /\ \A s \in DOMAIN holds' : s = Fresh \/ (s \in DOMAIN holds /\ holds'[s] = holds[s])
<1>1. Fresh \in Nat /\ Fresh # None BY PollerAssumption DEF Fresh
<1>2. DOMAIN holds = 1..Len(holds) /\ DOMAIN holds' = 1..Fresh /\ Len(holds) \in Nat
  BY DEF Fresh
<1>3. holds'[Fresh] = S /\ \A s \in DOMAIN holds : holds'[s] = holds[s]
  BY DEF Fresh
<1> QED BY <1>1, <1>2, <1>3 DEF Known, HeldBy, Fresh

LEMMA FailingCounts ==
  ASSUME NEW failing, failing \subseteq {"session", "spent"}
  PROVE  /\ Cardinality(failing) \in Nat
         /\ failing = {} => Cardinality(failing) = 0
         /\ failing = {"spent"} => Cardinality(failing) = 1
<1>1. IsFiniteSet({"session", "spent"})
  <2>1. IsFiniteSet({"spent"}) BY FS_Singleton
  <2>2. IsFiniteSet({"spent"} \cup {"session"}) BY <2>1, FS_AddElement
  <2>3. {"spent"} \cup {"session"} = {"session", "spent"} OBVIOUS
  <2> QED BY <2>2, <2>3
<1>2. IsFiniteSet(failing) BY <1>1, FS_Subset
<1> QED BY <1>2, FS_CardinalityType, FS_EmptySet, FS_Singleton

-----------------------------------------------------------------------------
(* Types. *)

LEMMA Constants ==
  /\ Budget \in Nat /\ MaxRetries \in Nat /\ MaxCost \in Nat /\ MaxDirectives \in Nat
  /\ None \notin Int
  BY PollerAssumption

LEMMA TypesInitially == Init => TypeInv
<1> SUFFICES ASSUME Init PROVE TypeInv OBVIOUS
<1>1. holds = <<>> /\ holds \in Seq(SUBSET Nat) /\ DOMAIN holds = {} BY DEF Init
<1>2. /\ file \in [session : Known, spent : Nat]
      /\ ended \in [kind : {"ok", "transient", "permanent"}, session : Known, cost : 0..MaxCost]
  BY Constants DEF Init, NoEnd, Known
<1>3. /\ sid \in Known /\ retry \in Known /\ resumed \in Known
      /\ attempt \in 0..MaxRetries /\ directive \in 0..MaxDirectives
      /\ stage = "down" /\ mode = "resume" /\ heard = {}
      /\ spent = 0 /\ paid = 0 /\ slips = 0 /\ faults = 0
      /\ silent = FALSE /\ unsaved = FALSE /\ lost = FALSE
  BY Constants DEF Init, Known
<1> QED BY <1>1, <1>2, <1>3 DEF TypeInv

LEMMA WriteTypes ==
  ASSUME NEW f, NEW failing, NEW m, NEW S, f \in [session : S, spent : Nat]
  PROVE  /\ \A s \in S : /\ WithSession(f, m, s, failing) \in [session : S, spent : Nat]
                         /\ WithSession(f, m, s, failing).spent = f.spent
                         /\ WithSession(f, m, s, failing).session =
                              IF m = "resume" /\ "session" \notin failing THEN s ELSE f.session
         /\ \A n \in Nat : /\ Written(f, "spent", n, failing) \in [session : S, spent : Nat]
                           /\ Written(f, "spent", n, failing).session = f.session
                           /\ Written(f, "spent", n, failing).spent =
                                IF "spent" \notin failing THEN n ELSE f.spent
  BY DEF WithSession, Written, Merge

(* What starting makes of the file, the sessions and the process. *)
LEMMA Started ==
  ASSUME TypeInv, NEW m \in {"resume", "fresh"}, NEW seed \in BOOLEAN, NEW reset \in BOOLEAN,
         NEW failing \in SUBSET {"session", "spent"}, Start(m, seed, reset, failing)
  PROVE  /\ holds' \in Seq(SUBSET Nat) /\ Known \subseteq Known'
         /\ \A s \in Known : HeldBy(s) \subseteq HeldBy(s)'
         /\ \A s \in DOMAIN holds' : holds'[s] = {} \/ (s \in DOMAIN holds /\ holds'[s] = holds[s])
         /\ sid' \in Known'
         /\ file' \in [session : Known', spent : Nat]
         /\ file'.spent \in {0, file.spent} /\ (~reset => file'.spent = file.spent)
         /\ file'.spent = spent'
         /\ m = "resume" =>
              \/ file'.session = file.session /\ sid' = file.session /\ unsaved' = FALSE
              \/ file.session = None /\ (unsaved' = FALSE => file'.session = sid')
         /\ m = "fresh" => file'.session = file.session /\ unsaved' = FALSE
<1> DEFINE loaded == IF m = "resume" THEN file.session ELSE None
           seeds  == seed /\ loaded = None
           seeded == IF seeds THEN WithSession(file, m, Fresh, failing) ELSE file
<1>1. /\ IF seeds THEN sid' = Fresh /\ holds' = Append(holds, {}) ELSE sid' = loaded /\ holds' = holds
      /\ file' = IF reset THEN Written(seeded, "spent", 0, failing) ELSE seeded
      /\ spent' = file'.spent
      /\ unsaved' = (seeds /\ "session" \in failing)
      /\ "session" \in failing => m = "resume" /\ seeds
      /\ stage = "down"
  BY DEF Start
<1> HIDE DEF seeded
<1>2. /\ holds \in Seq(SUBSET Nat) /\ file \in [session : Known, spent : Nat] /\ loaded \in Known
  BY DEF TypeInv, Known
<1>3. /\ holds' \in Seq(SUBSET Nat) /\ Known \subseteq Known'
      /\ \A s \in Known : HeldBy(s) \subseteq HeldBy(s)'
  <2> DEFINE S == {}
  <2>1. S \subseteq Nat /\ (holds' = holds \/ holds' = Append(holds, S)) BY <1>1
  <2> HIDE DEF S
  <2> QED BY <2>1, <1>2, SessionsGrow
<1>4. /\ \A s \in DOMAIN holds' : holds'[s] = {} \/ (s \in DOMAIN holds /\ holds'[s] = holds[s])
      /\ sid' \in Known' /\ (seeds => Fresh \in Known')
  <2>1. CASE seeds
    <3> DEFINE S == {}
    <3>1. S \subseteq Nat /\ holds' = Append(holds, S) /\ sid' = Fresh BY <1>1, <2>1
    <3>2. /\ Fresh \in Known' /\ holds'[Fresh] = S
          /\ \A s \in DOMAIN holds' : s = Fresh \/ (s \in DOMAIN holds /\ holds'[s] = holds[s])
      <4> HIDE DEF S
      <4> QED BY <3>1, <1>2, Opening
    <3> QED BY <3>1, <3>2
  <2>2. CASE ~seeds BY <1>1, <1>2, <1>3, <2>2
  <2> QED BY <2>1, <2>2
<1>5. file \in [session : Known', spent : Nat] BY <1>2, <1>3
<1>6. /\ seeded \in [session : Known', spent : Nat] /\ seeded.spent = file.spent
      /\ seeded.session = IF seeds /\ m = "resume" /\ "session" \notin failing THEN Fresh ELSE file.session
  <2>1. CASE seeds BY <2>1, <1>4, <1>5, WriteTypes DEF seeded
  <2>2. CASE ~seeds BY <2>2, <1>5 DEF seeded
  <2> QED BY <2>1, <2>2
<1>7. /\ file' \in [session : Known', spent : Nat] /\ file'.session = seeded.session
      /\ file'.spent = IF reset /\ "spent" \notin failing THEN 0 ELSE file.spent
  <2>1. CASE reset
    <3>1. file' = Written(seeded, "spent", 0, failing) BY <1>1, <2>1
    <3>2. 0 \in Nat OBVIOUS
    <3>3. /\ file' \in [session : Known', spent : Nat] /\ file'.session = seeded.session
          /\ file'.spent = IF "spent" \notin failing THEN 0 ELSE seeded.spent
      BY <3>1, <1>6 DEF Written, Merge
    <3> QED BY <3>3, <2>1, <1>6
  <2>2. CASE ~reset BY <2>2, <1>1, <1>6
  <2> QED BY <2>1, <2>2
<1> QED BY <1>1, <1>3, <1>4, <1>6, <1>7

(* What an executor that ends makes of the sessions. *)
LEMMA Ended ==
  ASSUME TypeInv, NEW kind \in {"ok", "transient", "permanent"}, NEW told \in {None, resumed, Fresh},
         NEW cost \in 0..MaxCost, End(kind, told, cost)
  PROVE  /\ holds' \in Seq(SUBSET Nat) /\ Known \subseteq Known'
         /\ \A s \in Known : HeldBy(s) \subseteq HeldBy(s)'
         /\ \A s \in DOMAIN holds' : holds'[s] \subseteq 1..directive
         /\ ended'.session \in Known'
         /\ ended' = [kind |-> kind, session |-> IF told = None THEN Passed ELSE told, cost |-> cost]
         /\ told # None => HeldBy(told)' = HeldBy(resumed) \cup {directive}
         /\ told = None => holds' = holds
         /\ \A s \in Known : s = told \/ HeldBy(s)' = HeldBy(s)
<1>1. /\ stage = "working"
      /\ ended' = [kind |-> kind, session |-> IF told = None THEN Passed ELSE told, cost |-> cost]
      /\ holds' = IF told = None THEN holds
                  ELSE IF told = Fresh THEN Append(holds, HeldBy(resumed) \cup {directive})
                  ELSE [holds EXCEPT ![told] = @ \cup {directive}]
  BY DEF End
<1>2. /\ holds \in Seq(SUBSET Nat) /\ sid \in Known /\ retry \in Known /\ resumed \in Known
      /\ directive \in 0..MaxDirectives /\ \A s \in DOMAIN holds : holds[s] \subseteq 1..directive
  BY DEF TypeInv
<1>3. directive \in Nat /\ Fresh \in Nat /\ None \notin DOMAIN holds /\ Fresh # None
      /\ Fresh \notin DOMAIN holds /\ Passed \in Known
  BY <1>2, PollerAssumption DEF Fresh, Passed
<1>4. HeldBy(resumed) \subseteq 1..directive /\ HeldBy(resumed) \subseteq Nat
  BY <1>2, <1>3 DEF HeldBy, Known
<1>5. CASE told = None
  BY <1>1, <1>2, <1>3, <1>5 DEF Known, HeldBy
<1>6. CASE told = Fresh
  <2> DEFINE S == HeldBy(resumed) \cup {directive}
  <2>1. S \subseteq Nat /\ holds' = Append(holds, S) BY <1>1, <1>3, <1>4, <1>6
  <2>2. /\ holds' \in Seq(SUBSET Nat) /\ Known \subseteq Known'
        /\ \A s \in Known : HeldBy(s) \subseteq HeldBy(s)'
    BY <2>1, <1>2, SessionsGrow
  <2>3. /\ Fresh \in Known' /\ holds'[Fresh] = S
        /\ \A s \in DOMAIN holds' : s = Fresh \/ (s \in DOMAIN holds /\ holds'[s] = holds[s])
    BY <2>1, <1>2, Opening
  <2>4. directive \in 1..MaxDirectives BY <1>1 DEF TypeInv
  <2>5. S \subseteq 1..directive BY <2>4, <1>3, <1>4
  <2>6. \A s \in Known : s = told \/ HeldBy(s)' = HeldBy(s)
    BY <2>1, <1>2, <1>3 DEF Known, HeldBy
  <2> QED BY <1>1, <1>2, <1>3, <1>6, <2>1, <2>2, <2>3, <2>5, <2>6 DEF HeldBy
<1>7. CASE told # None /\ told # Fresh
  <2>1. told = resumed /\ told \in DOMAIN holds BY <1>2, <1>7 DEF Known
  <2>2. holds' = [holds EXCEPT ![told] = @ \cup {directive}] BY <1>1, <1>7
  <2> DEFINE S == {directive}
  <2>3. S \subseteq Nat /\ \E s \in DOMAIN holds : holds' = [holds EXCEPT ![s] = @ \cup S]
    BY <1>3, <2>1, <2>2
  <2>4. /\ holds' \in Seq(SUBSET Nat) /\ Known \subseteq Known'
        /\ \A s \in Known : HeldBy(s) \subseteq HeldBy(s)'
    <3> HIDE DEF S
    <3> QED BY <2>3, <1>2, SessionsGrow
  <2>5. directive \in 1..MaxDirectives BY <1>1 DEF TypeInv
  <2>6. \A s \in DOMAIN holds' : holds'[s] \subseteq 1..directive
    BY <1>2, <2>1, <2>2, <2>5
  <2>7. HeldBy(told)' = HeldBy(resumed) \cup {directive}
    BY <1>2, <1>3, <1>7, <2>1, <2>2 DEF HeldBy
  <2>8. \A s \in Known : s = told \/ HeldBy(s)' = HeldBy(s)
    BY <1>2, <1>3, <2>1, <2>2 DEF Known, HeldBy
  <2> QED BY <1>1, <1>2, <1>7, <2>1, <2>4, <2>6, <2>7, <2>8
<1> QED BY <1>5, <1>6, <1>7

(* What keeping a session makes of the file. *)
LEMMA KeptSession ==
  ASSUME TypeInv, NEW failing \in SUBSET {"session"}, Keep(failing)
  PROVE  /\ file' \in [session : Known, spent : Nat] /\ file'.spent = file.spent
         /\ sid' = IF ended.session = None THEN sid ELSE ended.session
         /\ retry' = IF ended.session = None THEN retry ELSE ended.session
         /\ mode = "fresh" => file'.session = file.session /\ (~unsaved => ~unsaved')
         /\ mode = "resume" =>
              \/ sid' = sid /\ file'.session = file.session /\ unsaved' = unsaved
              \/ unsaved' = TRUE /\ file'.session = file.session
              \/ unsaved' = FALSE /\ file'.session = sid'
         /\ unsaved' \in BOOLEAN
<1> DEFINE other == ended.session # None /\ ended.session # sid
<1>1. /\ sid' = IF other THEN ended.session ELSE sid
      /\ file' = IF other THEN WithSession(file, mode, ended.session, failing) ELSE file
      /\ retry' = IF ended.session # None THEN ended.session ELSE retry
      /\ unsaved' = IF other THEN failing # {} ELSE unsaved
      /\ failing # {} => other /\ mode = "resume"
  BY DEF Keep
<1>2. /\ file \in [session : Known, spent : Nat] /\ ended.session \in Known
      /\ unsaved \in BOOLEAN /\ mode \in {"resume", "fresh"}
  BY DEF TypeInv
<1>3. failing = {} \/ failing = {"session"} OBVIOUS
<1>4. CASE other
  <2>1. /\ file' \in [session : Known, spent : Nat] /\ file'.spent = file.spent
        /\ file'.session = IF mode = "resume" /\ "session" \notin failing THEN ended.session ELSE file.session
    BY <1>1, <1>2, <1>4, WriteTypes
  <2> QED BY <1>1, <1>2, <1>3, <1>4, <2>1
<1>5. CASE ~other BY <1>1, <1>2, <1>5
<1> QED BY <1>4, <1>5

(* What the account of an attempt makes of the file and the process. *)
LEMMA Accounted ==
  ASSUME TypeInv, NEW failing \in SUBSET {"spent"}, Account(failing)
  PROVE  /\ file' \in [session : Known, spent : Nat] /\ file'.session = file.session
         /\ spent' = spent + ended.cost /\ spent' \in Nat
         /\ \/ file'.spent = spent' /\ slips' = slips
            \/ file'.spent = file.spent /\ slips' = slips + 1
            \/ ended.cost = 0 /\ file'.spent = file.spent /\ slips' = slips
         /\ \/ /\ stage' = "working" /\ resumed' = retry /\ ~OverBudget(spent')
               /\ attempt < MaxRetries /\ attempt' = attempt + 1
            \/ stage' = "idle" /\ UNCHANGED <<attempt, resumed>>
<1>1. /\ spent' = spent + ended.cost
      /\ file' = IF ended.cost > 0 THEN Written(file, "spent", spent', failing) ELSE file
      /\ slips' = slips + Cardinality(failing)
      /\ failing # {} => ended.cost > 0
  BY DEF Account
<1>2. /\ file \in [session : Known, spent : Nat] /\ ended.cost \in Nat
      /\ spent \in Nat /\ slips \in Nat
  BY Constants DEF TypeInv
<1>3. spent' \in Nat BY <1>1, <1>2
<1>4. /\ failing = {} \/ failing = {"spent"}
      /\ failing = {} => slips' = slips
      /\ failing = {"spent"} => slips' = slips + 1
  <2>1. failing \subseteq {"session", "spent"} /\ (failing = {} \/ failing = {"spent"}) OBVIOUS
  <2>2. /\ failing = {} => Cardinality(failing) = 0
        /\ failing = {"spent"} => Cardinality(failing) = 1
    BY <2>1, FailingCounts
  <2> QED BY <1>1, <1>2, <2>1, <2>2
<1>5. \/ MayRetry(attempt, spent') /\ Again
      \/ stage' = "idle" /\ UNCHANGED <<attempt, resumed>>
  BY <1>1 DEF Account
<1>6. \/ /\ stage' = "working" /\ resumed' = retry /\ ~OverBudget(spent')
         /\ attempt < MaxRetries /\ attempt' = attempt + 1
      \/ stage' = "idle" /\ UNCHANGED <<attempt, resumed>>
  BY <1>5 DEF MayRetry, Again, Run
<1>7. CASE ended.cost > 0
  <2>1. /\ file' \in [session : Known, spent : Nat] /\ file'.session = file.session
        /\ file'.spent = IF "spent" \notin failing THEN spent' ELSE file.spent
    BY <1>1, <1>2, <1>3, <1>7 DEF Written, Merge
  <2> QED BY <1>1, <1>3, <1>4, <1>6, <2>1
<1>8. CASE ended.cost = 0
  <2>1. ~(ended.cost > 0) BY <1>8
  <2>2. file' = file /\ failing = {} BY <1>1, <2>1
  <2>3. slips' = slips BY <1>4, <2>2
  <2> QED BY <1>1, <1>2, <1>3, <1>6, <1>8, <2>2, <2>3
<1> QED BY <1>2, <1>7, <1>8

LEMMA TypeStep == TypeInv /\ [Next]_vars => TypeInv'
<1> SUFFICES ASSUME TypeInv, [Next]_vars PROVE TypeInv' OBVIOUS
<1>1. CASE UNCHANGED vars BY <1>1 DEF TypeInv, Known, vars, process, past
<1>2. ASSUME NEW m \in {"resume", "fresh"}, NEW seed \in BOOLEAN, NEW reset \in BOOLEAN,
             NEW failing \in SUBSET {"session", "spent"}, Start(m, seed, reset, failing)
      PROVE  TypeInv'
  <2>1. /\ holds' \in Seq(SUBSET Nat) /\ Known \subseteq Known'
        /\ \A s \in DOMAIN holds' : holds'[s] = {} \/ (s \in DOMAIN holds /\ holds'[s] = holds[s])
        /\ sid' \in Known' /\ file' \in [session : Known', spent : Nat] /\ file'.spent = spent'
    BY <1>2, Started
  <2>2. /\ stage' = "idle" /\ mode' = m /\ faults' = faults + Cardinality(failing)
        /\ paid' = IF reset THEN 0 ELSE paid
        /\ slips' = IF reset THEN 0 ELSE slips
        /\ unsaved' \in BOOLEAN
        /\ UNCHANGED <<directive, attempt, retry, resumed, ended, heard, silent, lost>>
    BY <1>2 DEF Start, Failing
  <2>3. faults' \in Nat /\ paid' \in Nat /\ slips' \in Nat
    <3>1. failing \subseteq {"session", "spent"} /\ faults \in Nat /\ paid \in Nat /\ slips \in Nat
      BY DEF TypeInv
    <3>2. Cardinality(failing) \in Nat BY <3>1, FailingCounts
    <3> QED BY <2>2, <3>1, <3>2
  <2>4. /\ retry \in Known' /\ resumed \in Known'
        /\ ended \in [kind : {"ok", "transient", "permanent"}, session : Known', cost : 0..MaxCost]
    BY <2>1 DEF TypeInv
  <2>5. \A s \in DOMAIN holds' : holds'[s] \subseteq 1..directive
    BY <2>1 DEF TypeInv
  <2>6. spent' \in Nat BY <2>1
  <2> QED BY <2>1, <2>2, <2>3, <2>4, <2>5, <2>6 DEF TypeInv
<1>3. CASE Claim
  <2>1. /\ stage' = "working" /\ directive' = directive + 1 /\ attempt' = 0 /\ retry' = None
        /\ resumed' = FirstResumes /\ directive < MaxDirectives
        /\ UNCHANGED <<file, mode, sid, spent, ended, holds, past, faults>>
    BY <1>3 DEF Claim, Run
  <2>2. directive \in 0..MaxDirectives /\ sid \in Known /\ MaxDirectives \in Nat /\ MaxRetries \in Nat
    BY Constants DEF TypeInv
  <2>3. directive' \in 1..MaxDirectives /\ 1..directive \subseteq 1..directive' /\ attempt' \in 0..MaxRetries
    BY <2>1, <2>2
  <2>4. resumed' \in Known /\ retry' \in Known BY <2>1, <2>2 DEF FirstResumes, Known
  <2>5. file.spent <= spent BY <1>3 DEF TypeInv, Claim
  <2>6. (\A s \in DOMAIN holds : holds[s] \subseteq 1..directive') /\ heard \subseteq 1..directive'
    BY <2>3 DEF TypeInv
  <2> QED BY <2>1, <2>2, <2>3, <2>4, <2>5, <2>6 DEF TypeInv, Known, past
<1>4. ASSUME NEW kind \in {"ok", "transient", "permanent"}, NEW told \in {None, resumed, Fresh},
             NEW cost \in 0..MaxCost, End(kind, told, cost)
      PROVE  TypeInv'
  <2>1. /\ holds' \in Seq(SUBSET Nat) /\ Known \subseteq Known' /\ ended'.session \in Known'
        /\ \A s \in DOMAIN holds' : holds'[s] \subseteq 1..directive
        /\ ended' = [kind |-> kind, session |-> IF told = None THEN Passed ELSE told, cost |-> cost]
    BY <1>4, Ended
  <2>2. /\ stage = "working" /\ stage' = "told" /\ paid' = paid + cost
        /\ silent' = IF attempt = 0 THEN told = None ELSE silent
        /\ UNCHANGED <<file, mode, sid, spent, directive, attempt, retry, resumed,
                       heard, unsaved, lost, slips, faults>>
    BY <1>4 DEF End
  <2>3. ended' \in [kind : {"ok", "transient", "permanent"}, session : Known', cost : 0..MaxCost]
    BY <2>1
  <2>4. paid' \in Nat /\ silent' \in BOOLEAN
    <3>1. paid \in Nat /\ cost \in Nat BY Constants DEF TypeInv
    <3>2. paid' \in Nat BY <2>2, <3>1
    <3>3. silent \in BOOLEAN BY DEF TypeInv
    <3>4. silent' \in BOOLEAN BY <2>2, <3>3, Zenon
    <3> QED BY <3>2, <3>4
  <2>5. /\ file \in [session : Known', spent : Nat]
        /\ sid \in Known' /\ retry \in Known' /\ resumed \in Known'
    BY <2>1 DEF TypeInv
  <2>6. directive \in 1..MaxDirectives /\ file.spent <= spent BY <2>2 DEF TypeInv
  <2> QED BY <2>1, <2>2, <2>3, <2>4, <2>5, <2>6 DEF TypeInv
<1>5. ASSUME NEW failing \in SUBSET {"session"}, Keep(failing) PROVE TypeInv'
  <2>1. /\ file' \in [session : Known, spent : Nat] /\ file'.spent = file.spent
        /\ sid' = IF ended.session = None THEN sid ELSE ended.session
        /\ retry' = IF ended.session = None THEN retry ELSE ended.session
        /\ unsaved' \in BOOLEAN
    BY <1>5, KeptSession
  <2>2. /\ stage = "told" /\ stage' = "heard" /\ faults' = faults + Cardinality(failing)
        /\ heard' = IF mode = "resume" THEN heard \cup (HeldBy(ended.session) \cap {directive}) ELSE heard
        /\ UNCHANGED <<mode, spent, directive, attempt, resumed, ended, holds, silent, lost, paid, slips>>
    BY <1>5 DEF Keep, Failing
  <2>3. directive \in 1..MaxDirectives /\ file.spent <= spent BY <2>2 DEF TypeInv
  <2>4. heard' \subseteq 1..directive
    <3>1. heard \subseteq 1..directive BY DEF TypeInv
    <3>2. directive \in 1..directive BY <2>3, Constants
    <3> QED BY <2>2, <3>1, <3>2
  <2>5. faults' \in Nat
    <3>1. failing \subseteq {"session", "spent"} /\ faults \in Nat BY DEF TypeInv
    <3>2. Cardinality(failing) \in Nat BY <3>1, FailingCounts
    <3> QED BY <2>2, <3>1, <3>2
  <2>6. sid' \in Known /\ retry' \in Known BY <2>1 DEF TypeInv
  <2>7. Known' = Known BY <2>2 DEF Known
  <2> QED BY <2>1, <2>2, <2>3, <2>4, <2>5, <2>6, <2>7 DEF TypeInv
<1>6. ASSUME NEW failing \in SUBSET {"spent"}, Account(failing) PROVE TypeInv'
  <2>1. /\ file' \in [session : Known, spent : Nat]
        /\ spent' = spent + ended.cost /\ spent' \in Nat
        /\ \/ file'.spent = spent' /\ slips' = slips
           \/ file'.spent = file.spent /\ slips' = slips + 1
           \/ ended.cost = 0 /\ file'.spent = file.spent /\ slips' = slips
        /\ \/ /\ stage' = "working" /\ resumed' = retry /\ ~OverBudget(spent')
              /\ attempt < MaxRetries /\ attempt' = attempt + 1
           \/ stage' = "idle" /\ UNCHANGED <<attempt, resumed>>
    BY <1>6, Accounted
  <2>2. /\ stage = "heard" /\ faults' = faults + Cardinality(failing)
        /\ UNCHANGED <<mode, sid, directive, retry, ended, holds, heard, silent, unsaved, lost, paid>>
    BY <1>6 DEF Account, Failing
  <2>3. directive \in 1..MaxDirectives /\ file.spent <= spent BY <2>2 DEF TypeInv
  <2>4. file'.spent <= spent' /\ slips' \in Nat BY <2>1, <2>3, Constants DEF TypeInv
  <2>5. faults' \in Nat
    <3>1. failing \subseteq {"session", "spent"} /\ faults \in Nat BY DEF TypeInv
    <3>2. Cardinality(failing) \in Nat BY <3>1, FailingCounts
    <3> QED BY <2>2, <3>1, <3>2
  <2>6. attempt' \in 0..MaxRetries /\ resumed' \in Known BY <2>1, Constants DEF TypeInv
  <2>7. Known' = Known BY <2>2 DEF Known
  <2>8. stage' \in {"working", "idle"} BY <2>1
  <2> QED BY <2>1, <2>2, <2>3, <2>4, <2>5, <2>6, <2>7, <2>8 DEF TypeInv
<1>7. CASE Kill
  <2>1. /\ stage' = "down" /\ mode' = "resume" /\ sid' = None /\ spent' = 0
        /\ attempt' = 0 /\ retry' = None /\ resumed' = None /\ ended' = NoEnd
        /\ lost' = (lost \/ unsaved) /\ silent' = FALSE /\ unsaved' = FALSE
        /\ slips' = IF stage \in {"told", "heard"} /\ ended.cost > 0 THEN slips + 1 ELSE slips
        /\ faults' = faults + 1
        /\ UNCHANGED <<file, directive, holds, heard, paid>>
    BY <1>7 DEF Kill
  <2>2. NoEnd \in [kind : {"ok", "transient", "permanent"}, session : Known, cost : 0..MaxCost]
    BY Constants DEF NoEnd, Known
  <2>3. slips' \in Nat /\ faults' \in Nat /\ attempt' \in 0..MaxRetries
    BY <2>1, Constants DEF TypeInv
  <2>4. Known' = Known /\ None \in Known BY <2>1 DEF Known
  <2>5. lost' \in BOOLEAN BY <2>1 DEF TypeInv
  <2> QED BY <2>1, <2>2, <2>3, <2>4, <2>5 DEF TypeInv
<1> QED BY <1>1, <1>2, <1>3, <1>4, <1>5, <1>6, <1>7 DEF Next, Step, Ends

-----------------------------------------------------------------------------
(* The budget. *)

LEMMA CostOfSlips ==
  ASSUME NEW n \in Nat
  PROVE  /\ MaxCost * n \in Nat
         /\ MaxCost * (1 + n) = MaxCost * n + MaxCost
         /\ MaxCost * (n + 1) = MaxCost * n + MaxCost
         /\ MaxCost * (1 + (n + 1)) = MaxCost * n + MaxCost + MaxCost
         /\ MaxCost * 0 = 0 /\ MaxCost * (1 + 0) = MaxCost
  BY Constants

LEMMA MoneyStep == TypeInv /\ MoneyInv /\ [Next]_vars => MoneyInv'
<1> SUFFICES ASSUME TypeInv, MoneyInv, [Next]_vars PROVE MoneyInv' OBVIOUS
<1>0. /\ paid \in Nat /\ slips \in Nat /\ spent \in Nat /\ file.spent \in Nat
      /\ ended.cost \in Nat /\ ended.cost <= MaxCost
      /\ Budget \in Nat /\ MaxCost \in Nat
      /\ stage # "down" => file.spent <= spent
  BY Constants DEF TypeInv
<1> PICK K \in Nat : K = MaxCost * slips BY <1>0, CostOfSlips
<1>K. /\ MaxCost * (1 + slips) = K + MaxCost
      /\ MaxCost * (slips + 1) = K + MaxCost
      /\ MaxCost * (1 + (slips + 1)) = K + MaxCost + MaxCost
  BY <1>0, CostOfSlips
<1>I. /\ paid <= file.spent + K + Pending
      /\ stage = "working" /\ Budget > 0 => spent < Budget
      /\ Budget > 0 => paid < Budget + (K + MaxCost)
  BY <1>0, <1>K DEF MoneyInv, BudgetHolds, OverBudget
<1>1. CASE UNCHANGED vars
  BY <1>1 DEF MoneyInv, BudgetHolds, Pending, OverBudget, vars, process, past
<1>2. ASSUME NEW m \in {"resume", "fresh"}, NEW seed \in BOOLEAN, NEW reset \in BOOLEAN,
             NEW failing \in SUBSET {"session", "spent"}, Start(m, seed, reset, failing)
      PROVE  MoneyInv'
  <2>1. file'.spent \in {0, file.spent} /\ (~reset => file'.spent = file.spent) BY <1>2, Started
  <2>2. /\ stage = "down" /\ stage' = "idle"
        /\ paid' = IF reset THEN 0 ELSE paid
        /\ slips' = IF reset THEN 0 ELSE slips
    BY <1>2 DEF Start
  <2>3. Pending = 0 /\ Pending' = 0 BY <2>2 DEF Pending
  <2>4. CASE reset
    <3>1. MaxCost * slips' = 0 /\ MaxCost * (1 + slips') = MaxCost 
      <4>1. slips' = 0 BY <2>2, <2>4
      <4>2. MaxCost * 0 = 0 /\ MaxCost * (1 + 0) = MaxCost BY <1>0, CostOfSlips
      <4> QED BY <4>1, <4>2
    <3>2. paid' = 0 /\ file'.spent \in Nat BY <1>0, <2>1, <2>2, <2>4
    <3> QED BY <1>0, <2>2, <2>3, <3>1, <3>2 DEF MoneyInv, BudgetHolds
  <2>5. CASE ~reset
    BY <1>0, <1>I, <1>K, <2>1, <2>2, <2>3, <2>5 DEF MoneyInv, BudgetHolds
  <2> QED BY <2>4, <2>5
<1>3. CASE Claim
  <2>1. stage = "idle" /\ stage' = "working" /\ ~OverBudget(spent) /\ UNCHANGED <<file, spent, paid, slips>>
    BY <1>3 DEF Claim, Run, past
  <2>2. Pending = 0 /\ Pending' = 0 BY <2>1 DEF Pending
  <2> QED BY <1>0, <1>I, <1>K, <2>1, <2>2 DEF MoneyInv, BudgetHolds, OverBudget
<1>4. ASSUME NEW kind \in {"ok", "transient", "permanent"}, NEW told \in {None, resumed, Fresh},
             NEW cost \in 0..MaxCost, End(kind, told, cost)
      PROVE  MoneyInv'
  <2>1. /\ stage = "working" /\ stage' = "told" /\ paid' = paid + cost /\ ended'.cost = cost
        /\ UNCHANGED <<file, spent, slips>>
    BY <1>4 DEF End
  <2>2. Pending = 0 /\ Pending' = cost BY <2>1 DEF Pending
  <2>3. cost \in Nat /\ cost <= MaxCost BY <1>0
  <2>4. paid' <= file'.spent + K + Pending' BY <1>0, <1>I, <2>1, <2>2, <2>3
  <2>5. Budget > 0 => paid' < Budget + (K + MaxCost) BY <1>0, <1>I, <2>1, <2>2, <2>3
  <2> QED BY <1>K, <2>1, <2>4, <2>5 DEF MoneyInv, BudgetHolds
<1>5. ASSUME NEW failing \in SUBSET {"session"}, Keep(failing) PROVE MoneyInv'
  <2>1. file'.spent = file.spent BY <1>5, KeptSession
  <2>2. stage = "told" /\ stage' = "heard" /\ UNCHANGED <<spent, ended, paid, slips>> BY <1>5 DEF Keep
  <2>3. Pending' = Pending BY <2>2 DEF Pending
  <2> QED BY <1>I, <1>K, <2>1, <2>2, <2>3 DEF MoneyInv, BudgetHolds
<1>6. ASSUME NEW failing \in SUBSET {"spent"}, Account(failing) PROVE MoneyInv'
  <2>1. /\ spent' = spent + ended.cost
        /\ \/ file'.spent = spent' /\ slips' = slips
           \/ file'.spent = file.spent /\ slips' = slips + 1
           \/ ended.cost = 0 /\ file'.spent = file.spent /\ slips' = slips
        /\ stage' = "idle" \/ (stage' = "working" /\ ~OverBudget(spent'))
    BY <1>6, Accounted
  <2>2. stage = "heard" /\ paid' = paid BY <1>6 DEF Account
  <2>3. Pending = ended.cost /\ Pending' = 0 BY <2>1, <2>2 DEF Pending
  <2>4. stage' = "working" => ~OverBudget(spent)' BY <2>1 DEF OverBudget
  <2>5. CASE slips' = slips
    <3>1. MaxCost * slips' = K /\ MaxCost * (1 + slips') = K + MaxCost BY <1>K, <2>5
    <3>2. paid' <= file'.spent + K + Pending' BY <1>0, <1>I, <2>1, <2>2, <2>3, <2>5
    <3> QED BY <1>I, <2>2, <2>4, <3>1, <3>2 DEF MoneyInv, BudgetHolds
  <2>6. CASE slips' = slips + 1
    <3>1. MaxCost * slips' = K + MaxCost /\ MaxCost * (1 + slips') = K + MaxCost + MaxCost
      BY <1>K, <2>6
    <3>2. file'.spent = file.spent BY <1>0, <2>1, <2>6
    <3>3. paid' <= file'.spent + (K + MaxCost) + Pending' BY <1>0, <1>I, <2>2, <2>3, <3>2
    <3>4. Budget > 0 => paid' < Budget + (K + MaxCost + MaxCost) BY <1>0, <1>I, <2>2
    <3> QED BY <2>4, <3>1, <3>3, <3>4 DEF MoneyInv, BudgetHolds
  <2> QED BY <2>1, <2>5, <2>6
<1>7. CASE Kill
  <2>1. /\ stage' = "down" /\ file' = file /\ paid' = paid
        /\ slips' = IF stage \in {"told", "heard"} /\ ended.cost > 0 THEN slips + 1 ELSE slips
    BY <1>7 DEF Kill
  <2>2. Pending' = 0 BY <2>1 DEF Pending
  <2>3. CASE stage \in {"told", "heard"} /\ ended.cost > 0
    <3>1. MaxCost * slips' = K + MaxCost /\ MaxCost * (1 + slips') = K + MaxCost + MaxCost
      BY <1>K, <2>1, <2>3
    <3>2. Pending = ended.cost BY <2>3 DEF Pending
    <3>3. paid' <= file'.spent + (K + MaxCost) + Pending' BY <1>0, <1>I, <2>1, <2>2, <3>2
    <3>4. Budget > 0 => paid' < Budget + (K + MaxCost + MaxCost) BY <1>0, <1>I, <2>1
    <3> QED BY <2>1, <3>1, <3>3, <3>4 DEF MoneyInv, BudgetHolds
  <2>4. CASE ~(stage \in {"told", "heard"} /\ ended.cost > 0)
    <3>1. Pending = 0 BY <1>0, <2>4 DEF Pending
    <3> QED BY <1>I, <1>K, <2>1, <2>2, <2>4, <3>1 DEF MoneyInv, BudgetHolds
  <2> QED BY <2>3, <2>4
<1> QED BY <1>1, <1>2, <1>3, <1>4, <1>5, <1>6, <1>7 DEF Next, Step, Ends

-----------------------------------------------------------------------------
(* The session. *)

LEMMA SessionStep == TypeInv /\ SessionInv /\ [Next]_vars => SessionInv'
<1> SUFFICES ASSUME TypeInv, SessionInv, [Next]_vars PROVE SessionInv' OBVIOUS
<1>0. /\ sid \in Known /\ retry \in Known /\ resumed \in Known /\ ended.session \in Known
      /\ file.session \in Known /\ mode \in {"resume", "fresh"} /\ attempt \in Nat
      /\ unsaved \in BOOLEAN /\ lost \in BOOLEAN
  BY Constants DEF TypeInv
<1>N. HeldBy(None) = {} /\ HeldBy(None)' = {} BY DEF HeldBy
<1>1. CASE UNCHANGED vars
  BY <1>1 DEF SessionInv, HeldBy, vars, process, past
<1>2. ASSUME NEW m \in {"resume", "fresh"}, NEW seed \in BOOLEAN, NEW reset \in BOOLEAN,
             NEW failing \in SUBSET {"session", "spent"}, Start(m, seed, reset, failing)
      PROVE  SessionInv'
  <2>1. /\ \A s \in Known : HeldBy(s) \subseteq HeldBy(s)'
        /\ m = "resume" =>
              \/ file'.session = file.session /\ sid' = file.session /\ unsaved' = FALSE
              \/ file.session = None /\ (unsaved' = FALSE => file'.session = sid')
        /\ m = "fresh" => file'.session = file.session /\ unsaved' = FALSE
    BY <1>2, Started
  <2>2. stage = "down" /\ stage' = "idle" /\ mode' = m /\ heard' = heard /\ lost' = lost
    BY <1>2 DEF Start
  <2>3. unsaved' \in BOOLEAN BY <1>2 DEF Start
  <2>4. ~lost => heard \subseteq HeldBy(file.session) BY <2>2 DEF SessionInv
  <2>5. CASE m = "fresh"
    <3>1. ~lost' => heard' \subseteq HeldBy(file.session)'
      BY <1>0, <2>1, <2>2, <2>4, <2>5 DEF HeldBy
    <3> QED BY <2>1, <2>2, <2>5, <3>1 DEF SessionInv
  <2>6. CASE m = "resume"
    <3>1. CASE file'.session = file.session /\ sid' = file.session /\ unsaved' = FALSE
      <4>1. ~lost' => heard' \subseteq HeldBy(file.session)' /\ heard' \subseteq HeldBy(sid)'
        BY <1>0, <2>1, <2>2, <2>4, <3>1 DEF HeldBy
      <4> QED BY <2>2, <2>6, <3>1, <4>1 DEF SessionInv
    <3>2. CASE file.session = None /\ (unsaved' = FALSE => file'.session = sid')
      <4>1. ~lost' => heard' = {} BY <1>N, <2>2, <2>4, <3>2
      <4> QED BY <2>2, <2>3, <2>6, <3>2, <4>1 DEF SessionInv
    <3> QED BY <2>1, <2>6, <3>1, <3>2
  <2> QED BY <2>5, <2>6
<1>3. CASE Claim
  <2>1. /\ stage = "idle" /\ stage' = "working" /\ attempt' = 0 /\ retry' = None
        /\ resumed' = FirstResumes
        /\ UNCHANGED <<file, mode, sid, holds, heard, unsaved, lost>>
    BY <1>3 DEF Claim, Run, past
  <2> QED BY <2>1 DEF SessionInv, HeldBy, FirstResumes
<1>4. ASSUME NEW kind \in {"ok", "transient", "permanent"}, NEW told \in {None, resumed, Fresh},
             NEW cost \in 0..MaxCost, End(kind, told, cost)
      PROVE  SessionInv'
  <2>1. /\ \A s \in Known : HeldBy(s) \subseteq HeldBy(s)'
        /\ ended'.session = IF told = None THEN Passed ELSE told
        /\ told # None => HeldBy(told)' = HeldBy(resumed) \cup {directive}
    BY <1>4, Ended
  <2>2. /\ stage = "working" /\ stage' = "told"
        /\ UNCHANGED <<file, mode, sid, attempt, retry, heard, unsaved, lost>>
    BY <1>4 DEF End
  <2>3. mode = "resume" => Passed = sid /\ resumed = sid
    <3>1. attempt = 0 \/ attempt > 0 BY <1>0
    <3> QED BY <2>2, <3>1 DEF SessionInv, Passed
  <2>4. mode = "resume" /\ ended'.session = None => sid = None BY <2>1, <2>3
  <2>5. HeldBy(file.session) \subseteq HeldBy(file.session)' /\ HeldBy(sid) \subseteq HeldBy(sid)'
    BY <1>0, <2>1, <2>2 DEF HeldBy
  <2>6. mode = "resume" /\ ~lost => heard \subseteq HeldBy(ended.session)'
    <3>1. mode = "resume" => HeldBy(sid) \subseteq HeldBy(ended.session)'
      <4>1. CASE told = None
        <5>1. mode = "resume" => HeldBy(ended.session)' = HeldBy(sid)'
          BY <2>1, <2>2, <2>3, <4>1 DEF HeldBy
        <5> QED BY <2>5, <5>1
      <4>2. CASE told # None
        <5>1. HeldBy(ended.session)' = HeldBy(told)' BY <2>1, <4>2 DEF HeldBy
        <5>2. HeldBy(told)' = HeldBy(resumed) \cup {directive} BY <2>1, <4>2
        <5>3. mode = "resume" => HeldBy(resumed) = HeldBy(sid) BY <2>3
        <5> QED BY <5>1, <5>2, <5>3
      <4> QED BY <4>1, <4>2
    <3>2. mode = "resume" /\ ~lost => heard \subseteq HeldBy(sid) BY <2>2 DEF SessionInv
    <3> QED BY <3>1, <3>2
  <2> QED BY <2>2, <2>4, <2>5, <2>6 DEF SessionInv
<1>5. ASSUME NEW failing \in SUBSET {"session"}, Keep(failing) PROVE SessionInv'
  <2>1. /\ sid' = IF ended.session = None THEN sid ELSE ended.session
        /\ retry' = IF ended.session = None THEN retry ELSE ended.session
        /\ mode = "fresh" => file'.session = file.session /\ (~unsaved => ~unsaved')
        /\ mode = "resume" =>
              \/ sid' = sid /\ file'.session = file.session /\ unsaved' = unsaved
              \/ unsaved' = TRUE /\ file'.session = file.session
              \/ unsaved' = FALSE /\ file'.session = sid'
    BY <1>5, KeptSession
  <2>2. /\ stage = "told" /\ stage' = "heard"
        /\ heard' = IF mode = "resume" THEN heard \cup (HeldBy(ended.session) \cap {directive}) ELSE heard
        /\ UNCHANGED <<mode, attempt, holds, lost>>
    BY <1>5 DEF Keep
  <2>3. CASE mode = "fresh"
    <3>1. ~unsaved /\ ~unsaved' /\ heard' = heard /\ file'.session = file.session
      BY <2>1, <2>2, <2>3 DEF SessionInv
    <3>2. HeldBy(file.session)' = HeldBy(file.session) BY <2>2, <3>1 DEF HeldBy
    <3> QED BY <2>2, <2>3, <3>1, <3>2 DEF SessionInv
  <2>4. CASE mode = "resume"
    <3>1. sid' = ended.session BY <2>1, <2>2, <2>4 DEF SessionInv
    <3>2. retry' = sid'
      <4>1. attempt = 0 \/ attempt > 0 BY <1>0
      <4> QED BY <2>1, <2>2, <2>4, <3>1, <4>1 DEF SessionInv
    <3>3. ~lost' => heard' \subseteq HeldBy(sid)'
      <4>1. ~lost => heard \subseteq HeldBy(ended.session) BY <2>2, <2>4 DEF SessionInv
      <4>2. HeldBy(sid)' = HeldBy(ended.session) BY <2>2, <3>1 DEF HeldBy
      <4> QED BY <2>2, <2>4, <4>1, <4>2
    <3>4. ~unsaved' => file'.session = sid' BY <2>1, <2>2, <2>4 DEF SessionInv
    <3>5. ~lost' /\ ~unsaved' => heard' \subseteq HeldBy(file.session)' BY <3>3, <3>4 DEF HeldBy
    <3> QED BY <2>2, <2>4, <3>2, <3>3, <3>4, <3>5 DEF SessionInv
  <2> QED BY <1>0, <2>3, <2>4
<1>6. ASSUME NEW failing \in SUBSET {"spent"}, Account(failing) PROVE SessionInv'
  <2>1. /\ file'.session = file.session
        /\ \/ stage' = "working" /\ resumed' = retry /\ attempt' = attempt + 1
           \/ stage' = "idle" /\ UNCHANGED <<attempt, resumed>>
    BY <1>6, Accounted
  <2>2. stage = "heard" /\ UNCHANGED <<mode, sid, retry, holds, heard, unsaved, lost>>
    BY <1>6 DEF Account
  <2>3. HeldBy(file.session)' = HeldBy(file.session) /\ HeldBy(sid)' = HeldBy(sid)
    BY <2>1, <2>2 DEF HeldBy
  <2>4. mode = "resume" => retry = sid BY <2>2 DEF SessionInv
  <2>5. stage' \in {"working", "told"} => attempt' # 0 BY <1>0, <2>1
  <2>6. stage' \notin {"down", "told", "heard"} BY <2>1
  <2>7. stage' = "working" => resumed' = retry BY <2>1
  <2> QED BY <2>1, <2>2, <2>3, <2>4, <2>5, <2>6, <2>7 DEF SessionInv
<1>7. CASE Kill
  <2>1. /\ stage' = "down" /\ unsaved' = FALSE /\ lost' = (lost \/ unsaved)
        /\ UNCHANGED <<file, holds, heard>>
    BY <1>7 DEF Kill
  <2>2. HeldBy(file.session)' = HeldBy(file.session) BY <2>1 DEF HeldBy
  <2> QED BY <2>1, <2>2 DEF SessionInv
<1> QED BY <1>1, <1>2, <1>3, <1>4, <1>5, <1>6, <1>7 DEF Next, Step, Ends

LEMMA FreshStep == TypeInv /\ SessionInv /\ FreshInv /\ [Next]_vars => FreshInv'
<1> SUFFICES ASSUME TypeInv, SessionInv, FreshInv, [Next]_vars PROVE FreshInv' OBVIOUS
<1>0. /\ sid \in Known /\ retry \in Known /\ resumed \in Known /\ ended.session \in Known
      /\ attempt \in Nat /\ silent \in BOOLEAN
  BY Constants DEF TypeInv
<1>1. CASE UNCHANGED vars
  BY <1>1 DEF FreshInv, Apart, HeldBy, vars, process, past
<1>2. ASSUME NEW m \in {"resume", "fresh"}, NEW seed \in BOOLEAN, NEW reset \in BOOLEAN,
             NEW failing \in SUBSET {"session", "spent"}, Start(m, seed, reset, failing)
      PROVE  FreshInv'
  <2>1. stage' = "idle" BY <1>2 DEF Start
  <2> QED BY <2>1 DEF FreshInv
<1>3. CASE Claim
  <2>1. stage' = "working" /\ attempt' = 0 /\ resumed' = FirstResumes /\ mode' = mode
    BY <1>3 DEF Claim, Run
  <2> QED BY <2>1 DEF FreshInv, FirstResumes
<1>4. ASSUME NEW kind \in {"ok", "transient", "permanent"}, NEW told \in {None, resumed, Fresh},
             NEW cost \in 0..MaxCost, End(kind, told, cost)
      PROVE  FreshInv'
  <2>1. /\ ended'.session = IF told = None THEN Passed ELSE told
        /\ told # None => HeldBy(told)' = HeldBy(resumed) \cup {directive}
        /\ told = None => holds' = holds
        /\ \A s \in Known : s = told \/ HeldBy(s)' = HeldBy(s)
    BY <1>4, Ended
  <2>2. /\ stage = "working" /\ stage' = "told"
        /\ silent' = IF attempt = 0 THEN told = None ELSE silent
        /\ UNCHANGED <<mode, directive, attempt, retry>>
    BY <1>4 DEF End
  <2> SUFFICES ASSUME mode = "fresh", ~silent'
               PROVE  (attempt > 0 => Apart(retry)') /\ Apart(ended.session)'
    BY <2>2 DEF FreshInv
  <2>3. CASE attempt = 0
    <3>1. told # None BY <2>2, <2>3
    <3>2. resumed = None BY <2>2, <2>3 DEF FreshInv
    <3>3. HeldBy(ended.session)' = {directive} BY <2>1, <3>1, <3>2 DEF HeldBy
    <3>4. Apart(ended.session)' BY <2>2, <3>3 DEF Apart
    <3> QED BY <2>3, <3>4
  <2>4. CASE attempt > 0
    <3>1. attempt # 0 BY <1>0, <2>4
    <3>2. ~silent BY <2>2, <3>1
    <3>3. resumed = retry /\ HeldBy(retry) \subseteq {directive} BY <2>2, <2>4, <3>2 DEF FreshInv, Apart
    <3>4. Passed = retry BY <2>4 DEF Passed
    <3>5. HeldBy(retry)' \subseteq {directive}
      <4>1. CASE retry = told /\ told # None
        <5>1. HeldBy(retry)' = HeldBy(told)' BY <2>2, <4>1 DEF HeldBy
        <5> QED BY <2>1, <3>3, <4>1, <5>1
      <4>2. CASE retry # told
        <5>1. HeldBy(retry)' = HeldBy(retry) BY <1>0, <2>1, <2>2, <4>2 DEF HeldBy
        <5> QED BY <3>3, <5>1
      <4>3. CASE told = None
        <5>1. HeldBy(retry)' = HeldBy(retry) BY <2>1, <2>2, <4>3 DEF HeldBy
        <5> QED BY <3>3, <5>1
      <4> QED BY <4>1, <4>2, <4>3
    <3>6. HeldBy(ended.session)' \subseteq {directive}
      <4>1. CASE told = None
        <5>1. ended'.session = retry BY <2>1, <3>4, <4>1
        <5>2. HeldBy(ended.session)' = HeldBy(retry)' BY <2>2, <5>1 DEF HeldBy
        <5> QED BY <3>5, <5>2
      <4>2. CASE told # None
        <5>1. HeldBy(ended.session)' = HeldBy(told)' BY <2>1, <4>2 DEF HeldBy
        <5>2. HeldBy(told)' = HeldBy(retry) \cup {directive} BY <2>1, <3>3, <4>2
        <5> QED BY <3>3, <5>1, <5>2
      <4> QED BY <4>1, <4>2
    <3> QED BY <2>2, <3>5, <3>6 DEF Apart
  <2> QED BY <1>0, <2>3, <2>4
<1>5. ASSUME NEW failing \in SUBSET {"session"}, Keep(failing) PROVE FreshInv'
  <2>1. retry' = IF ended.session = None THEN retry ELSE ended.session
    BY <1>5, KeptSession
  <2>2. stage = "told" /\ stage' = "heard" /\ UNCHANGED <<mode, directive, attempt, holds, silent>>
    BY <1>5 DEF Keep
  <2> SUFFICES ASSUME mode = "fresh", ~silent PROVE Apart(retry)'
    BY <2>2 DEF FreshInv
  <2>3. Apart(ended.session) /\ (attempt > 0 => Apart(retry)) BY <2>2 DEF FreshInv
  <2>4. attempt = 0 => Apart(retry) BY <2>2 DEF SessionInv, Apart, HeldBy
  <2>5. Apart(retry) BY <1>0, <2>3, <2>4
  <2>6. CASE ended.session = None BY <2>1, <2>2, <2>5, <2>6 DEF Apart, HeldBy
  <2>7. CASE ended.session # None BY <2>1, <2>2, <2>3, <2>7 DEF Apart, HeldBy
  <2> QED BY <2>6, <2>7
<1>6. ASSUME NEW failing \in SUBSET {"spent"}, Account(failing) PROVE FreshInv'
  <2>1. \/ stage' = "working" /\ resumed' = retry /\ attempt' = attempt + 1
        \/ stage' = "idle"
    BY <1>6, Accounted
  <2>2. stage = "heard" /\ UNCHANGED <<mode, directive, retry, holds, silent>>
    BY <1>6 DEF Account
  <2>3. mode = "fresh" /\ ~silent => Apart(retry)' BY <2>2 DEF FreshInv, Apart, HeldBy
  <2>4. attempt' = 0 => stage' = "idle" BY <1>0, <2>1
  <2>5. stage' \in {"working", "idle"} /\ (stage' = "working" => resumed' = retry) BY <2>1
  <2> QED BY <2>2, <2>3, <2>4, <2>5 DEF FreshInv
<1>7. CASE Kill
  <2>1. mode' = "resume" BY <1>7 DEF Kill
  <2> QED BY <2>1 DEF FreshInv
<1> QED BY <1>1, <1>2, <1>3, <1>4, <1>5, <1>6, <1>7 DEF Next, Step, Ends

-----------------------------------------------------------------------------
(* The state file, the process and what it was told of are always in step  *)
(* as PollerInv says (main, run_with_retry, _write_state).                 *)
THEOREM PollerInvariance == Spec => []PollerInv
<1>1. Init => PollerInv
  <2> SUFFICES ASSUME Init PROVE PollerInv OBVIOUS
  <2>1. TypeInv BY TypesInitially
  <2>2. MoneyInv
    <3>1. file.spent = 0 /\ paid = 0 /\ slips = 0 /\ stage = "down" BY DEF Init
    <3>2. Pending = 0 BY <3>1 DEF Pending
    <3>3. MaxCost * 0 = 0 /\ MaxCost * (1 + 0) = MaxCost BY CostOfSlips
    <3> QED BY <3>1, <3>2, <3>3, Constants DEF MoneyInv, BudgetHolds
  <2>3. SessionInv BY DEF Init, SessionInv
  <2>4. FreshInv BY DEF Init, FreshInv
  <2> QED BY <2>1, <2>2, <2>3, <2>4 DEF PollerInv
<1>2. PollerInv /\ [Next]_vars => PollerInv'
  BY TypeStep, MoneyStep, SessionStep, FreshStep DEF PollerInv
<1> QED BY <1>1, <1>2, PTL DEF Spec

(* Every variable keeps its type, no directive is retried more than        *)
(* MaxRetries times, and the file is never ahead of the process.           *)
THEOREM PollerTypes == Spec => []PollerTypeOK
<1>1. TypeInv => PollerTypeOK
  <2> SUFFICES ASSUME TypeInv PROVE PollerTypeOK OBVIOUS
  <2>1. /\ file.session \in Known /\ file.spent \in Nat
        /\ sid \in Known /\ retry \in Known /\ ended.session \in Known /\ resumed \in Known
        /\ ended.cost \in 0..MaxCost
    BY DEF TypeInv
  <2> QED BY <2>1 DEF TypeInv, PollerTypeOK, Known
<1> QED BY <1>1, PollerInvariance, PTL DEF PollerInv

(* Whatever the budget, what executors told they cost overruns it by less  *)
(* than one attempt, and by one more for each total that was not saved     *)
(* (over_budget, save_usage_totals).                                       *)
THEOREM BudgetKept == Spec => []BudgetHolds
<1>1. PollerInv => BudgetHolds BY DEF PollerInv, MoneyInv
<1> QED BY <1>1, PollerInvariance, PTL

(* In resume mode every attempt is given a session that holds all that was *)
(* heard of, unless a session that could not be saved was lost in a kill   *)
(* (retry_sid, save_session_id, load_session_id).                          *)
THEOREM SessionRemembered == Spec => []Remembers
<1>1. PollerInv => Remembers BY DEF PollerInv, SessionInv, Remembers
<1> QED BY <1>1, PollerInvariance, PTL

(* In fresh mode no attempt is given a session of another directive, once  *)
(* the first attempt at the directive has told one (build_claude_cmd).     *)
THEOREM FreshApart == Spec => []FreshStaysApart
<1>1. PollerInv => FreshStaysApart
  <2> SUFFICES ASSUME PollerInv, mode = "fresh", stage = "working", attempt = 0 \/ ~silent
               PROVE  HeldBy(resumed) \subseteq {directive}
    BY DEF FreshStaysApart
  <2>1. CASE attempt = 0 BY <2>1 DEF PollerInv, FreshInv, HeldBy
  <2>2. CASE attempt # 0
    <3>1. attempt > 0 BY <2>2, Constants DEF PollerInv, TypeInv
    <3> QED BY <2>2, <3>1 DEF PollerInv, FreshInv, Apart
  <2> QED BY <2>1, <2>2
<1> QED BY <1>1, PollerInvariance, PTL

=============================================================================
