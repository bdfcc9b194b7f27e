-------------------------- MODULE Directives_proofs --------------------------
(***************************************************************************)
(* Machine-checked theorems about Directives, for any hosts, pollers,      *)
(* threads, priorities, capacity and page limit, and without bound on the  *)
(* directives sent.                                                        *)
(***************************************************************************)
EXTENDS Directives, FiniteSetTheorems, TLAPS

(* The inductive invariant.  Type correctness needs that a worker wants    *)
(* something while it claims; single starts need that a grant, like a      *)
(* start, takes its directive out of pending for good, and that no two     *)
(* workers hold a grant of the same directive.                             *)

Wants == \A w \in Workers : pc[w] # "polling" => wanted[w] \in Ids

Begun == {starts[i] : i \in DOMAIN starts}

StartsAreTaken == Begun \cap Pending = {}

GrantsAreTaken ==
  \A w \in Workers : pc[w] = "granted" => wanted[w] \notin Pending \cup Begun

GrantedOnce ==
  \A v, w \in Workers :
    v # w /\ pc[v] = "granted" /\ pc[w] = "granted" => wanted[v] # wanted[w]

TurnsHaveBegun == \A w \in Workers : turns[w] \subseteq Begun

OnceInv ==
  StartedOnce /\ StartsAreTaken /\ GrantsAreTaken /\ GrantedOnce /\ TurnsHaveBegun

------------------------------------------------------------------------------
(* Type correctness. *)

(* A change of status changes nothing else. *)
LEMMA StatusChange ==
  ASSUME directives \in Seq(Rows),
         NEW d \in Ids, NEW s \in Statuses, SetStatus(d, s)
  PROVE  /\ directives' \in Seq(Rows)
         /\ Len(directives') = Len(directives)
         /\ Ids' = Ids
         /\ \A e \in Ids : directives'[e].thread = directives[e].thread
         /\ \A e \in Ids \ {d} : directives'[e] = directives[e]
         /\ directives'[d].status = s
         /\ Pending' = IF s = "pending" THEN Pending \cup {d} ELSE Pending \ {d}
  <1>1. directives[d] \in Rows
    BY DEF Ids
  <1>2. directives' = [directives EXCEPT ![d] = [directives[d] EXCEPT !.status = s]]
    BY DEF SetStatus
  <1>3. [directives[d] EXCEPT !.status = s] \in Rows
    BY <1>1 DEF Rows
  <1>4. directives' \in Seq(Rows) /\ Len(directives') = Len(directives)
    BY <1>2, <1>3 DEF Ids
  <1>5. Ids' = Ids
    BY <1>4 DEF Ids
  <1>6. \A e \in Ids \ {d} : directives'[e] = directives[e]
    BY <1>2, <1>4 DEF Ids
  <1>7. directives'[d] = [directives[d] EXCEPT !.status = s]
    BY <1>2 DEF Ids
  <1>8. directives'[d].status = s /\ directives'[d].thread = directives[d].thread
    BY <1>7, <1>1 DEF Rows
  <1>9. Pending' = {e \in Ids : directives'[e].status = "pending"}
    BY <1>5 DEF Pending
  <1>10. QED
    BY <1>4, <1>5, <1>6, <1>8, <1>9 DEF Pending

LEMMA Sent ==
  ASSUME directives \in Seq(Rows),
         SendDirective
  PROVE  /\ directives' \in Seq(Rows)
         /\ Ids \subseteq Ids'
         /\ \A e \in Ids : directives'[e] = directives[e]
         /\ Pending' \cap Ids = Pending
  <1>1. PICK t \in Threads, p \in Priorities :
          directives' = Append(directives, [thread |-> t, priority |-> p, status |-> "pending"])
    BY DEF SendDirective
  <1>2. [thread |-> t, priority |-> p, status |-> "pending"]
          \in Rows
    BY DEF Rows, Statuses
  <1>3. /\ directives' \in Seq(Rows)
        /\ Len(directives') = Len(directives) + 1
        /\ \A e \in Ids : directives'[e] = directives[e]
    BY <1>1, <1>2 DEF Ids
  <1>4. Ids \subseteq Ids'
    BY <1>3 DEF Ids
  <1>5. QED
    BY <1>3, <1>4 DEF Pending

LEMMA PageType == Page \subseteq Ids
  BY DEF Page, Pending

LEMMA InitType == Init => DirectivesTypeOK /\ Wants
  BY DEF Init, DirectivesTypeOK, Wants, Rows, Stages, Ids

(* What an action of the loop leaves alone, by what it changes. *)
LEMMA ServerType ==
  ASSUME DirectivesTypeOK, Wants,
         directives' \in Seq(Rows), Ids \subseteq Ids',
         lateClaims' \subseteq lateClaims, reports' \subseteq reports,
         stranded' \subseteq stranded \cup Ids,
         UNCHANGED <<inbox, wanted, lanes, starts>>,
         pc' \in [Workers -> Stages],
         \A w \in Workers : pc'[w] # "polling" => pc[w] # "polling"
  PROVE  DirectivesTypeOK' /\ Wants'
  <1>1. starts' \in Seq(Ids')
    BY DEF DirectivesTypeOK
  <1>2. reports' \subseteq [directive : Ids', outcome : Outcomes]
    BY DEF DirectivesTypeOK
  <1>3. inbox' \in [Workers -> SUBSET Ids'] /\ turns' \in [Workers -> SUBSET Ids']
        /\ reporting' \in [Workers -> SUBSET Ids'] /\ wanted' \in [Workers -> Ids' \cup {0}]
    BY DEF DirectivesTypeOK, lanes
  <1>4. \A w \in Workers : reporting'[w] \subseteq turns'[w]
    BY DEF DirectivesTypeOK, lanes
  <1>5. Wants'
    BY DEF Wants
  <1>6. QED
    BY <1>1, <1>2, <1>3, <1>4, <1>5 DEF DirectivesTypeOK

(* A step of one worker: its new stage q, inbox I, wish n, turns T and      *)
(* reports under way R.                                                    *)
Moves(w, q, I, n, T, R) ==
  /\ pc' = [pc EXCEPT ![w] = q]
  /\ inbox' = [inbox EXCEPT ![w] = I]
  /\ wanted' = [wanted EXCEPT ![w] = n]
  /\ turns' = [turns EXCEPT ![w] = T]
  /\ reporting' = [reporting EXCEPT ![w] = R]

Records ==
  /\ UNCHANGED directives
  /\ lateClaims' \subseteq lateClaims \cup Ids
  /\ reports' \subseteq [directive : Ids, outcome : Outcomes]
  /\ starts' \in Seq(Ids)
  /\ stranded' \subseteq Ids

LEMMA WorkerType ==
  ASSUME DirectivesTypeOK, Wants, NEW w \in Workers, Records,
         NEW q \in Stages, NEW I \in SUBSET Ids, NEW n \in Ids \cup {0},
         q # "polling" => n \in Ids,
         NEW T \in SUBSET Ids, NEW R \in SUBSET T, Moves(w, q, I, n, T, R)
  PROVE  DirectivesTypeOK' /\ Wants'
  <1>1. Ids' = Ids
    BY DEF Ids, Records
  <1>2. Wants'
    BY <1>1 DEF Wants, DirectivesTypeOK, Moves
  <1>3. \A v \in Workers : reporting'[v] \subseteq turns'[v]
    BY DEF DirectivesTypeOK, Moves
  <1>4. QED
    BY <1>1, <1>2, <1>3 DEF DirectivesTypeOK, Moves, Records

LEMMA WorkerState ==
  ASSUME DirectivesTypeOK, Wants, NEW w \in Workers
  PROVE  /\ pc[w] \in Stages /\ inbox[w] \in SUBSET Ids /\ wanted[w] \in Ids \cup {0}
         /\ pc[w] # "polling" => wanted[w] \in Ids
         /\ turns[w] \in SUBSET Ids /\ reporting[w] \in SUBSET turns[w]
  BY DEF DirectivesTypeOK, Wants

LEMMA ServerStepType ==
  ASSUME DirectivesTypeOK, Wants, Server
  PROVE  DirectivesTypeOK' /\ Wants'
  <1> DEFINE Quiet ==
        /\ lateClaims' \subseteq lateClaims /\ reports' \subseteq reports
        /\ stranded' \subseteq stranded \cup Ids
        /\ UNCHANGED <<inbox, wanted, lanes, starts>>
        /\ pc' \in [Workers -> Stages]
        /\ \A w \in Workers : pc'[w] # "polling" => pc[w] # "polling"
  <1>1. CASE SendDirective
    <2>1. directives' \in Seq(Rows) /\ Ids \subseteq Ids'
      BY <1>1, Sent DEF DirectivesTypeOK
    <2>2. Quiet
      BY <1>1 DEF SendDirective, loop, DirectivesTypeOK
    <2>3. QED
      BY <2>1, <2>2, ServerType
  <1>2. ASSUME NEW d \in lateClaims, LateClaim(d)
        PROVE  DirectivesTypeOK' /\ Wants'
    <2>1. d \in Ids
      BY DEF DirectivesTypeOK
    <2>2. directives' \in Seq(Rows) /\ Ids \subseteq Ids'
      BY <1>2, <2>1, StatusChange DEF LateClaim, Statuses, Ids, DirectivesTypeOK
    <2>3. Quiet
      BY <1>2, <2>1 DEF LateClaim, loop, DirectivesTypeOK
    <2>4. QED
      BY <2>2, <2>3, ServerType
  <1>3. ASSUME NEW r \in reports, ReportDirective(r)
        PROVE  DirectivesTypeOK' /\ Wants'
    <2>1. r.directive \in Ids /\ r.outcome \in Statuses
      BY DEF Statuses, Final, DirectivesTypeOK
    <2>2. directives' \in Seq(Rows) /\ Ids \subseteq Ids'
      BY <1>3, <2>1, StatusChange DEF ReportDirective, Ids, DirectivesTypeOK
    <2>3. Quiet
      BY <1>3 DEF ReportDirective, loop, DirectivesTypeOK
    <2>4. QED
      BY <2>2, <2>3, ServerType
  <1>4. ASSUME NEW d \in Ids, CancelDirective(d)
        PROVE  DirectivesTypeOK' /\ Wants'
    <2>1. directives' \in Seq(Rows) /\ Ids \subseteq Ids'
      BY <1>4, StatusChange DEF CancelDirective, Statuses, Final, DirectivesTypeOK
    <2>2. Quiet
      BY <1>4 DEF CancelDirective, loop, DirectivesTypeOK
    <2>3. QED
      BY <2>1, <2>2, ServerType
  <1>5. QED
    BY <1>1, <1>2, <1>3, <1>4 DEF Server

LEMMA LoopStepType ==
  ASSUME DirectivesTypeOK, Wants, NEW w \in Workers, Loop(w)
  PROVE  DirectivesTypeOK' /\ Wants'
  <1>0. "polling" \in Stages /\ "claiming" \in Stages
    BY DEF Stages
  <1>1. CASE Poll(w)
    <2>1. Moves(w, "polling", Page, wanted[w], turns[w], reporting[w])
      BY <1>1 DEF Poll, Moves, lanes, DirectivesTypeOK
    <2>2. Records
      BY <1>1 DEF Poll, Records, server, DirectivesTypeOK
    <2>3. Page \in SUBSET Ids /\ wanted[w] \in Ids \cup {0}
          /\ turns[w] \in SUBSET Ids /\ reporting[w] \in SUBSET turns[w]
      BY PageType, WorkerState
    <2>4. QED
      BY <1>0, <2>1, <2>2, <2>3, WorkerType
  <1>2. CASE PassOver(w)
    <2>1. Moves(w, "polling", {}, wanted[w], turns[w], reporting[w])
      BY <1>2 DEF PassOver, Looking, Moves, lanes, DirectivesTypeOK
    <2>2. Records
      BY <1>2 DEF PassOver, Records, server, DirectivesTypeOK
    <2>3. QED
      BY <1>0, <2>1, <2>2, WorkerState, WorkerType
  <1>3. CASE Pick(w)
    <2> DEFINE Rest(d) == IF w \in Pollers THEN {} ELSE {e \in inbox[w] : Before(d, e)}
    <2>1. PICK d \in Pickable(w) : Moves(w, "claiming", Rest(d), d, turns[w], reporting[w])
      BY <1>3 DEF Pick, Moves, lanes, DirectivesTypeOK
    <2>2. d \in Ids /\ Rest(d) \in SUBSET Ids
      BY WorkerState DEF Pickable
    <2>3. Records
      BY <1>3 DEF Pick, Records, server, DirectivesTypeOK
    <2> HIDE DEF Rest
    <2>4. QED
      BY <1>0, <2>1, <2>2, <2>3, WorkerState, WorkerType
  <1>4. CASE ClaimDirective(w)
    <2>1. wanted[w] \in Ids
      BY <1>4, WorkerState DEF ClaimDirective
    <2>2. directives' \in Seq(Rows) /\ Ids \subseteq Ids'
      BY <1>4, <2>1, StatusChange DEF ClaimDirective, Statuses, Ids, DirectivesTypeOK
    <2>3. pc' \in [Workers -> Stages]
          /\ \A v \in Workers : pc'[v] # "polling" => pc[v] # "polling"
      BY <1>4 DEF ClaimDirective, Stages, DirectivesTypeOK
    <2>4. lateClaims' \subseteq lateClaims /\ reports' \subseteq reports
          /\ stranded' \subseteq stranded \cup Ids /\ UNCHANGED <<inbox, wanted, lanes, starts>>
      BY <1>4 DEF ClaimDirective
    <2>5. QED
      BY <2>2, <2>3, <2>4, ServerType
  <1>5. CASE Start(w)
    <2>1. wanted[w] \in Ids
      BY <1>5, WorkerState DEF Start
    <2>2. Moves(w, "polling", inbox[w], 0, turns[w] \cup {wanted[w]}, reporting[w])
      BY <1>5 DEF Start, Return, Moves, DirectivesTypeOK
    <2>3. Records
      BY <1>5, <2>1 DEF Start, Records, server, DirectivesTypeOK
    <2>4. turns[w] \cup {wanted[w]} \in SUBSET Ids
          /\ reporting[w] \in SUBSET (turns[w] \cup {wanted[w]})
      BY <2>1, WorkerState
    <2>5. inbox[w] \in SUBSET Ids /\ 0 \in Ids \cup {0}
      BY WorkerState
    <2>6. QED
      BY <1>0, <2>2, <2>3, <2>4, <2>5, WorkerType
  <1>6. CASE GiveUp(w)
    <2>1. Moves(w, "polling", inbox[w], 0, turns[w], reporting[w])
      BY <1>6 DEF GiveUp, Return, Moves, lanes, DirectivesTypeOK
    <2>2. Records
      BY <1>6 DEF GiveUp, Records, server, DirectivesTypeOK
    <2>3. QED
      BY <1>0, <2>1, <2>2, WorkerState, WorkerType
  <1>7. CASE ClaimTimesOut(w)
    <2>1. wanted[w] \in Ids
      BY <1>7, WorkerState DEF ClaimTimesOut
    <2>2. Moves(w, "polling", inbox[w], 0, turns[w], reporting[w])
      BY <1>7 DEF ClaimTimesOut, Return, Moves, lanes, DirectivesTypeOK
    <2>3. Records
      BY <1>7, <2>1 DEF ClaimTimesOut, ForgetClaim, Granted, Records, DirectivesTypeOK
    <2>4. QED
      BY <1>0, <2>2, <2>3, WorkerState, WorkerType
  <1>8. QED
    BY <1>1, <1>2, <1>3, <1>4, <1>5, <1>6, <1>7 DEF Loop

LEMMA TurnStepType ==
  ASSUME DirectivesTypeOK, Wants, NEW w \in Workers, Finish(w) \/ Free(w) \/ Crash(w)
  PROVE  DirectivesTypeOK' /\ Wants'
  <1>1. ASSUME NEW d \in turns[w], NEW o \in Outcomes, SendReport(w, d, o)
        PROVE  DirectivesTypeOK' /\ Wants'
    <2>1. [directive |-> d, outcome |-> o] \in [directive : Ids, outcome : Outcomes]
      BY WorkerState
    <2>2. Records
      BY <1>1, <2>1 DEF SendReport, Records, DirectivesTypeOK
    <2>3. Moves(w, pc[w], inbox[w], wanted[w], turns[w], reporting[w] \cup {d})
      BY <1>1 DEF SendReport, loop, Moves, DirectivesTypeOK
    <2>4. reporting[w] \cup {d} \in SUBSET turns[w]
      BY WorkerState
    <2>5. pc[w] \in Stages /\ (pc[w] # "polling" => wanted[w] \in Ids)
          /\ inbox[w] \in SUBSET Ids /\ wanted[w] \in Ids \cup {0} /\ turns[w] \in SUBSET Ids
      BY WorkerState
    <2>6. QED
      BY <2>2, <2>3, <2>4, <2>5, WorkerType
  <1>2. ASSUME NEW d \in turns[w], TurnFails(w, d)
        PROVE  DirectivesTypeOK' /\ Wants'
    <2>1. d \in Ids
      BY WorkerState
    <2>2. Records
      BY <1>2, <2>1 DEF TurnFails, server, Records, DirectivesTypeOK
    <2>3. Moves(w, pc[w], inbox[w], wanted[w], turns[w] \ {d}, reporting[w])
      BY <1>2 DEF TurnFails, loop, Moves, DirectivesTypeOK
    <2>4. turns[w] \ {d} \in SUBSET Ids /\ reporting[w] \in SUBSET (turns[w] \ {d})
      BY <1>2, WorkerState DEF TurnFails
    <2>5. QED
      BY <2>2, <2>3, <2>4, WorkerState, WorkerType
  <1>3. ASSUME NEW d \in reporting[w], EndTurn(w, d)
        PROVE  DirectivesTypeOK' /\ Wants'
    <2>1. Records
      BY <1>3 DEF EndTurn, server, Records, DirectivesTypeOK
    <2>2. Moves(w, pc[w], inbox[w], wanted[w], turns[w] \ {d}, reporting[w] \ {d})
      BY <1>3 DEF EndTurn, loop, Moves, DirectivesTypeOK
    <2>3. turns[w] \ {d} \in SUBSET Ids /\ reporting[w] \ {d} \in SUBSET (turns[w] \ {d})
      BY WorkerState
    <2>4. pc[w] \in Stages /\ (pc[w] # "polling" => wanted[w] \in Ids)
          /\ inbox[w] \in SUBSET Ids /\ wanted[w] \in Ids \cup {0}
      BY WorkerState
    <2>5. QED
      BY <2>1, <2>2, <2>3, <2>4, WorkerType
  <1>4. CASE Crash(w)
    <2>1. lateClaims' \subseteq lateClaims \cup Ids /\ stranded' \subseteq Ids
      BY <1>4, WorkerState DEF Crash, ForgetClaim, Granted, DirectivesTypeOK
    <2>2. Records
      BY <1>4, <2>1 DEF Crash, Records, DirectivesTypeOK
    <2>3. Moves(w, "polling", {}, 0, {}, {})
      BY <1>4 DEF Crash, Return, Moves
    <2>4. QED
      BY <2>2, <2>3, WorkerType DEF Stages
  <1>5. QED
    BY <1>1, <1>2, <1>3, <1>4 DEF Finish, Free

LEMMA NextType ==
  ASSUME DirectivesTypeOK, Wants, [Next]_vars
  PROVE  DirectivesTypeOK' /\ Wants'
  <1>1. CASE Next
    BY <1>1, ServerStepType, LoopStepType, TurnStepType DEF Next
  <1>2. CASE UNCHANGED vars
    BY <1>2 DEF vars, server, loop, lanes, DirectivesTypeOK, Wants, Ids
  <1>3. QED
    BY <1>1, <1>2

------------------------------------------------------------------------------
(* Single starts. *)

(* A directive that is no longer pending never is again. *)
LEMMA TakenForGood ==
  ASSUME DirectivesTypeOK, Wants, [Next]_vars
  PROVE  Ids \subseteq Ids' /\ Pending' \cap Ids \subseteq Pending
  <1> DEFINE Goal == Ids \subseteq Ids' /\ Pending' \cap Ids \subseteq Pending
  <1>1. ASSUME UNCHANGED directives PROVE Goal
    BY <1>1 DEF Ids, Pending
  <1>2. ASSUME NEW d \in Ids, NEW s \in Statuses \ {"pending"}, SetStatus(d, s)
        PROVE  Goal
    BY <1>2, StatusChange DEF DirectivesTypeOK
  <1>3. CASE SendDirective
    BY <1>3, Sent DEF DirectivesTypeOK
  <1>4. ASSUME NEW d \in lateClaims, LateClaim(d) PROVE Goal
    BY <1>1, <1>2, <1>4 DEF LateClaim, DirectivesTypeOK, Statuses
  <1>5. ASSUME NEW r \in reports, ReportDirective(r) PROVE Goal
    <2>1. r.directive \in Ids /\ r.outcome \in Statuses \ {"pending"}
      BY DEF DirectivesTypeOK, Statuses, Final, Outcomes
    <2>2. QED
      BY <1>1, <1>2, <1>5, <2>1 DEF ReportDirective
  <1>6. ASSUME NEW d \in Ids, CancelDirective(d) PROVE Goal
    BY <1>2, <1>6 DEF CancelDirective, Statuses, Final
  <1>7. ASSUME NEW w \in Workers, Loop(w) PROVE Goal
    <2>1. CASE ClaimDirective(w)
      <3>1. wanted[w] \in Ids
        BY <2>1 DEF ClaimDirective, Wants
      <3>2. QED
        BY <1>1, <1>2, <2>1, <3>1 DEF ClaimDirective, Statuses
    <2>2. CASE ~ClaimDirective(w)
      <3>1. UNCHANGED directives
        BY <1>7, <2>2 DEF Loop, Poll, PassOver, Pick, Start, GiveUp, ClaimTimesOut, server
      <3>2. QED
        BY <1>1, <3>1
    <2>3. QED
      BY <2>1, <2>2
  <1>8. ASSUME NEW w \in Workers, Finish(w) \/ Free(w) \/ Crash(w) PROVE Goal
    <2>1. UNCHANGED directives
      BY <1>8 DEF Finish, Free, Crash, SendReport, TurnFails, EndTurn, server
    <2>2. QED
      BY <1>1, <2>1
  <1>9. CASE UNCHANGED vars
    BY <1>1, <1>9 DEF vars, server
  <1>10. QED
    BY <1>3, <1>4, <1>5, <1>6, <1>7, <1>8, <1>9 DEF Next, Server

LEMMA BegunType == DirectivesTypeOK => Begun \subseteq Ids
  BY DEF DirectivesTypeOK, Begun

(* A step that begins no turn and grants no claim. *)
LEMMA QuietStep ==
  ASSUME DirectivesTypeOK, Wants, OnceInv, Pending' \cap Ids \subseteq Pending,
         UNCHANGED starts,
         \A w \in Workers : pc'[w] = "granted" => pc[w] = "granted" /\ wanted'[w] = wanted[w],
         \A w \in Workers : turns'[w] \subseteq turns[w]
  PROVE  OnceInv'
  <1>1. Begun' = Begun
    BY DEF Begun
  <1>2. StartsAreTaken'
    BY <1>1, BegunType DEF OnceInv, StartsAreTaken
  <1>3. GrantsAreTaken'
    BY <1>1 DEF OnceInv, GrantsAreTaken, Wants
  <1>4. StartedOnce' /\ GrantedOnce' /\ TurnsHaveBegun'
    BY <1>1 DEF OnceInv, StartedOnce, GrantedOnce, TurnsHaveBegun
  <1>5. QED
    BY <1>2, <1>3, <1>4 DEF OnceInv

LEMMA ClaimOnce ==
  ASSUME DirectivesTypeOK, Wants, OnceInv, NEW w \in Workers, ClaimDirective(w),
         Pending' \cap Ids \subseteq Pending
  PROVE  OnceInv'
  <1>1. CASE wanted[w] \in Pending /\ SetStatus(wanted[w], "running")
             /\ pc' = [pc EXCEPT ![w] = "granted"]
    <2>1. Pending' = Pending \ {wanted[w]}
      BY <1>1, StatusChange DEF Statuses, DirectivesTypeOK, Pending
    <2>2. UNCHANGED <<wanted, turns, starts>> /\ Begun' = Begun
      BY DEF ClaimDirective, lanes, Begun
    <2>3. \A v \in Workers \ {w} : pc'[v] = pc[v]
      BY <1>1 DEF DirectivesTypeOK
    <2>4. StartsAreTaken'
      BY <2>1, <2>2 DEF OnceInv, StartsAreTaken
    <2>5. GrantsAreTaken'
      BY <1>1, <2>1, <2>2, <2>3 DEF OnceInv, GrantsAreTaken, StartsAreTaken
    <2>6. GrantedOnce'
      BY <1>1, <2>2, <2>3 DEF OnceInv, GrantedOnce, GrantsAreTaken
    <2>7. StartedOnce' /\ TurnsHaveBegun'
      BY <2>2 DEF OnceInv, StartedOnce, TurnsHaveBegun
    <2>8. QED
      BY <2>4, <2>5, <2>6, <2>7 DEF OnceInv
  <1>2. CASE pc' = [pc EXCEPT ![w] = "refused"]
    <2>1. \A v \in Workers : pc'[v] = "granted" => pc[v] = "granted" /\ wanted'[v] = wanted[v]
      BY <1>2 DEF ClaimDirective, DirectivesTypeOK
    <2>2. UNCHANGED starts /\ \A v \in Workers : turns'[v] \subseteq turns[v]
      BY DEF ClaimDirective, lanes
    <2>3. QED
      BY <2>1, <2>2, QuietStep
  <1>3. QED
    BY <1>1, <1>2 DEF ClaimDirective

(* What the start of a turn adds to the history. *)
LEMMA StartBegins ==
  ASSUME DirectivesTypeOK, Wants, NEW w \in Workers, Start(w)
  PROVE  /\ DOMAIN starts = 1..Len(starts) /\ Len(starts) \in Nat
         /\ DOMAIN starts' = 1..(Len(starts) + 1)
         /\ \A i \in DOMAIN starts : starts'[i] = starts[i]
         /\ starts'[Len(starts) + 1] = wanted[w]
         /\ Begun' = Begun \cup {wanted[w]}
  <1>1. wanted[w] \in Ids
    BY DEF Start, Wants
  <1>2. /\ DOMAIN starts' = 1..(Len(starts) + 1)
        /\ \A i \in DOMAIN starts : starts'[i] = starts[i]
        /\ starts'[Len(starts) + 1] = wanted[w]
        /\ DOMAIN starts = 1..Len(starts) /\ Len(starts) \in Nat
    BY <1>1 DEF Start, DirectivesTypeOK
  <1>3. QED
    BY <1>2 DEF Begun

LEMMA StartOnce ==
  ASSUME DirectivesTypeOK, Wants, OnceInv, NEW w \in Workers, Start(w)
  PROVE  OnceInv'
  <1> DEFINE d == wanted[w]
  <1>1. d \in Ids /\ d \notin Pending \cup Begun
    BY DEF Start, Wants, OnceInv, GrantsAreTaken
  <1>2. /\ DOMAIN starts' = 1..(Len(starts) + 1)
        /\ \A i \in DOMAIN starts : starts'[i] = starts[i]
        /\ starts'[Len(starts) + 1] = d
        /\ DOMAIN starts = 1..Len(starts) /\ Len(starts) \in Nat
    BY StartBegins
  <1>3. Begun' = Begun \cup {d}
    BY StartBegins
  <1>4. Pending' = Pending
    BY DEF Start, server, Pending, Ids
  <1>5. \A v \in Workers : v # w => pc'[v] = pc[v] /\ wanted'[v] = wanted[v] /\ turns'[v] = turns[v]
    BY DEF Start, Return, DirectivesTypeOK
  <1>6. pc'[w] = "polling" /\ turns'[w] = turns[w] \cup {d}
    BY DEF Start, Return, DirectivesTypeOK
  <1>7. StartedOnce'
    BY <1>1, <1>2 DEF OnceInv, StartedOnce, Begun
  <1>8. StartsAreTaken'
    BY <1>1, <1>3, <1>4 DEF OnceInv, StartsAreTaken
  <1>9. GrantsAreTaken' /\ GrantedOnce'
    BY <1>3, <1>4, <1>5, <1>6 DEF OnceInv, GrantsAreTaken, GrantedOnce, Start
  <1>10. TurnsHaveBegun'
    BY <1>3, <1>5, <1>6 DEF OnceInv, TurnsHaveBegun
  <1>11. QED
    BY <1>7, <1>8, <1>9, <1>10 DEF OnceInv

LEMMA NextOnce ==
  ASSUME DirectivesTypeOK, Wants, OnceInv, [Next]_vars
  PROVE  OnceInv'
  <1> DEFINE Quiet == /\ UNCHANGED starts
                      /\ \A w \in Workers :
                           pc'[w] = "granted" => pc[w] = "granted" /\ wanted'[w] = wanted[w]
                      /\ \A w \in Workers : turns'[w] \subseteq turns[w]
  <1>1. Pending' \cap Ids \subseteq Pending
    BY TakenForGood
  <1>2. ASSUME Quiet PROVE OnceInv'
    BY <1>1, <1>2, QuietStep
  <1>3. CASE Server
    <2>1. Quiet
      BY <1>3 DEF Server, SendDirective, LateClaim, ReportDirective, CancelDirective, loop, lanes
    <2>2. QED
      BY <1>2, <2>1
  <1>4. ASSUME NEW w \in Workers, Loop(w) PROVE OnceInv'
    <2>1. CASE ClaimDirective(w)
      BY <1>1, <2>1, ClaimOnce
    <2>2. CASE Start(w)
      BY <2>2, StartOnce
    <2>3. CASE ~ClaimDirective(w) /\ ~Start(w)
      <3>1. UNCHANGED starts /\ UNCHANGED turns
        BY <1>4, <2>3 DEF Loop, Poll, PassOver, Pick, GiveUp, ClaimTimesOut, lanes
      <3>2. \A v \in Workers :
              pc'[v] = "granted" => pc[v] = "granted" /\ wanted'[v] = wanted[v]
        BY <1>4, <2>3
           DEF Loop, Poll, PassOver, Pick, GiveUp, ClaimTimesOut, Return, DirectivesTypeOK
      <3>3. QED
        BY <1>2, <3>1, <3>2
    <2>4. QED
      BY <2>1, <2>2, <2>3
  <1>5. ASSUME NEW w \in Workers, Finish(w) \/ Free(w) \/ Crash(w) PROVE OnceInv'
    <2>1. UNCHANGED starts
      BY <1>5 DEF Finish, Free, Crash, SendReport, TurnFails, EndTurn
    <2>2. \A v \in Workers :
            /\ pc'[v] = "granted" => pc[v] = "granted" /\ wanted'[v] = wanted[v]
            /\ turns'[v] \subseteq turns[v]
      BY <1>5 DEF Finish, Free, Crash, SendReport, TurnFails, EndTurn, Return, loop, DirectivesTypeOK
    <2>3. QED
      BY <1>2, <2>1, <2>2
  <1>6. CASE UNCHANGED vars
    <2>1. Quiet
      BY <1>6 DEF vars, loop, lanes
    <2>2. QED
      BY <1>2, <2>1
  <1>7. QED
    BY <1>3, <1>4, <1>5, <1>6 DEF Next

DInv == DirectivesTypeOK /\ Wants /\ OnceInv

LEMMA InitOnce == Init => OnceInv
  BY DEF Init, OnceInv, StartedOnce, StartsAreTaken, GrantsAreTaken, GrantedOnce,
         TurnsHaveBegun, Begun, Pending, Ids

THEOREM DInvariant == Spec => []DInv
  <1>1. Init => DInv
    BY InitType, InitOnce DEF DInv
  <1>2. DInv /\ [Next]_vars => DInv'
    BY NextType, NextOnce DEF DInv
  <1>3. QED
    BY <1>1, <1>2, PTL DEF Spec

(* Every state of the bus and of its workers is well formed: what a worker  *)
(* holds, claims or reports are directives that were sent.                  *)
THEOREM DirectiveTypes == Spec => []DirectivesTypeOK
  <1>1. DInv => DirectivesTypeOK
    BY DEF DInv
  <1>2. QED
    BY <1>1, DInvariant, PTL

(* Claiming is the only mutual exclusion: no directive is executed twice,   *)
(* however many hosts and pollers serve the agent and whatever is lost.     *)
THEOREM ExecutedOnce == Spec => []StartedOnce
  <1>1. DInv => StartedOnce
    BY DEF DInv, OnceInv
  <1>2. QED
    BY <1>1, DInvariant, PTL

------------------------------------------------------------------------------
(* Results stay. *)

LEMMA NextKeepsFinal ==
  ASSUME DirectivesTypeOK, Wants, [Next]_vars
  PROVE  \A d \in Ids : directives[d].status \in Final => directives'[d] = directives[d]
  <1> DEFINE Goal == \A d \in Ids : directives[d].status \in Final => directives'[d] = directives[d]
  <1>0. Pending \subseteq Ids /\ \A d \in Pending : directives[d].status \notin Final
    BY DEF Pending, Final, Outcomes
  <1>1. ASSUME UNCHANGED directives PROVE Goal
    BY <1>1
  <1>2. ASSUME NEW d \in Ids, directives[d].status \notin Final,
               NEW s \in Statuses, SetStatus(d, s)
        PROVE  Goal
    BY <1>2, StatusChange DEF DirectivesTypeOK
  <1>3. CASE SendDirective
    BY <1>3, Sent DEF DirectivesTypeOK
  <1>4. ASSUME NEW d \in lateClaims, LateClaim(d) PROVE Goal
    BY <1>0, <1>1, <1>2, <1>4 DEF LateClaim, Statuses
  <1>5. ASSUME NEW r \in reports, ReportDirective(r) PROVE Goal
    <2>1. r.directive \in Ids /\ r.outcome \in Statuses
      BY DEF DirectivesTypeOK, Statuses, Final
    <2>2. QED
      BY <1>1, <1>2, <1>5, <2>1 DEF ReportDirective, Open
  <1>6. ASSUME NEW d \in Ids, CancelDirective(d) PROVE Goal
    BY <1>2, <1>6 DEF CancelDirective, Open, Statuses, Final
  <1>7. ASSUME NEW w \in Workers, Loop(w) PROVE Goal
    <2>1. CASE ClaimDirective(w)
      BY <1>0, <1>1, <1>2, <2>1 DEF ClaimDirective, Statuses
    <2>2. CASE ~ClaimDirective(w)
      <3>1. UNCHANGED directives
        BY <1>7, <2>2 DEF Loop, Poll, PassOver, Pick, Start, GiveUp, ClaimTimesOut, server
      <3>2. QED
        BY <1>1, <3>1
    <2>3. QED
      BY <2>1, <2>2
  <1>8. ASSUME NEW w \in Workers, Finish(w) \/ Free(w) \/ Crash(w) PROVE Goal
    <2>1. UNCHANGED directives
      BY <1>8 DEF Finish, Free, Crash, SendReport, TurnFails, EndTurn, server
    <2>2. QED
      BY <1>1, <2>1
  <1>9. CASE UNCHANGED vars
    BY <1>1, <1>9 DEF vars, server
  <1>10. QED
    BY <1>3, <1>4, <1>5, <1>6, <1>7, <1>8, <1>9 DEF Next, Server

(* A result or a cancellation the console has seen is never overwritten,    *)
(* by no report, claim or cancellation, however late.                       *)
THEOREM ResultsStay == Spec => FinalIsFinal
  <1>1. DInv /\ [Next]_vars
        => [\A d \in Ids : directives[d].status \in Final => directives'[d] = directives[d]]_vars
    BY NextKeepsFinal DEF DInv
  <1>2. QED
    BY <1>1, DInvariant, PTL DEF Spec, FinalIsFinal

------------------------------------------------------------------------------
(* Running directives are accounted for. *)

Running(d) == directives[d].status = "running"

(* What a worker still owes a report. *)
Owes(w) == Granted(w) \cup (turns[w] \ reporting[w])

Reported == {r.directive : r \in reports}

LEMMA AccountedFor ==
  RunningIsAccountedFor
    <=> \A d \in Ids \ stranded : Running(d) => d \in Reported \/ \E w \in Workers : d \in Owes(w)
  BY DEF RunningIsAccountedFor, Running, Owes, Reported

(* A step after which no more runs that is not stranded, and which takes no *)
(* debt away but by a report or by stranding it.                            *)
LEMMA StepAccountedFor ==
  ASSUME RunningIsAccountedFor,
         \A d \in Ids' \ stranded' :
           Running(d)' => \/ d \in Reported' \/ \E w \in Workers : d \in Owes(w)'
                          \/ d \in Ids \ stranded /\ Running(d),
         \A d \in Reported : Running(d)' => d \in Reported',
         \A w \in Workers : \A d \in Owes(w) :
           Running(d)' => d \in stranded' \cup Reported' \cup Owes(w)'
  PROVE  RunningIsAccountedFor'
  <1>1. \A d \in Ids \ stranded : Running(d) => d \in Reported \/ \E w \in Workers : d \in Owes(w)
    BY AccountedFor
  <1>2. ASSUME NEW d \in Ids' \ stranded', Running(d)'
        PROVE  d \in Reported' \/ \E w \in Workers : d \in Owes(w)'
    BY <1>1, <1>2
  <1>3. (\A d \in Ids \ stranded : Running(d) => d \in Reported \/ \E w \in Workers : d \in Owes(w))'
    BY <1>2
  <1>4. QED
    BY <1>3 DEF RunningIsAccountedFor, Running, Owes, Reported

LEMMA ServerAccountedFor ==
  ASSUME DirectivesTypeOK, Wants, RunningIsAccountedFor, Server
  PROVE  RunningIsAccountedFor'
  <1>0. \A w \in Workers : Owes(w)' = Owes(w)
    BY DEF Server, SendDirective, LateClaim, ReportDirective, CancelDirective, loop, lanes,
           Owes, Granted
  <1>1. CASE SendDirective
    <2>1. /\ directives' \in Seq(Rows) /\ Ids \subseteq Ids'
          /\ \A e \in Ids : directives'[e] = directives[e] /\ Pending' \cap Ids = Pending
      BY <1>1, Sent DEF DirectivesTypeOK
    <2>2. \A e \in Ids' \ Ids : ~Running(e)'
      BY <1>1 DEF SendDirective, DirectivesTypeOK, Ids, Running
    <2>3. Reported' = Reported /\ stranded' = stranded
      BY <1>1 DEF SendDirective, Reported
    <2>4. \A e \in Ids : Running(e)' <=> Running(e)
      BY <2>1 DEF Running
    <2>5. QED
      BY <1>0, <2>2, <2>3, <2>4, StepAccountedFor
  <1>2. ASSUME NEW d \in lateClaims, LateClaim(d)
        PROVE  RunningIsAccountedFor'
    <2>1. d \in Ids
      BY DEF DirectivesTypeOK
    <2>2. Ids' = Ids /\ \A e \in Ids' \ stranded' : Running(e)' => e \notin stranded /\ Running(e)
      <3>1. CASE SetStatus(d, "running") /\ stranded' = stranded \cup {d}
        BY <3>1, <2>1, StatusChange DEF DirectivesTypeOK, Statuses, Running
      <3>2. CASE UNCHANGED <<directives, stranded>>
        BY <3>2 DEF Ids, Running
      <3>3. QED
        BY <1>2, <3>1, <3>2 DEF LateClaim
    <2>3. Reported' = Reported
      BY <1>2 DEF LateClaim, Reported
    <2>4. QED
      BY <1>0, <2>2, <2>3, StepAccountedFor
  <1>3. ASSUME NEW d \in Ids, NEW s \in Final, SetStatus(d, s), UNCHANGED stranded,
               \A e \in Reported : e # d => e \in Reported'
        PROVE  RunningIsAccountedFor'
    <2>1. ~Running(d)'
      BY <1>3, StatusChange DEF DirectivesTypeOK, Statuses, Running, Final, Outcomes
    <2>2. Ids' = Ids /\ \A e \in Ids \ {d} : directives'[e] = directives[e]
      BY <1>3, StatusChange DEF DirectivesTypeOK, Statuses
    <2>3. \A e \in Ids' \ stranded' : Running(e)' => e \notin stranded /\ Running(e)
      BY <1>3, <2>1, <2>2 DEF Running
    <2>4. QED
      BY <1>0, <1>3, <2>1, <2>2, <2>3, StepAccountedFor
  <1>4. ASSUME NEW r \in reports, ReportDirective(r)
        PROVE  RunningIsAccountedFor'
    <2>1. r.directive \in Ids /\ r.outcome \in Final
      BY DEF DirectivesTypeOK, Final
    <2>2. \A e \in Reported : e # r.directive => e \in Reported'
      BY <1>4 DEF ReportDirective, Reported
    <2>3. CASE SetStatus(r.directive, r.outcome)
      BY <1>3, <1>4, <2>1, <2>2, <2>3 DEF ReportDirective
    <2>4. CASE ~Open(r.directive) /\ UNCHANGED directives
      <3>1. ~Running(r.directive)' /\ Ids' = Ids /\ UNCHANGED stranded
        BY <1>4, <2>4 DEF Open, Running, Final, Outcomes, Ids, ReportDirective
      <3>2. \A e \in Ids : Running(e)' <=> Running(e)
        BY <2>4 DEF Running
      <3>3. QED
        BY <1>0, <2>2, <3>1, <3>2, StepAccountedFor
    <2>5. QED
      BY <1>4, <2>3, <2>4 DEF ReportDirective
  <1>5. ASSUME NEW d \in Ids, CancelDirective(d)
        PROVE  RunningIsAccountedFor'
    <2>1. Reported' = Reported
      BY <1>5 DEF CancelDirective, Reported
    <2>2. QED
      BY <1>3, <1>5, <2>1 DEF CancelDirective, Final
  <1>6. QED
    BY <1>1, <1>2, <1>4, <1>5 DEF Server

(* A step of a worker that changes no directive. *)
LEMMA WorkerAccountedFor ==
  ASSUME RunningIsAccountedFor, UNCHANGED directives,
         stranded \subseteq stranded', reports \subseteq reports',
         \A w \in Workers : \A d \in Owes(w) : d \in stranded' \cup Reported' \cup Owes(w)'
  PROVE  RunningIsAccountedFor'
  <1>1. Ids' = Ids /\ \A d \in Ids : Running(d)' <=> Running(d)
    BY DEF Ids, Running
  <1>2. Reported \subseteq Reported'
    BY DEF Reported
  <1>3. QED
    BY <1>1, <1>2, StepAccountedFor

LEMMA LoopAccountedFor ==
  ASSUME DirectivesTypeOK, Wants, OnceInv, RunningIsAccountedFor, NEW w \in Workers, Loop(w)
  PROVE  RunningIsAccountedFor'
  <1>1. CASE ClaimDirective(w)
    <2>0. /\ wanted[w] \in Ids /\ Reported' = Reported
          /\ stranded' = stranded /\ UNCHANGED <<wanted, turns, reporting>>
      BY <1>1 DEF ClaimDirective, Wants, Reported, lanes
    <2>1. CASE SetStatus(wanted[w], "running") /\ pc' = [pc EXCEPT ![w] = "granted"]
      <3>1. \A v \in Workers : Owes(v) \subseteq Owes(v)'
        BY <1>1, <2>0, <2>1 DEF ClaimDirective, Owes, Granted, DirectivesTypeOK
      <3>2. wanted[w] \in Owes(w)'
        BY <2>0, <2>1 DEF Owes, Granted, DirectivesTypeOK
      <3>3. Ids' = Ids /\ \A e \in Ids \ {wanted[w]} : Running(e)' <=> Running(e)
        BY <2>0, <2>1, StatusChange DEF DirectivesTypeOK, Statuses, Running
      <3>4. QED
        BY <2>0, <3>1, <3>2, <3>3, StepAccountedFor
    <2>2. CASE UNCHANGED directives /\ pc' = [pc EXCEPT ![w] = "refused"]
      <3>1. \A v \in Workers : Owes(v)' = Owes(v)
        BY <1>1, <2>0, <2>2 DEF ClaimDirective, Owes, Granted, DirectivesTypeOK
      <3>2. reports' = reports
        BY <1>1 DEF ClaimDirective
      <3>3. QED
        BY <2>0, <2>2, <3>1, <3>2, WorkerAccountedFor
    <2>3. QED
      BY <1>1, <2>1, <2>2 DEF ClaimDirective
  <1>2. CASE Start(w)
    <2>1. wanted[w] \notin reporting[w]
      BY <1>2 DEF Start, DirectivesTypeOK, OnceInv, GrantsAreTaken, TurnsHaveBegun
    <2>2. \A v \in Workers : Owes(v) \subseteq Owes(v)'
      BY <1>2, <2>1 DEF Start, Return, Owes, Granted, DirectivesTypeOK
    <2>3. UNCHANGED <<directives, reports, stranded>>
      BY <1>2 DEF Start, server
    <2>4. QED
      BY <2>2, <2>3, WorkerAccountedFor
  <1>3. CASE ClaimTimesOut(w)
    <2>1. \A v \in Workers : Owes(v) \subseteq stranded' \cup Owes(v)'
      BY <1>3 DEF ClaimTimesOut, Return, Owes, Granted, lanes, DirectivesTypeOK
    <2>2. UNCHANGED <<directives, reports>> /\ stranded \subseteq stranded'
      BY <1>3 DEF ClaimTimesOut
    <2>3. QED
      BY <2>1, <2>2, WorkerAccountedFor
  <1>4. CASE Poll(w) \/ PassOver(w) \/ Pick(w) \/ GiveUp(w)
    <2>1. \A v \in Workers : Owes(v) \subseteq Owes(v)'
      BY <1>4 DEF Poll, PassOver, Pick, Looking, GiveUp, Return, Owes, Granted, lanes,
                  DirectivesTypeOK
    <2>2. UNCHANGED <<directives, reports, stranded>>
      BY <1>4 DEF Poll, PassOver, Pick, GiveUp, server
    <2>3. QED
      BY <2>1, <2>2, WorkerAccountedFor
  <1>5. QED
    BY <1>1, <1>2, <1>3, <1>4 DEF Loop

LEMMA TurnAccountedFor ==
  ASSUME DirectivesTypeOK, RunningIsAccountedFor, NEW w \in Workers,
         Finish(w) \/ Free(w) \/ Crash(w)
  PROVE  RunningIsAccountedFor'
  <1>1. UNCHANGED directives /\ stranded \subseteq stranded' /\ reports \subseteq reports'
    BY DEF Finish, Free, Crash, SendReport, TurnFails, EndTurn, server
  <1>2. ASSUME NEW d \in turns[w], NEW o \in Outcomes, SendReport(w, d, o)
        PROVE  \A v \in Workers : \A e \in Owes(v) : e \in Reported' \cup Owes(v)'
    <2>1. d \in Reported'
      <3>1. PICK r \in reports' : r = [directive |-> d, outcome |-> o]
        BY <1>2 DEF SendReport
      <3>2. r.directive = d
        BY <3>1
      <3>3. QED
        BY <3>2 DEF Reported
    <2>2. \A v \in Workers : Owes(v) \subseteq Owes(v)' \cup {d}
      BY <1>2 DEF SendReport, loop, Owes, Granted, DirectivesTypeOK
    <2>3. QED
      BY <2>1, <2>2
  <1>3. ASSUME NEW d \in turns[w], TurnFails(w, d)
        PROVE  \A v \in Workers : \A e \in Owes(v) : e \in stranded' \cup Owes(v)'
    BY <1>3 DEF TurnFails, loop, Owes, Granted, DirectivesTypeOK
  <1>4. ASSUME NEW d \in reporting[w], EndTurn(w, d)
        PROVE  \A v \in Workers : \A e \in Owes(v) : e \in Owes(v)'
    BY <1>4 DEF EndTurn, loop, Owes, Granted, DirectivesTypeOK
  <1>5. CASE Crash(w)
    <2>1. \A v \in Workers : \A e \in Owes(v) : e \in stranded' \cup Owes(v)'
      BY <1>5 DEF Crash, Return, Owes, Granted, DirectivesTypeOK
    <2>2. QED
      BY <1>1, <2>1, WorkerAccountedFor
  <1>6. QED
    BY <1>1, <1>2, <1>3, <1>4, <1>5, WorkerAccountedFor DEF Finish, Free

(* Only the loss of a worker, or of the grant of its claim, leaves a        *)
(* running directive that nobody will ever report.                          *)
THEOREM RunningHasAnOwner == Spec => []RunningIsAccountedFor
  <1>1. Init => RunningIsAccountedFor
    BY DEF Init, RunningIsAccountedFor, Ids
  <1>2. DInv /\ RunningIsAccountedFor /\ [Next]_vars => RunningIsAccountedFor'
    <2> SUFFICES ASSUME DInv, RunningIsAccountedFor, [Next]_vars
                 PROVE  RunningIsAccountedFor'
      OBVIOUS
    <2>1. CASE Next
      BY <2>1, ServerAccountedFor, LoopAccountedFor, TurnAccountedFor DEF Next, DInv
    <2>2. CASE UNCHANGED vars
      BY <2>2 DEF vars, server, loop, lanes, RunningIsAccountedFor, Ids, Granted
    <2>3. QED
      BY <2>1, <2>2
  <1>3. QED
    BY <1>1, <1>2, DInvariant, PTL DEF Spec

------------------------------------------------------------------------------
(* Lanes.  From the moment a worker picks a directive until its turn begins *)
(* the lane stays free: meanwhile turns only end.                           *)

Claiming(w) == pc[w] \in {"claiming", "granted"}

LaneIsFree(w) ==
  /\ ~Full(w) /\ ~Busy(w, wanted[w])
  /\ w \in Pollers => turns[w] = {} /\ inbox[w] = {}

LaneInv ==
  /\ LanesAreSerial
  /\ \A w \in Workers : Claiming(w) => LaneIsFree(w)
  /\ \A w \in Pollers : inbox[w] # {} => turns[w] = {}

(* A lane as it was before the step, for what is wanted after it. *)
WillBeFree(w) ==
  /\ wanted'[w] \in Ids
  /\ ~Full(w) /\ ~Busy(w, wanted'[w])
  /\ w \in Pollers => turns[w] = {} /\ inbox'[w] = {}

LEMMA FiniteTurns ==
  ASSUME DirectivesTypeOK, NEW w \in Workers
  PROVE  IsFiniteSet(turns[w]) /\ Cardinality(turns[w]) \in Nat
  <1>1. IsFiniteSet(Ids)
    BY FS_Interval DEF Ids, DirectivesTypeOK
  <1>2. turns[w] \subseteq Ids
    BY DEF DirectivesTypeOK
  <1>3. QED
    BY <1>1, <1>2, FS_Subset, FS_CardinalityType

LEMMA ThreadsStay ==
  ASSUME DirectivesTypeOK, Wants, [Next]_vars
  PROVE  \A d \in Ids : directives'[d].thread = directives[d].thread
  <1> DEFINE Goal == \A d \in Ids : directives'[d].thread = directives[d].thread
  <1>1. ASSUME UNCHANGED directives PROVE Goal
    BY <1>1
  <1>2. ASSUME NEW d \in Ids, NEW s \in Statuses, SetStatus(d, s) PROVE Goal
    BY <1>2, StatusChange DEF DirectivesTypeOK
  <1>3. CASE SendDirective
    BY <1>3, Sent DEF DirectivesTypeOK
  <1>4. ASSUME NEW d \in lateClaims, LateClaim(d) PROVE Goal
    BY <1>1, <1>2, <1>4 DEF LateClaim, DirectivesTypeOK, Statuses
  <1>5. ASSUME NEW r \in reports, ReportDirective(r) PROVE Goal
    <2>1. r.directive \in Ids /\ r.outcome \in Statuses
      BY DEF DirectivesTypeOK, Statuses, Final
    <2>2. QED
      BY <1>1, <1>2, <1>5, <2>1 DEF ReportDirective
  <1>6. ASSUME NEW d \in Ids, CancelDirective(d) PROVE Goal
    BY <1>2, <1>6 DEF CancelDirective, Statuses, Final
  <1>7. ASSUME NEW w \in Workers, Loop(w) PROVE Goal
    <2>1. CASE ClaimDirective(w)
      <3>1. wanted[w] \in Ids
        BY <2>1 DEF ClaimDirective, Wants
      <3>2. QED
        BY <1>1, <1>2, <2>1, <3>1 DEF ClaimDirective, Statuses
    <2>2. CASE ~ClaimDirective(w)
      <3>1. UNCHANGED directives
        BY <1>7, <2>2 DEF Loop, Poll, PassOver, Pick, Start, GiveUp, ClaimTimesOut, server
      <3>2. QED
        BY <1>1, <3>1
    <2>3. QED
      BY <2>1, <2>2
  <1>8. ASSUME NEW w \in Workers, Finish(w) \/ Free(w) \/ Crash(w) PROVE Goal
    <2>1. UNCHANGED directives
      BY <1>8 DEF Finish, Free, Crash, SendReport, TurnFails, EndTurn, server
    <2>2. QED
      BY <1>1, <2>1
  <1>9. CASE UNCHANGED vars
    BY <1>1, <1>9 DEF vars, server
  <1>10. QED
    BY <1>3, <1>4, <1>5, <1>6, <1>7, <1>8, <1>9 DEF Next, Server

(* A step that begins no turn. *)
LEMMA LanesShrink ==
  ASSUME DirectivesTypeOK, LaneInv,
         \A d \in Ids : directives'[d].thread = directives[d].thread,
         \A w \in Workers : turns'[w] \subseteq turns[w],
         \A w \in Workers : Claiming(w)' => WillBeFree(w),
         \A w \in Pollers : inbox'[w] # {} => turns[w] = {}
  PROVE  LaneInv'
  <1>1. \A w \in Workers : turns[w] \subseteq Ids
    BY DEF DirectivesTypeOK
  <1>2. ASSUME NEW w \in Workers
        PROVE  /\ Cardinality(turns'[w]) <= Cardinality(turns[w])
               /\ Cardinality(turns'[w]) \in Nat /\ Cardinality(turns[w]) \in Nat
    <2>1. turns'[w] \subseteq turns[w]
      OBVIOUS
    <2>2. QED
      BY <2>1, FiniteTurns, FS_Subset, FS_CardinalityType
  <1>3. LanesAreSerial'
    <2> SUFFICES ASSUME NEW w \in Workers
                 PROVE  /\ Cardinality(turns'[w]) <= IF w \in Hosts THEN Capacity ELSE 1
                        /\ \A d, e \in turns'[w] :
                             d # e => directives'[d].thread # directives'[e].thread
      BY DEF LanesAreSerial
    <2>1. /\ Cardinality(turns[w]) <= IF w \in Hosts THEN Capacity ELSE 1
          /\ \A d, e \in turns[w] : d # e => directives[d].thread # directives[e].thread
      BY DEF LaneInv, LanesAreSerial
    <2>2. QED
      BY <1>1, <1>2, <2>1, DirectivesAssumption
  <1>4. ASSUME NEW w \in Workers, Claiming(w)'
        PROVE  LaneIsFree(w)'
    <2>1. WillBeFree(w)
      BY <1>4
    <2>2. ~Full(w)'
      BY <1>2, <2>1, DirectivesAssumption DEF WillBeFree, Full
    <2>3. ~Busy(w, wanted[w])'
      BY <1>1, <2>1 DEF WillBeFree, Busy
    <2>4. w \in Pollers => turns'[w] = {} /\ inbox'[w] = {}
      BY <2>1 DEF WillBeFree
    <2>5. QED
      BY <2>2, <2>3, <2>4 DEF LaneIsFree
  <1>5. \A w \in Pollers : inbox'[w] # {} => turns'[w] = {}
    BY DEF Workers
  <1>6. QED
    BY <1>3, <1>4, <1>5 DEF LaneInv

LEMMA StartTakesLane ==
  ASSUME DirectivesTypeOK, Wants, LaneInv, NEW w \in Workers, Start(w)
  PROVE  LaneInv'
  <1> DEFINE d == wanted[w]
  <1>1. LaneIsFree(w) /\ d \in Ids
    BY DEF LaneInv, Claiming, Start, Wants
  <1>2. \A v \in Workers : v # w => turns'[v] = turns[v] /\ pc'[v] = pc[v] /\ wanted'[v] = wanted[v]
    BY DEF Start, Return, DirectivesTypeOK
  <1>3. turns'[w] = turns[w] \cup {d} /\ pc'[w] = "polling"
    BY DEF Start, Return, DirectivesTypeOK
  <1>4. directives' = directives /\ inbox' = inbox
    BY DEF Start, server
  <1>5. Cardinality(turns'[w]) <= Cardinality(turns[w]) + 1 /\ Cardinality(turns'[w]) \in Nat
    <2>1. IsFiniteSet(turns[w]) /\ Cardinality(turns[w]) \in Nat
      BY FiniteTurns
    <2>2. Cardinality(turns[w] \cup {d})
            = IF d \in turns[w] THEN Cardinality(turns[w]) ELSE Cardinality(turns[w]) + 1
      BY <2>1, FS_AddElement
    <2>3. QED
      BY <1>3, <2>1, <2>2
  <1>6. Cardinality(turns'[w]) <= IF w \in Hosts THEN Capacity ELSE 1
    <2>1. CASE w \in Hosts
      BY <1>1, <1>5, <2>1, FiniteTurns, DirectivesAssumption DEF LaneIsFree, Full
    <2>2. CASE w \notin Hosts
      <3>1. turns[w] = {}
        BY <1>1, <2>2 DEF LaneIsFree, Workers
      <3>2. QED
        BY <1>5, <2>2, <3>1, FS_EmptySet
    <2>3. QED
      BY <2>1, <2>2
  <1>7. \A e \in turns[w] : directives[e].thread # directives[d].thread
    BY <1>1 DEF LaneIsFree, Busy, Workers
  <1>8. \A e, f \in turns'[w] : e # f => directives'[e].thread # directives'[f].thread
    BY <1>3, <1>4, <1>7 DEF LaneInv, LanesAreSerial
  <1>9. LanesAreSerial'
    BY <1>2, <1>4, <1>6, <1>8 DEF LaneInv, LanesAreSerial
  <1>10. \A v \in Workers : Claiming(v)' => LaneIsFree(v)'
    <2> SUFFICES ASSUME NEW v \in Workers, Claiming(v)' PROVE LaneIsFree(v)'
      OBVIOUS
    <2>1. v # w
      BY <1>3 DEF Claiming
    <2>2. LaneIsFree(v)
      BY <1>2, <2>1 DEF LaneInv, Claiming
    <2>3. QED
      BY <1>2, <1>4, <2>1, <2>2 DEF LaneIsFree, Full, Busy
  <1>11. \A v \in Pollers : inbox'[v] # {} => turns'[v] = {}
    BY <1>1, <1>2, <1>4 DEF LaneInv, LaneIsFree, Workers
  <1>12. QED
    BY <1>9, <1>10, <1>11 DEF LaneInv

LEMMA NextLanes ==
  ASSUME DirectivesTypeOK, Wants, LaneInv, [Next]_vars
  PROVE  LaneInv'
  <1>1. \A d \in Ids : directives'[d].thread = directives[d].thread
    BY ThreadsStay
  <1> DEFINE Calm ==
        /\ \A w \in Workers : turns'[w] \subseteq turns[w]
        /\ \A w \in Workers : Claiming(w)' => WillBeFree(w)
        /\ \A w \in Pollers : inbox'[w] # {} => turns[w] = {}
  <1>2. ASSUME Calm PROVE LaneInv'
    BY <1>1, <1>2, LanesShrink
  (* Most steps pick nothing and give a worker no new answer. *)
  <1>3. ASSUME \A w \in Workers : /\ turns'[w] \subseteq turns[w]
                                  /\ inbox'[w] \subseteq inbox[w]
                                  /\ Claiming(w)' => Claiming(w) /\ wanted'[w] = wanted[w]
        PROVE  LaneInv'
    <2>1. ASSUME NEW w \in Workers, Claiming(w)' PROVE WillBeFree(w)
      <3>1. LaneIsFree(w) /\ wanted[w] \in Ids /\ wanted'[w] = wanted[w]
        BY <1>3, <2>1 DEF LaneInv, Claiming, Wants
      <3>2. QED
        BY <1>3, <3>1 DEF LaneIsFree, WillBeFree
    <2>2. \A w \in Pollers : inbox'[w] # {} => turns[w] = {}
      BY <1>3 DEF LaneInv, Workers
    <2>3. QED
      BY <1>2, <1>3, <2>1, <2>2
  <1>4. CASE Server \/ UNCHANGED vars
    <2>1. UNCHANGED <<turns, inbox, pc, wanted>>
      BY <1>4 DEF Server, SendDirective, LateClaim, ReportDirective, CancelDirective,
                  vars, loop, lanes
    <2>2. QED
      BY <1>3, <2>1 DEF Claiming
  <1>5. ASSUME NEW w \in Workers, Loop(w) PROVE LaneInv'
    <2>1. CASE Poll(w)
      <3>1. UNCHANGED <<turns, pc, wanted>> /\ \A v \in Workers : v # w => inbox'[v] = inbox[v]
        BY <2>1 DEF Poll, lanes, DirectivesTypeOK
      <3>2. ~Claiming(w) /\ (w \in Pollers => turns[w] = {})
        BY <2>1 DEF Poll, Claiming
      <3>3. ASSUME NEW v \in Workers, Claiming(v)' PROVE WillBeFree(v)
        <4>1. Claiming(v) /\ v # w
          BY <3>1, <3>2, <3>3 DEF Claiming
        <4>2. LaneIsFree(v) /\ wanted[v] \in Ids
          BY <4>1 DEF LaneInv, Claiming, Wants
        <4>3. QED
          BY <3>1, <4>1, <4>2 DEF LaneIsFree, WillBeFree
      <3>4. \A v \in Pollers : inbox'[v] # {} => turns[v] = {}
        BY <3>1, <3>2 DEF LaneInv, Workers
      <3>5. QED
        BY <1>2, <3>1, <3>3, <3>4
    <2>2. CASE Pick(w)
      <3>1. PICK d \in Pickable(w) :
              /\ wanted' = [wanted EXCEPT ![w] = d]
              /\ inbox' = [inbox EXCEPT ![w] =
                             IF w \in Pollers THEN {} ELSE {e \in @ : Before(d, e)}]
        BY <2>2 DEF Pick
      <3>2. UNCHANGED turns /\ \A v \in Workers : v # w => /\ inbox'[v] = inbox[v]
                                                          /\ wanted'[v] = wanted[v]
                                                          /\ pc'[v] = pc[v]
        BY <2>2, <3>1 DEF Pick, lanes, DirectivesTypeOK
      <3>3. d \in inbox[w] /\ ~Full(w) /\ ~Busy(w, d) /\ d \in Ids
        BY DEF Pickable, DirectivesTypeOK
      <3>4. /\ wanted'[w] = d /\ inbox'[w] \subseteq inbox[w]
            /\ w \in Pollers => inbox'[w] = {} /\ turns[w] = {}
        BY <3>1, <3>3 DEF DirectivesTypeOK, LaneInv
      <3>5. ASSUME NEW v \in Workers, Claiming(v)' PROVE WillBeFree(v)
        <4>1. CASE v = w
          BY <3>3, <3>4, <4>1 DEF WillBeFree
        <4>2. CASE v # w
          <5>1. LaneIsFree(v) /\ wanted[v] \in Ids
            BY <3>2, <3>5, <4>2 DEF LaneInv, Claiming, Wants
          <5>2. QED
            BY <3>2, <4>2, <5>1 DEF LaneIsFree, WillBeFree
        <4>3. QED
          BY <4>1, <4>2
      <3>6. \A v \in Pollers : inbox'[v] # {} => turns[v] = {}
        BY <3>2, <3>4 DEF LaneInv, Workers
      <3>7. QED
        BY <1>2, <3>2, <3>5, <3>6
    <2>3. CASE Start(w)
      BY <2>3, StartTakesLane
    <2>4. CASE PassOver(w) \/ ClaimDirective(w) \/ GiveUp(w) \/ ClaimTimesOut(w)
      <3>1. \A v \in Workers : turns'[v] = turns[v] /\ inbox'[v] \subseteq inbox[v]
        BY <2>4 DEF PassOver, ClaimDirective, GiveUp, ClaimTimesOut, lanes, DirectivesTypeOK
      <3>2. \A v \in Workers : Claiming(v)' => Claiming(v) /\ wanted'[v] = wanted[v]
        BY <2>4 DEF PassOver, ClaimDirective, GiveUp, ClaimTimesOut, Return, Claiming,
                    DirectivesTypeOK
      <3>3. QED
        BY <1>3, <3>1, <3>2
    <2>5. QED
      BY <1>5, <2>1, <2>2, <2>3, <2>4 DEF Loop
  <1>6. ASSUME NEW w \in Workers, Finish(w) \/ Free(w) \/ Crash(w) PROVE LaneInv'
    <2>1. \A v \in Workers : turns'[v] \subseteq turns[v] /\ inbox'[v] \subseteq inbox[v]
      BY <1>6 DEF Finish, Free, Crash, SendReport, TurnFails, EndTurn, loop, DirectivesTypeOK
    <2>2. \A v \in Workers : Claiming(v)' => Claiming(v) /\ wanted'[v] = wanted[v]
      BY <1>6 DEF Finish, Free, Crash, SendReport, TurnFails, EndTurn, loop, Return, Claiming,
                  DirectivesTypeOK
    <2>3. QED
      BY <1>3, <2>1, <2>2
  <1>7. QED
    BY <1>4, <1>5, <1>6 DEF Next

(* One worker never runs two turns of a thread at once, nor more turns than *)
(* its capacity, although it claims over the network between its look at    *)
(* its lanes and the beginning of the turn.                                 *)
THEOREM SerialLanes == Spec => []LanesAreSerial
  <1>1. Init => LaneInv
    BY FS_EmptySet, DirectivesAssumption DEF Init, LaneInv, LanesAreSerial, Claiming, Workers
  <1>2. DInv /\ LaneInv /\ [Next]_vars => LaneInv'
    BY NextLanes DEF DInv
  <1>3. LaneInv => LanesAreSerial
    BY DEF LaneInv
  <1>4. QED
    BY <1>1, <1>2, <1>3, DInvariant, PTL DEF Spec

------------------------------------------------------------------------------
(* A single shot.  What is told of a directive was earned: there is no      *)
(* result, nor a report under way, of a directive whose turn never began or *)
(* was lost; and what is lost nobody holds any more.                        *)

Answered(d) == directives[d].status \in Outcomes \/ d \in Reported

TurnsAreSingle == \A v, w \in Workers : v # w => turns[v] \cap turns[w] = {}

AnswersAreEarned ==
  \A d \in Ids : Answered(d) =>
    d \in Begun \ stranded /\ \A w \in Workers : d \in turns[w] => d \in reporting[w]

LostIsLost ==
  /\ stranded \cap Pending = {}
  /\ \A w \in Workers : stranded \cap (turns[w] \cup Granted(w)) = {}

ShotInv == TurnsAreSingle /\ AnswersAreEarned /\ LostIsLost

(* A step that begins no turn and sends no report; it may lose some         *)
(* directives S that have not been answered and that nobody keeps.          *)
LEMMA KeepsShots ==
  ASSUME ShotInv, NEW S, stranded' = stranded \cup S, Begun' = Begun,
         \A d \in Ids' : Answered(d)' => d \in Ids /\ Answered(d),
         stranded \cap Pending' \subseteq Pending,
         \A w \in Workers :
           /\ turns'[w] \subseteq turns[w]
           /\ \A d \in turns'[w] : d \in reporting[w] => d \in reporting'[w]
           /\ stranded \cap Granted(w)' \subseteq Granted(w),
         \A d \in S :
           /\ ~Answered(d) /\ d \notin Pending'
           /\ \A w \in Workers : d \notin turns'[w] \cup Granted(w)'
  PROVE  ShotInv'
  <1>1. TurnsAreSingle'
    BY DEF ShotInv, TurnsAreSingle
  <1>2. AnswersAreEarned'
    <2> SUFFICES ASSUME NEW d \in Ids', Answered(d)'
                 PROVE  /\ d \in Begun' \ stranded'
                        /\ \A w \in Workers : d \in turns'[w] => d \in reporting'[w]
      BY DEF AnswersAreEarned
    <2>1. d \in Ids /\ Answered(d)
      OBVIOUS
    <2>2. d \in Begun \ stranded /\ \A w \in Workers : d \in turns[w] => d \in reporting[w]
      BY <2>1 DEF ShotInv, AnswersAreEarned
    <2>3. QED
      BY <2>1, <2>2
  <1>3. LostIsLost'
    BY DEF ShotInv, LostIsLost
  <1>4. QED
    BY <1>1, <1>2, <1>3 DEF ShotInv

LEMMA ServerKeepsShots ==
  ASSUME DirectivesTypeOK, Wants, OnceInv, ShotInv, Server, [Next]_vars
  PROVE  ShotInv'
  <1>0. stranded \subseteq Ids /\ stranded \cap Pending' \subseteq Pending
    BY TakenForGood DEF DirectivesTypeOK
  <1>1. /\ Begun' = Begun /\ UNCHANGED <<turns, reporting>>
        /\ \A w \in Workers :
             /\ turns'[w] \subseteq turns[w]
             /\ \A d \in turns'[w] : d \in reporting[w] => d \in reporting'[w]
             /\ stranded \cap Granted(w)' \subseteq Granted(w)
             /\ Granted(w)' = Granted(w)
    BY DEF Server, SendDirective, LateClaim, ReportDirective, CancelDirective, loop, lanes,
           Begun, Granted
  <1>2. ASSUME UNCHANGED stranded, \A d \in Ids' : Answered(d)' => d \in Ids /\ Answered(d)
        PROVE  ShotInv'
    <2> DEFINE S == {}
    <2>1. stranded' = stranded \cup S /\ \A d \in S : FALSE
      BY <1>2
    <2> HIDE DEF S
    <2>2. QED
      BY <1>0, <1>1, <1>2, <2>1, KeepsShots
  <1>3. CASE SendDirective
    <2>1. UNCHANGED <<reports, stranded>> /\ Reported' = Reported /\ Reported \subseteq Ids
      BY <1>3 DEF SendDirective, Reported, DirectivesTypeOK
    <2>2. \A d \in Ids' : d \notin Ids => directives'[d].status = "pending"
      BY <1>3 DEF SendDirective, Ids, DirectivesTypeOK
    <2>3. \A d \in Ids : directives'[d] = directives[d]
      BY <1>3, Sent DEF DirectivesTypeOK
    <2>4. QED
      BY <1>2, <2>1, <2>2, <2>3 DEF Answered, Outcomes
  <1>4. ASSUME NEW d \in lateClaims, LateClaim(d)
        PROVE  ShotInv'
    <2>1. d \in Ids /\ Reported' = Reported
      BY <1>4 DEF LateClaim, Reported, DirectivesTypeOK
    <2>2. CASE d \in Pending /\ SetStatus(d, "running") /\ stranded' = stranded \cup {d}
      <3>1. /\ Ids' = Ids /\ Pending' = Pending \ {d} /\ directives'[d].status = "running"
            /\ \A e \in Ids \ {d} : directives'[e] = directives[e]
        BY <2>1, <2>2, StatusChange DEF DirectivesTypeOK, Statuses
      <3>2. \A e \in Ids' : Answered(e)' => e \in Ids /\ Answered(e)
        BY <2>1, <3>1 DEF Answered, Outcomes
      <3>3. d \notin Begun
        BY <2>2 DEF OnceInv, StartsAreTaken
      <3>4. ~Answered(d) /\ d \notin Pending'
        BY <2>1, <3>1, <3>3 DEF ShotInv, AnswersAreEarned
      <3>5. \A w \in Workers : d \notin turns'[w] \cup Granted(w)'
        BY <1>1, <2>2, <3>3 DEF OnceInv, TurnsHaveBegun, GrantsAreTaken, Granted
      <3> DEFINE S == {d}
      <3>6. stranded' = stranded \cup S
        BY <2>2
      <3>7. \A e \in S : /\ ~Answered(e) /\ e \notin Pending'
                         /\ \A w \in Workers : e \notin turns'[w] \cup Granted(w)'
        BY <3>4, <3>5
      <3> HIDE DEF S
      <3>8. QED
        BY <1>0, <1>1, <3>2, <3>6, <3>7, KeepsShots
    <2>3. CASE UNCHANGED <<directives, stranded>>
      BY <1>2, <2>1, <2>3 DEF Answered, Ids
    <2>4. QED
      BY <1>4, <2>2, <2>3 DEF LateClaim
  <1>5. ASSUME NEW r \in reports, ReportDirective(r)
        PROVE  ShotInv'
    <2>1. /\ r.directive \in Ids /\ r.outcome \in Statuses
          /\ r.directive \in Reported /\ Reported' \subseteq Reported
      BY <1>5 DEF ReportDirective, Reported, DirectivesTypeOK, Statuses, Final
    <2>2. CASE SetStatus(r.directive, r.outcome)
      <3>1. Ids' = Ids /\ \A e \in Ids \ {r.directive} : directives'[e] = directives[e]
        BY <2>1, <2>2, StatusChange DEF DirectivesTypeOK
      <3>2. QED
        BY <1>2, <1>5, <2>1, <3>1 DEF Answered, ReportDirective
    <2>3. CASE UNCHANGED directives
      BY <1>2, <1>5, <2>1, <2>3 DEF Answered, ReportDirective, Ids
    <2>4. QED
      BY <1>5, <2>2, <2>3 DEF ReportDirective
  <1>6. ASSUME NEW d \in Ids, CancelDirective(d)
        PROVE  ShotInv'
    <2>1. /\ Ids' = Ids /\ directives'[d].status = "canceled"
          /\ \A e \in Ids \ {d} : directives'[e] = directives[e]
      BY <1>6, StatusChange DEF CancelDirective, DirectivesTypeOK, Statuses, Final
    <2>2. Reported' = Reported /\ UNCHANGED stranded
      BY <1>6 DEF CancelDirective, Reported
    <2>3. QED
      BY <1>2, <2>1, <2>2 DEF Answered, Outcomes
  <1>7. QED
    BY <1>3, <1>4, <1>5, <1>6 DEF Server

LEMMA LoopKeepsShots ==
  ASSUME DirectivesTypeOK, Wants, OnceInv, ShotInv, NEW w \in Workers, Loop(w), [Next]_vars
  PROVE  ShotInv'
  <1>0. stranded \cap Pending' \subseteq Pending
    BY TakenForGood DEF DirectivesTypeOK
  <1>1. ASSUME UNCHANGED stranded, Begun' = Begun, UNCHANGED lanes,
               \A d \in Ids' : Answered(d)' => d \in Ids /\ Answered(d),
               \A v \in Workers : stranded \cap Granted(v)' \subseteq Granted(v)
        PROVE  ShotInv'
    <2> DEFINE S == {}
    <2>1. stranded' = stranded \cup S /\ \A d \in S : FALSE
      BY <1>1
    <2>2. \A v \in Workers :
            /\ turns'[v] \subseteq turns[v]
            /\ \A d \in turns'[v] : d \in reporting[v] => d \in reporting'[v]
            /\ stranded \cap Granted(v)' \subseteq Granted(v)
      BY <1>1 DEF lanes
    <2> HIDE DEF S
    <2>3. QED
      BY <1>0, <1>1, <2>1, <2>2, KeepsShots
  <1>2. ASSUME UNCHANGED <<directives, reports>>
        PROVE  Ids' = Ids /\ \A d \in Ids : Answered(d)' <=> Answered(d)
    BY <1>2 DEF Answered, Reported, Ids
  <1>3. CASE ClaimDirective(w)
    <2>1. /\ wanted[w] \in Ids /\ Reported' = Reported /\ Begun' = Begun
          /\ UNCHANGED <<stranded, lanes, wanted>>
      BY <1>3 DEF ClaimDirective, Wants, Reported, Begun
    <2>2. \A v \in Workers : stranded \cap Granted(v)' \subseteq Granted(v)
      BY <1>3, <2>1 DEF ClaimDirective, Granted, DirectivesTypeOK, ShotInv, LostIsLost
    <2>3. \A d \in Ids' : Answered(d)' => d \in Ids /\ Answered(d)
      <3>1. CASE UNCHANGED directives
        BY <2>1, <3>1 DEF Answered, Ids
      <3>2. CASE SetStatus(wanted[w], "running")
        <4>1. /\ Ids' = Ids /\ directives'[wanted[w]].status = "running"
              /\ \A e \in Ids \ {wanted[w]} : directives'[e] = directives[e]
          BY <2>1, <3>2, StatusChange DEF DirectivesTypeOK, Statuses
        <4>2. QED
          BY <2>1, <4>1 DEF Answered, Outcomes
      <3>3. QED
        BY <1>3, <3>1, <3>2 DEF ClaimDirective
    <2>4. QED
      BY <1>1, <2>1, <2>2, <2>3
  <1>4. CASE Start(w)
    <2> DEFINE d == wanted[w]
    <2>1. d \in Ids /\ d \notin Begun /\ d \notin stranded
      BY <1>4 DEF Start, Wants, OnceInv, GrantsAreTaken, Granted, ShotInv, LostIsLost
    <2>2. \A v \in Workers : d \notin turns[v]
      BY <2>1 DEF OnceInv, TurnsHaveBegun
    <2>3. UNCHANGED <<stranded, reporting>> /\ Pending' = Pending
          /\ Ids' = Ids /\ \A e \in Ids : Answered(e)' <=> Answered(e)
      BY <1>2, <1>4 DEF Start, server, Pending, Ids
    <2>4. /\ turns'[w] = turns[w] \cup {d}
          /\ \A v \in Workers \ {w} : turns'[v] = turns[v]
          /\ \A v \in Workers : Granted(v)' \subseteq Granted(v)
      BY <1>4 DEF Start, Return, Granted, DirectivesTypeOK
    <2>5. Begun' = Begun \cup {d}
      BY <1>4, StartBegins
    <2>6. ~Answered(d)
      BY <2>1 DEF ShotInv, AnswersAreEarned
    <2>7. TurnsAreSingle'
      BY <2>2, <2>4 DEF ShotInv, TurnsAreSingle
    <2>8. AnswersAreEarned'
      BY <2>3, <2>4, <2>5, <2>6 DEF ShotInv, AnswersAreEarned
    <2>9. LostIsLost'
      BY <2>1, <2>3, <2>4 DEF ShotInv, LostIsLost
    <2>10. QED
      BY <2>7, <2>8, <2>9 DEF ShotInv
  <1>5. CASE ClaimTimesOut(w)
    <2> DEFINE S == Granted(w)
    <2>1. /\ stranded' = stranded \cup S /\ Begun' = Begun /\ UNCHANGED lanes
          /\ UNCHANGED <<directives, reports>>
      BY <1>5 DEF ClaimTimesOut, Begun
    <2>2. \A v \in Workers : Granted(v)' = IF v = w THEN {} ELSE Granted(v)
      BY <1>5 DEF ClaimTimesOut, Return, Granted, DirectivesTypeOK
    <2>3. \A v \in Workers :
            /\ turns'[v] \subseteq turns[v]
            /\ \A d \in turns'[v] : d \in reporting[v] => d \in reporting'[v]
            /\ stranded \cap Granted(v)' \subseteq Granted(v)
      BY <2>1, <2>2 DEF lanes
    <2>4. \A d \in S : d \in Ids /\ d \notin Begun /\ d \notin Pending
      BY DEF Wants, Granted, OnceInv, GrantsAreTaken
    <2>5. ASSUME NEW d \in S
          PROVE  /\ ~Answered(d) /\ d \notin Pending'
                 /\ \A v \in Workers : d \notin turns'[v] \cup Granted(v)'
      <3>1. ~Answered(d)
        BY <2>4 DEF ShotInv, AnswersAreEarned
      <3>2. d \notin Pending'
        BY <2>1, <2>4 DEF Pending, Ids
      <3>3. \A v \in Workers : d \notin turns'[v]
        BY <2>1, <2>4 DEF OnceInv, TurnsHaveBegun, lanes
      <3>4. \A v \in Workers : d \notin Granted(v)'
        BY <2>2 DEF Granted, OnceInv, GrantedOnce
      <3>5. QED
        BY <3>1, <3>2, <3>3, <3>4
    <2>6. \A d \in Ids' : Answered(d)' => d \in Ids /\ Answered(d)
      BY <1>2, <2>1
    <2> HIDE DEF S
    <2>7. QED
      BY <1>0, <2>1, <2>3, <2>5, <2>6, KeepsShots
  <1>6. CASE Poll(w) \/ PassOver(w) \/ Pick(w) \/ GiveUp(w)
    <2>1. /\ UNCHANGED <<directives, reports, stranded, lanes>> /\ Begun' = Begun
      BY <1>6 DEF Poll, PassOver, Pick, GiveUp, server, Begun
    <2>2. \A v \in Workers : Granted(v)' \subseteq Granted(v)
      BY <1>6 DEF Poll, PassOver, Pick, Looking, GiveUp, Return, Granted, DirectivesTypeOK
    <2>3. \A d \in Ids' : Answered(d)' => d \in Ids /\ Answered(d)
      BY <1>2, <2>1
    <2>4. QED
      BY <1>1, <2>1, <2>2, <2>3
  <1>7. QED
    BY <1>3, <1>4, <1>5, <1>6 DEF Loop

LEMMA TurnKeepsShots ==
  ASSUME DirectivesTypeOK, Wants, OnceInv, ShotInv, NEW w \in Workers,
         Finish(w) \/ Free(w) \/ Crash(w)
  PROVE  ShotInv'
  <1>0. UNCHANGED directives /\ Begun' = Begun /\ Pending' = Pending /\ Ids' = Ids
    BY DEF Finish, Free, Crash, SendReport, TurnFails, EndTurn, server, Begun, Pending, Ids
  (* The directives S are lost. *)
  <1>1. ASSUME NEW S, S \subseteq Owes(w), stranded' = stranded \cup S, UNCHANGED reports,
               \A v \in Workers :
                 /\ turns'[v] \subseteq turns[v]
                 /\ \A d \in turns'[v] : d \in reporting[v] => d \in reporting'[v]
                 /\ Granted(v)' \subseteq Granted(v),
               \A d \in S : d \notin turns'[w] \cup Granted(w)'
        PROVE  ShotInv'
    <2>1. \A d \in Ids' : Answered(d)' => d \in Ids /\ Answered(d)
      BY <1>0, <1>1 DEF Answered, Reported
    <2>2. ASSUME NEW d \in S
          PROVE  /\ ~Answered(d) /\ d \notin Pending'
                 /\ \A v \in Workers : d \notin turns'[v] \cup Granted(v)'
      <3>1. CASE d \in turns[w] \ reporting[w]
        <4>1. d \in Ids /\ d \in Begun
          BY <3>1 DEF DirectivesTypeOK, OnceInv, TurnsHaveBegun
        <4>2. ~Answered(d)
          BY <3>1, <4>1 DEF ShotInv, AnswersAreEarned
        <4>3. d \notin Pending'
          BY <1>0, <4>1 DEF OnceInv, StartsAreTaken
        <4>4. \A v \in Workers : d \notin Granted(v)
          BY <4>1 DEF OnceInv, GrantsAreTaken, Granted
        <4>5. \A v \in Workers \ {w} : d \notin turns[v]
          BY <3>1 DEF ShotInv, TurnsAreSingle
        <4>6. QED
          BY <1>1, <4>2, <4>3, <4>4, <4>5
      <3>2. CASE d \in Granted(w)
        <4>1. d \in Ids /\ d \notin Begun /\ d \notin Pending
          BY <3>2 DEF Wants, Granted, OnceInv, GrantsAreTaken
        <4>2. ~Answered(d) /\ d \notin Pending'
          BY <1>0, <4>1 DEF ShotInv, AnswersAreEarned
        <4>3. \A v \in Workers : d \notin turns[v]
          BY <4>1 DEF OnceInv, TurnsHaveBegun
        <4>4. \A v \in Workers \ {w} : d \notin Granted(v)
          BY <3>2 DEF Granted, OnceInv, GrantedOnce
        <4>5. QED
          BY <1>1, <4>2, <4>3, <4>4
      <3>3. QED
        BY <1>1, <3>1, <3>2 DEF Owes
    <2>3. QED
      BY <1>0, <1>1, <2>1, <2>2, KeepsShots
  <1>2. ASSUME NEW d \in turns[w], NEW o \in Outcomes, SendReport(w, d, o)
        PROVE  ShotInv'
    <2>1. /\ d \in Ids /\ d \in Begun /\ d \notin stranded
          /\ \A v \in Workers \ {w} : d \notin turns[v]
      BY DEF DirectivesTypeOK, OnceInv, TurnsHaveBegun, ShotInv, LostIsLost, TurnsAreSingle
    <2>2. /\ UNCHANGED <<turns, stranded>> /\ d \in reporting'[w]
          /\ \A v \in Workers : reporting[v] \subseteq reporting'[v] /\ Granted(v)' = Granted(v)
      BY <1>2 DEF SendReport, loop, Granted, DirectivesTypeOK
    <2>3. Reported' \subseteq Reported \cup {d}
      BY <1>2 DEF SendReport, Reported
    <2>4. \A e \in Ids : Answered(e)' => Answered(e) \/ e = d
      BY <1>0, <2>3 DEF Answered
    <2>5. AnswersAreEarned'
      BY <1>0, <2>1, <2>2, <2>4 DEF ShotInv, AnswersAreEarned
    <2>6. TurnsAreSingle' /\ LostIsLost'
      BY <1>0, <2>2 DEF ShotInv, TurnsAreSingle, LostIsLost
    <2>7. QED
      BY <2>5, <2>6 DEF ShotInv
  <1>3. ASSUME NEW d \in turns[w], TurnFails(w, d)
        PROVE  ShotInv'
    <2> DEFINE S == {d}
    <2>1. S \subseteq Owes(w) /\ stranded' = stranded \cup S /\ UNCHANGED reports
      BY <1>3 DEF TurnFails, Owes, server
    <2>2. \A v \in Workers :
            /\ turns'[v] \subseteq turns[v]
            /\ \A e \in turns'[v] : e \in reporting[v] => e \in reporting'[v]
            /\ Granted(v)' \subseteq Granted(v)
      BY <1>3 DEF TurnFails, loop, Granted, DirectivesTypeOK
    <2>3. d \notin turns'[w]
      BY <1>3 DEF TurnFails, DirectivesTypeOK
    <2>4. d \notin Granted(w)'
      BY <1>3 DEF TurnFails, loop, Granted, OnceInv, TurnsHaveBegun, GrantsAreTaken
    <2>5. \A e \in S : e \notin turns'[w] \cup Granted(w)'
      BY <2>3, <2>4
    <2> HIDE DEF S
    <2>6. QED
      BY <1>1, <2>1, <2>2, <2>5
  <1>4. ASSUME NEW d \in reporting[w], EndTurn(w, d)
        PROVE  ShotInv'
    <2> DEFINE S == {}
    <2>1. S \subseteq Owes(w) /\ stranded' = stranded \cup S /\ UNCHANGED reports
      BY <1>4 DEF EndTurn, server
    <2>2. \A v \in Workers :
            /\ turns'[v] \subseteq turns[v]
            /\ \A e \in turns'[v] : e \in reporting[v] => e \in reporting'[v]
            /\ Granted(v)' \subseteq Granted(v)
      BY <1>4 DEF EndTurn, loop, Granted, DirectivesTypeOK
    <2>3. \A e \in S : e \notin turns'[w] \cup Granted(w)'
      OBVIOUS
    <2> HIDE DEF S
    <2>4. QED
      BY <1>1, <2>1, <2>2, <2>3
  <1>5. CASE Crash(w)
    <2>1. Owes(w) \subseteq Owes(w) /\ stranded' = stranded \cup Owes(w) /\ UNCHANGED reports
      BY <1>5 DEF Crash, Owes
    <2>2. \A v \in Workers :
            /\ turns'[v] \subseteq turns[v]
            /\ \A e \in turns'[v] : e \in reporting[v] => e \in reporting'[v]
            /\ Granted(v)' \subseteq Granted(v)
      BY <1>5 DEF Crash, Return, Granted, DirectivesTypeOK
    <2>3. \A e \in Owes(w) : e \notin turns'[w] \cup Granted(w)'
      BY <1>5 DEF Crash, Return, Granted, DirectivesTypeOK
    <2>4. QED
      BY <1>1, <2>1, <2>2, <2>3
  <1>6. QED
    BY <1>2, <1>3, <1>4, <1>5 DEF Finish, Free

LEMMA NextKeepsShots ==
  ASSUME DirectivesTypeOK, Wants, OnceInv, ShotInv, [Next]_vars
  PROVE  ShotInv'
  <1>1. CASE Next
    BY <1>1, ServerKeepsShots, LoopKeepsShots, TurnKeepsShots DEF Next
  <1>2. CASE UNCHANGED vars
    BY <1>2 DEF vars, server, loop, lanes, ShotInv, TurnsAreSingle, AnswersAreEarned, LostIsLost,
                Answered, Reported, Begun, Pending, Ids, Granted
  <1>3. QED
    BY <1>1, <1>2

(* There is no result, nor a report under way, of a directive whose turn    *)
(* never began or was lost before it reported: whatever the console is told *)
(* is the outcome of the one turn that ran.                                 *)
THEOREM EarnedAnswers == Spec => []AnswersAreEarned
  <1>1. Init => ShotInv
    BY DEF Init, ShotInv, TurnsAreSingle, AnswersAreEarned, LostIsLost, Ids
  <1>2. DInv /\ ShotInv /\ [Next]_vars => ShotInv'
    BY NextKeepsShots DEF DInv
  <1>3. ShotInv => AnswersAreEarned
    BY DEF ShotInv
  <1>4. QED
    BY <1>1, <1>2, <1>3, DInvariant, PTL DEF Spec

------------------------------------------------------------------------------
(* The refinement: every step is a step or a stutter of each single shot.   *)

Stat(d) == IF d \in Ids THEN directives[d].status ELSE "absent"
HeldByOne(d) == \E w \in Workers : d \in Granted(w)

ShotStep(d) == [Shot(d)!Next]_(Shot(d)!shot)

(* The actions of the abstract specification under the mapping. *)
LEMMA ShotSteps ==
  ASSUME NEW d
  PROVE  /\ Stat(d) = "absent" /\ Stat(d)' = "pending"
            /\ Executor(d)' = Executor(d) /\ Executions(d)' = Executions(d) => ShotStep(d)
         /\ Stat(d) = "pending" /\ Executor(d) = "nobody" /\ Stat(d)' = "running"
            /\ Executor(d)' \in {"chosen", "lost"} /\ Executions(d)' = Executions(d) => ShotStep(d)
         /\ Executor(d) = "chosen" /\ Executor(d)' = "at work"
            /\ (\E i \in Executions(d)' : Executions(d)' = {i}) /\ Stat(d)' = Stat(d) => ShotStep(d)
         /\ Executor(d) \in {"chosen", "at work"} /\ Stat(d) \notin Outcomes
            /\ Executor(d)' = "lost" /\ Stat(d)' = Stat(d) /\ Executions(d)' = Executions(d)
              => ShotStep(d)
         /\ Stat(d) = "running" /\ Executor(d) = "at work" /\ Stat(d)' \in Outcomes
            /\ Executor(d)' = Executor(d) /\ Executions(d)' = Executions(d) => ShotStep(d)
         /\ Stat(d) \in {"pending", "running"} /\ Stat(d)' = "canceled"
            /\ Executor(d)' = Executor(d) /\ Executions(d)' = Executions(d) => ShotStep(d)
         /\ Stat(d)' = Stat(d) /\ Executor(d)' = Executor(d) /\ Executions(d)' = Executions(d)
              => ShotStep(d)
  BY DEF ShotStep, Shot!Next, Shot!Send, Shot!Grant, Shot!Begin, Shot!Lose, Shot!Answer,
         Shot!Cancel, Shot!shot, Shot!Answers, Stat, Outcomes

ExecutorOf(d, S, B, held) ==
  IF d \in S THEN "lost" ELSE IF d \in B THEN "at work" ELSE IF held THEN "chosen" ELSE "nobody"

LEMMA ExecutorIs ==
  ASSUME NEW d
  PROVE  /\ Executions(d) # {} <=> d \in Begun
         /\ Executor(d) = ExecutorOf(d, stranded, Begun, HeldByOne(d))
         /\ Executor(d)' = ExecutorOf(d, stranded', Begun', HeldByOne(d)')
  <1>1. Executions(d) # {} <=> d \in Begun
    BY DEF Executions, Begun
  <1>2. (Executions(d) # {} <=> d \in Begun)'
    BY DEF Executions, Begun
  <1>3. QED
    BY <1>1, <1>2 DEF Executor, HeldByOne, ExecutorOf

(* A step that does not touch who has d. *)
LEMMA SameExecutor ==
  ASSUME NEW d, UNCHANGED starts, d \in stranded' <=> d \in stranded,
         HeldByOne(d)' <=> HeldByOne(d)
  PROVE  Executor(d)' = Executor(d) /\ Executions(d)' = Executions(d)
  <1>1. Begun' = Begun /\ Executions(d)' = Executions(d)
    BY DEF Begun, Executions
  <1>2. QED
    BY <1>1, ExecutorIs DEF ExecutorOf

LEMMA Untouched ==
  ASSUME NEW d, Stat(d)' = Stat(d), UNCHANGED starts, d \in stranded' <=> d \in stranded,
         HeldByOne(d)' <=> HeldByOne(d)
  PROVE  ShotStep(d)
  BY SameExecutor, ShotSteps

LEMMA ShotInitially ==
  ASSUME NEW d, Init
  PROVE  Shot(d)!Init
  BY DEF Init, Shot!Init, Executor, Executions, Ids, Granted

(* The change of one status, seen from every directive. *)
LEMMA StatChange ==
  ASSUME directives \in Seq(Rows), NEW d \in Ids, NEW s \in Statuses, SetStatus(d, s)
  PROVE  Stat(d)' = s /\ \A e : e # d => Stat(e)' = Stat(e)
  BY StatusChange DEF Stat

LEMMA StatIs ==
  ASSUME DirectivesTypeOK, NEW d \in Ids
  PROVE  Stat(d) = directives[d].status /\ Stat(d) \in Statuses
  <1>1. directives[d] \in Rows
    BY DEF DirectivesTypeOK, Ids
  <1>2. QED
    BY <1>1 DEF Stat, Rows

(* A grant finds its directive with nobody. *)
LEMMA PendingIsFree ==
  ASSUME OnceInv, ShotInv, NEW d \in Pending
  PROVE  Stat(d) = "pending" /\ Executor(d) = "nobody" /\ d \notin stranded \cup Begun
  <1>1. d \notin stranded /\ d \notin Begun
    BY DEF ShotInv, LostIsLost, OnceInv, StartsAreTaken
  <1>2. ~HeldByOne(d)
    BY DEF HeldByOne, Granted, OnceInv, GrantsAreTaken
  <1>3. QED
    BY <1>1, <1>2, ExecutorIs DEF ExecutorOf, Stat, Pending

(* What a worker loses without having reported it. *)
LEMMA LostShot ==
  ASSUME DirectivesTypeOK, Wants, OnceInv, ShotInv, NEW w \in Workers, NEW d \in Owes(w),
         d \in stranded', UNCHANGED <<directives, starts>>
  PROVE  ShotStep(d)
  <1>1. Stat(d)' = Stat(d) /\ Executions(d)' = Executions(d) /\ Executor(d)' = "lost"
    BY ExecutorIs DEF Stat, Ids, Executions, ExecutorOf
  <1>2. d \in Ids /\ d \notin stranded
    BY DEF Owes, Granted, Wants, DirectivesTypeOK, ShotInv, LostIsLost
  <1>3. Executor(d) \in {"chosen", "at work"}
    BY <1>2, ExecutorIs DEF ExecutorOf, HeldByOne, Owes, OnceInv, TurnsHaveBegun
  <1>4. ~Answered(d)
    BY <1>2 DEF Owes, Granted, ShotInv, AnswersAreEarned, OnceInv, GrantsAreTaken
  <1>5. Stat(d) \notin Outcomes
    BY <1>2, <1>4, StatIs DEF Answered
  <1>6. QED
    BY <1>1, <1>3, <1>5, ShotSteps

LEMMA ServerShots ==
  ASSUME DirectivesTypeOK, Wants, OnceInv, ShotInv, Server, NEW d
  PROVE  ShotStep(d)
  <1>0. UNCHANGED starts /\ (HeldByOne(d)' <=> HeldByOne(d)) /\ Executions(d)' = Executions(d)
    BY DEF Server, SendDirective, LateClaim, ReportDirective, CancelDirective, loop, HeldByOne,
           Granted, Executions
  <1>1. CASE SendDirective
    <2>1. UNCHANGED stranded
      BY <1>1 DEF SendDirective
    <2>2. \A e \in Ids : Stat(e)' = Stat(e)
      BY <1>1, Sent DEF DirectivesTypeOK, Stat
    <2>3. \A e : e \notin Ids => Stat(e)' \in {Stat(e), "pending"} /\ Stat(e) = "absent"
      BY <1>1 DEF SendDirective, Ids, DirectivesTypeOK, Stat
    <2>4. CASE Stat(d)' = Stat(d)
      BY <1>0, <2>1, <2>4, Untouched
    <2>5. CASE Stat(d)' # Stat(d)
      BY <1>0, <2>1, <2>2, <2>3, <2>5, SameExecutor, ShotSteps
    <2>6. QED
      BY <2>4, <2>5
  <1>2. ASSUME NEW e \in lateClaims, LateClaim(e)
        PROVE  ShotStep(d)
    <2>1. CASE e \in Pending /\ SetStatus(e, "running") /\ stranded' = stranded \cup {e}
      <3>1. Stat(e)' = "running" /\ \A f : f # e => Stat(f)' = Stat(f)
        BY <2>1, StatChange DEF DirectivesTypeOK, Statuses
      <3>2. CASE d = e
        <4>1. Stat(d) = "pending" /\ Executor(d) = "nobody"
          BY <2>1, <3>2, PendingIsFree
        <4>2. Executor(d)' = "lost"
          BY <2>1, <3>2, ExecutorIs DEF ExecutorOf
        <4>3. QED
          BY <1>0, <3>1, <3>2, <4>1, <4>2, ShotSteps
      <3>3. CASE d # e
        BY <1>0, <2>1, <3>1, <3>3, Untouched
      <3>4. QED
        BY <3>2, <3>3
    <2>2. CASE UNCHANGED <<directives, stranded>>
      BY <1>0, <2>2, Untouched DEF Stat, Ids
    <2>3. QED
      BY <1>2, <2>1, <2>2 DEF LateClaim
  <1>3. ASSUME NEW r \in reports, ReportDirective(r)
        PROVE  ShotStep(d)
    <2>1. /\ r.directive \in Ids /\ r.outcome \in Outcomes /\ r.outcome \in Statuses
          /\ UNCHANGED stranded
      BY <1>3 DEF ReportDirective, DirectivesTypeOK, Statuses, Final
    <2>2. CASE Open(r.directive) /\ SetStatus(r.directive, r.outcome)
      <3>1. Stat(r.directive)' = r.outcome /\ \A f : f # r.directive => Stat(f)' = Stat(f)
        BY <2>1, <2>2, StatChange DEF DirectivesTypeOK
      <3>2. CASE d = r.directive
        <4>1. Answered(d)
          BY <3>2 DEF Answered, Reported
        <4>2. d \in Begun /\ d \notin stranded
          BY <2>1, <3>2, <4>1 DEF ShotInv, AnswersAreEarned
        <4>3. Executor(d) = "at work"
          BY <4>2, ExecutorIs DEF ExecutorOf
        <4>4. Stat(d) \in Statuses /\ Stat(d) # "pending" /\ Stat(d) \notin Final
          BY <2>1, <2>2, <3>2, <4>2, StatIs DEF OnceInv, StartsAreTaken, Pending, Open
        <4>5. Stat(d) = "running"
          BY <4>4 DEF Statuses
        <4>6. QED
          BY <1>0, <2>1, <3>1, <3>2, <4>3, <4>5, SameExecutor, ShotSteps
      <3>3. CASE d # r.directive
        BY <1>0, <2>1, <3>1, <3>3, Untouched
      <3>4. QED
        BY <3>2, <3>3
    <2>3. CASE UNCHANGED directives
      BY <1>0, <2>1, <2>3, Untouched DEF Stat, Ids
    <2>4. QED
      BY <1>3, <2>2, <2>3 DEF ReportDirective
  <1>4. ASSUME NEW e \in Ids, CancelDirective(e)
        PROVE  ShotStep(d)
    <2>1. SetStatus(e, "canceled") /\ UNCHANGED stranded /\ Open(e)
      BY <1>4 DEF CancelDirective
    <2>2. Stat(e)' = "canceled" /\ \A f : f # e => Stat(f)' = Stat(f)
      BY <2>1, StatChange DEF DirectivesTypeOK, Statuses, Final
    <2>3. Stat(e) \in Statuses \ Final
      BY <2>1, StatIs DEF Open
    <2>4. CASE d = e
      BY <1>0, <2>1, <2>2, <2>3, <2>4, SameExecutor, ShotSteps DEF Statuses
    <2>5. CASE d # e
      BY <1>0, <2>1, <2>2, <2>5, Untouched
    <2>6. QED
      BY <2>4, <2>5
  <1>5. QED
    BY <1>1, <1>2, <1>3, <1>4 DEF Server

LEMMA LoopShots ==
  ASSUME DirectivesTypeOK, Wants, OnceInv, ShotInv, NEW w \in Workers, Loop(w), NEW d
  PROVE  ShotStep(d)
  <1>1. CASE ClaimDirective(w)
    <2> DEFINE e == wanted[w]
    <2>1. /\ e \in Ids /\ UNCHANGED <<starts, stranded, wanted>>
          /\ Executions(d)' = Executions(d) /\ Begun' = Begun
      BY <1>1 DEF ClaimDirective, Wants, Executions, Begun
    <2>2. CASE e \in Pending /\ SetStatus(e, "running") /\ pc' = [pc EXCEPT ![w] = "granted"]
      <3>1. Stat(e)' = "running" /\ \A f : f # e => Stat(f)' = Stat(f)
        BY <2>1, <2>2, StatChange DEF DirectivesTypeOK, Statuses
      <3>2. \A v \in Workers : Granted(v)' = IF v = w THEN {e} ELSE Granted(v)
        BY <2>1, <2>2 DEF Granted, DirectivesTypeOK
      <3>3. Granted(w) = {}
        BY <1>1 DEF ClaimDirective, Granted
      <3>4. CASE d = e
        <4>1. Stat(d) = "pending" /\ Executor(d) = "nobody" /\ d \notin stranded \cup Begun
          BY <2>2, <3>4, PendingIsFree
        <4>2. HeldByOne(d)'
          BY <3>2, <3>4 DEF HeldByOne
        <4>3. Executor(d)' = "chosen"
          BY <2>1, <4>1, <4>2, ExecutorIs DEF ExecutorOf
        <4>4. QED
          BY <2>1, <3>1, <3>4, <4>1, <4>3, ShotSteps
      <3>5. CASE d # e
        <4>1. HeldByOne(d)' <=> HeldByOne(d)
          BY <3>2, <3>3, <3>5 DEF HeldByOne
        <4>2. QED
          BY <2>1, <3>1, <3>5, <4>1, Untouched
      <3>6. QED
        BY <3>4, <3>5
    <2>3. CASE UNCHANGED directives /\ pc' = [pc EXCEPT ![w] = "refused"]
      <3>1. \A v \in Workers : Granted(v)' = Granted(v)
        BY <1>1, <2>1, <2>3 DEF ClaimDirective, Granted, DirectivesTypeOK
      <3>2. (HeldByOne(d)' <=> HeldByOne(d)) /\ Stat(d)' = Stat(d)
        BY <2>3, <3>1 DEF HeldByOne, Stat, Ids
      <3>3. QED
        BY <2>1, <3>2, Untouched
    <2>4. QED
      BY <1>1, <2>2, <2>3 DEF ClaimDirective
  <1>2. CASE Start(w)
    <2> DEFINE e == wanted[w]
    <2>1. /\ Granted(w) = {e} /\ e \notin Begun /\ e \notin stranded
          /\ UNCHANGED <<directives, stranded>>
      BY <1>2 DEF Start, Granted, OnceInv, GrantsAreTaken, ShotInv, LostIsLost, server
    <2>2. Begun' = Begun \cup {e}
      BY <1>2, StartBegins
    <2>3. \A v \in Workers : Granted(v)' = IF v = w THEN {} ELSE Granted(v)
      BY <1>2 DEF Start, Return, Granted, DirectivesTypeOK
    <2>4. Stat(d)' = Stat(d)
      BY <2>1 DEF Stat, Ids
    <2>5. CASE d = e
      <3>1. Executor(d) = "chosen" /\ Executor(d)' = "at work"
        BY <2>1, <2>2, <2>5, ExecutorIs DEF ExecutorOf, HeldByOne
      <3>2. Executions(d)' = {Len(starts) + 1}
        <4>1. \A i \in DOMAIN starts : starts[i] # d
          BY <2>1, <2>5 DEF Begun
        <4>2. QED
          BY <1>2, <2>5, <4>1, StartBegins DEF Executions
      <3>3. \E i \in Executions(d)' : Executions(d)' = {i}
        BY <3>2
      <3>4. QED
        BY <2>4, <3>1, <3>3, ShotSteps
    <2>6. CASE d # e
      <3>1. HeldByOne(d)' <=> HeldByOne(d)
        BY <2>1, <2>3, <2>6 DEF HeldByOne
      <3>2. Executor(d)' = Executor(d)
        BY <2>1, <2>2, <2>6, <3>1, ExecutorIs DEF ExecutorOf
      <3>3. Executions(d)' = Executions(d)
        BY <1>2, <2>6, StartBegins DEF Executions
      <3>4. QED
        BY <2>4, <3>2, <3>3, ShotSteps
    <2>7. QED
      BY <2>5, <2>6
  <1>3. CASE ClaimTimesOut(w)
    <2>1. /\ stranded' = stranded \cup Granted(w) /\ UNCHANGED <<directives, starts>>
          /\ Stat(d)' = Stat(d) /\ Executions(d)' = Executions(d)
      BY <1>3 DEF ClaimTimesOut, Stat, Ids, Executions
    <2>2. \A v \in Workers : Granted(v)' = IF v = w THEN {} ELSE Granted(v)
      BY <1>3 DEF ClaimTimesOut, Return, Granted, DirectivesTypeOK
    <2>3. CASE d \in Granted(w)
      <3>1. d \in Owes(w) /\ d \in stranded'
        BY <2>1, <2>3 DEF Owes
      <3>2. QED
        BY <2>1, <3>1, LostShot
    <2>4. CASE d \notin Granted(w)
      <3>1. HeldByOne(d)' <=> HeldByOne(d)
        BY <2>2, <2>4 DEF HeldByOne
      <3>2. QED
        BY <2>1, <2>4, <3>1, Untouched
    <2>5. QED
      BY <2>3, <2>4
  <1>4. CASE Poll(w) \/ PassOver(w) \/ Pick(w) \/ GiveUp(w)
    <2>1. UNCHANGED <<directives, starts, stranded>> /\ Stat(d)' = Stat(d)
      BY <1>4 DEF Poll, PassOver, Pick, GiveUp, server, Stat, Ids
    <2>2. \A v \in Workers : Granted(v)' = Granted(v)
      BY <1>4 DEF Poll, PassOver, Pick, Looking, GiveUp, Return, Granted, DirectivesTypeOK
    <2>3. HeldByOne(d)' <=> HeldByOne(d)
      BY <2>2 DEF HeldByOne
    <2>4. QED
      BY <2>1, <2>3, Untouched
  <1>5. QED
    BY <1>1, <1>2, <1>3, <1>4 DEF Loop

LEMMA TurnShots ==
  ASSUME DirectivesTypeOK, Wants, OnceInv, ShotInv, NEW w \in Workers,
         Finish(w) \/ Free(w) \/ Crash(w), NEW d
  PROVE  ShotStep(d)
  <1>0. UNCHANGED <<directives, starts>> /\ Stat(d)' = Stat(d)
    BY DEF Finish, Free, Crash, SendReport, TurnFails, EndTurn, server, Stat, Ids
  <1>1. CASE UNCHANGED <<loop, stranded>>
    <2>1. HeldByOne(d)' <=> HeldByOne(d)
      BY <1>1 DEF loop, HeldByOne, Granted
    <2>2. QED
      BY <1>0, <1>1, <2>1, Untouched
  <1>2. ASSUME NEW e \in turns[w], TurnFails(w, e)
        PROVE  ShotStep(d)
    <2>1. e \in Owes(w) /\ stranded' = stranded \cup {e} /\ UNCHANGED loop
      BY <1>2 DEF TurnFails, Owes
    <2>2. HeldByOne(d)' <=> HeldByOne(d)
      BY <2>1 DEF loop, HeldByOne, Granted
    <2>3. CASE d = e
      BY <1>0, <2>1, <2>3, LostShot
    <2>4. CASE d # e
      BY <1>0, <2>1, <2>2, <2>4, Untouched
    <2>5. QED
      BY <2>3, <2>4
  <1>3. CASE Crash(w)
    <2>1. stranded' = stranded \cup Owes(w)
      BY <1>3 DEF Crash, Owes
    <2>2. \A v \in Workers : Granted(v)' = IF v = w THEN {} ELSE Granted(v)
      BY <1>3 DEF Crash, Return, Granted, DirectivesTypeOK
    <2>3. CASE d \in Owes(w)
      BY <1>0, <2>1, <2>3, LostShot
    <2>4. CASE d \notin Owes(w)
      <3>1. HeldByOne(d)' <=> HeldByOne(d)
        BY <2>2, <2>4 DEF HeldByOne, Owes
      <3>2. QED
        BY <1>0, <2>1, <2>4, <3>1, Untouched
    <2>5. QED
      BY <2>3, <2>4
  <1>4. QED
    BY <1>1, <1>2, <1>3 DEF Finish, Free, SendReport, EndTurn, server

LEMMA NextShots ==
  ASSUME DirectivesTypeOK, Wants, OnceInv, ShotInv, [Next]_vars, NEW d
  PROVE  ShotStep(d)
  <1>1. CASE Next
    BY <1>1, ServerShots, LoopShots, TurnShots DEF Next
  <1>2. CASE UNCHANGED vars
    <2>1. UNCHANGED <<starts, stranded>> /\ Stat(d)' = Stat(d)
      BY <1>2 DEF vars, server, Stat, Ids
    <2>2. HeldByOne(d)' <=> HeldByOne(d)
      BY <1>2 DEF vars, loop, HeldByOne, Granted
    <2>3. QED
      BY <2>1, <2>2, Untouched
  <1>3. QED
    BY <1>1, <1>2

(* The bus and its workers implement a single shot for each directive: for  *)
(* any number of workers, however their claims and reports race, get lost   *)
(* or come late, a directive is handed out once, run at most once, and      *)
(* answered only by the run that is not lost.                               *)
THEOREM BusIsOneShot == Spec => ImplementsOneShot
  <1>1. Init => ShotInv /\ \A d \in 1..MaxDirectives : Shot(d)!Init
    BY ShotInitially DEF Init, ShotInv, TurnsAreSingle, AnswersAreEarned, LostIsLost, Ids
  <1>2. DInv /\ ShotInv /\ [Next]_vars
        => ShotInv' /\ [\A d \in 1..MaxDirectives : [Shot(d)!Next]_(Shot(d)!shot)]_vars
    BY NextKeepsShots, NextShots DEF DInv, ShotStep
  <1>3. QED
    BY <1>1, <1>2, DInvariant, PTL DEF Spec, ImplementsOneShot
==============================================================================
