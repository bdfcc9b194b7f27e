-------------------------- MODULE Membership_proofs --------------------------
(***************************************************************************)
(* Theorems about Membership, for any sessions, agents and names and any   *)
(* number of calls at once.                                                *)
(***************************************************************************)
EXTENDS Membership, TLAPS

(* Types are kept only together with this: a call that asks for its        *)
(* session's agent has a session.                                          *)
AskingHasSession == \A c \in Slots : calls[c].at = "asking" => calls[c].session \in Sessions

TypeInv == MembershipTypeOK /\ AskingHasSession

(* A call under way. *)
CallType == [kind : Kinds, session : Sessions \cup {None}, name : Names \cup {None},
             agent : Agents \cup {None}, now : Times, at : Places, clean : BOOLEAN]

------------------------------------------------------------------------------
(* What a step makes of the call in its slot stays a call. *)
LEMMA IdleIsCall == Idle \in CallType
  BY MembershipAssumption DEF Idle, CallType, Kinds, Places, Times

LEMMA PlaceType ==
  ASSUME calls \in [Slots -> CallType], NEW c \in Slots, NEW call \in CallType, Place(c, call)
  PROVE  calls' \in [Slots -> CallType]
  BY DEF Place, CallType

LEMMA MovesType ==
  ASSUME calls \in [Slots -> CallType], NEW c \in Slots, NEW from, NEW to \in Places,
         Moves(c, from, to) \/ Slips(c, from, to) \/ Ends(c, from)
  PROVE  calls' \in [Slots -> CallType]
<1>1. CASE Moves(c, from, to) BY <1>1 DEF Moves, CallType
<1>2. CASE Slips(c, from, to) BY <1>2 DEF Slips, CallType
<1>3. CASE Ends(c, from)      BY <1>3, IdleIsCall DEF Ends
<1> QED BY <1>1, <1>2, <1>3

LEMMA MovedTo ==
  ASSUME calls \in [Slots -> CallType], NEW c \in Slots, NEW from, NEW to,
         Moves(c, from, to) \/ Slips(c, from, to)
  PROVE  calls'[c].at = to
<1>1. CASE Moves(c, from, to) BY <1>1 DEF Moves, CallType
<1>2. CASE Slips(c, from, to) BY <1>2 DEF Slips, CallType
<1> QED BY <1>1, <1>2

LEMMA TypesInitially == Init => MembershipTypeOK
  BY IdleIsCall, MembershipAssumption DEF Init, MembershipTypeOK, CallType, Times

(* What a call is when it arrives. *)
Arrived(call) ==
  \/ /\ call.kind = "join" /\ call.session \in Sessions /\ call.at = "entering"
     /\ Settles(call.session, Unsettled) /\ UNCHANGED heard
  \/ /\ call.kind \in {"beat", "leave"} /\ call.session \in Sessions /\ call.at = "asking"
     /\ call.agent = None /\ UNCHANGED past
  \/ /\ call.kind \in {"beat", "leave"} /\ call.session \in Sessions /\ call.at = "writing"
     /\ call.agent = bound[call.session] /\ call.agent \in Agents /\ call.now = clock
     /\ Hears(call.agent, clock) /\ UNCHANGED settled
  \/ /\ call.kind = "sidecar" /\ call.session = None /\ call.at = "entering"
     /\ UNCHANGED past

LEMMA ArrivalForm ==
  ASSUME MembershipTypeOK, NEW c \in Slots, Arrivals(c)
  PROVE  /\ calls[c] = Idle
         /\ UNCHANGED <<server, redis, clock>>
         /\ \E call \in CallType : Place(c, call) /\ Arrived(call)
<1>0. bound \in [Sessions -> Agents \cup {None}] /\ clock \in Times BY DEF MembershipTypeOK
<1>1. ASSUME NEW s \in Sessions, NEW n \in Names, NEW a \in Agents \cup {None}, StartJoin(c, s, n, a)
      PROVE  \E call \in CallType : Place(c, call) /\ Arrived(call)
  <2> DEFINE call == [Idle EXCEPT !.kind = "join", !.session = s, !.name = n, !.agent = a,
                                  !.now = clock, !.at = "entering"]
  <2>1. call \in CallType BY <1>0, IdleIsCall DEF Idle, CallType, Kinds, Places
  <2>2. call.kind = "join" /\ call.session = s /\ call.at = "entering" BY DEF Idle
  <2>3. Place(c, call) BY <1>1 DEF StartJoin
  <2>4. Arrived(call) BY <1>1, <2>2 DEF StartJoin, Arrived
  <2> HIDE DEF call
  <2> QED BY <2>1, <2>3, <2>4
<1>2. ASSUME NEW kind \in {"beat", "leave"}, NEW s \in Sessions, StartCall(c, kind, s)
      PROVE  \E call \in CallType : Place(c, call) /\ Arrived(call)
  <2> DEFINE call == [Idle EXCEPT !.kind = kind, !.session = s, !.agent = bound[s], !.now = clock,
                                  !.at = IF bound[s] = None THEN "asking" ELSE "writing"]
  <2>1. call \in CallType BY <1>0, IdleIsCall DEF Idle, CallType, Kinds, Places
  <2>2. /\ call.kind = kind /\ call.session = s /\ call.agent = bound[s] /\ call.now = clock
        /\ call.at = IF bound[s] = None THEN "asking" ELSE "writing"
    BY DEF Idle
  <2>3. Place(c, call) BY <1>2 DEF StartCall
  <2>4. CASE bound[s] = None
    <3>1. UNCHANGED past BY <1>2, <2>4 DEF StartCall, past
    <3> HIDE DEF call
    <3> QED BY <2>1, <2>2, <2>3, <2>4, <3>1 DEF Arrived
  <2>5. CASE bound[s] # None
    <3>1. Hears(bound[s], clock) /\ UNCHANGED settled BY <1>2, <2>5 DEF StartCall
    <3> HIDE DEF call
    <3> QED BY <1>0, <2>1, <2>2, <2>3, <2>5, <3>1 DEF Arrived
  <2> QED BY <2>4, <2>5
<1>3. ASSUME NEW n \in Names, StartSidecar(c, n)
      PROVE  \E call \in CallType : Place(c, call) /\ Arrived(call)
  <2> DEFINE call == [Idle EXCEPT !.kind = "sidecar", !.name = n, !.now = clock, !.at = "entering"]
  <2>1. call \in CallType BY <1>0, IdleIsCall DEF Idle, CallType, Kinds, Places
  <2>2. call.kind = "sidecar" /\ call.session = None /\ call.at = "entering" BY DEF Idle
  <2>3. Place(c, call) /\ UNCHANGED past BY <1>3 DEF StartSidecar
  <2> HIDE DEF call
  <2> QED BY <2>1, <2>2, <2>3 DEF Arrived
<1>4. calls[c] = Idle /\ UNCHANGED <<server, redis, clock>>
  BY DEF Arrivals, StartJoin, StartCall, StartSidecar
<1> QED BY <1>1, <1>2, <1>3, <1>4 DEF Arrivals

LEMMA ArrivalTypes ==
  ASSUME MembershipTypeOK, NEW c \in Slots, Arrivals(c)
  PROVE  MembershipTypeOK'
<1> USE DEF MembershipTypeOK
<1>0. calls \in [Slots -> CallType] /\ clock \in Times BY DEF CallType
<1>1. UNCHANGED <<server, redis, clock>> BY ArrivalForm
<1>2. PICK call \in CallType : Place(c, call) /\ Arrived(call) BY ArrivalForm
<1>3. calls' \in [Slots -> CallType] BY <1>0, <1>2, PlaceType
<1>4. settled' \in [Sessions -> Agents \cup {None, Unsettled}] /\ heard' \in [Agents -> SUBSET Times]
  BY <1>0, <1>2 DEF Arrived, Settles, Hears, past
<1> QED BY <1>1, <1>3, <1>4 DEF server, redis, CallType

LEMMA ResolveTypes ==
  ASSUME MembershipTypeOK, NEW c \in Slots,
         AskingHasSession, AskMirror(c) \/ TakeUp(c) \/ AutoJoin(c) \/ Refuse(c)
  PROVE  MembershipTypeOK'
<1> USE DEF MembershipTypeOK
<1>0. /\ calls \in [Slots -> CallType] /\ clock \in Times /\ calls[c] \in CallType
      /\ calls[c].session \in Sessions \cup {None} /\ calls[c].agent \in Agents \cup {None}
  BY DEF CallType
<1>1. CASE AskMirror(c)
  <2>1. calls' \in [Slots -> CallType] BY <1>0, <1>1 DEF AskMirror, AskingHasSession, CallType, Places
  <2> QED BY <1>0, <1>1, <2>1 DEF AskMirror, server, redis, past, CallType
<1>2. CASE TakeUp(c)
  <2>1. calls' \in [Slots -> CallType] BY <1>0, <1>2 DEF TakeUp, CallType, Places
  <2> QED BY <1>0, <1>2, <2>1 DEF TakeUp, Hears, redis, CallType
<1>3. CASE AutoJoin(c)
  <2>1. calls' \in [Slots -> CallType] BY <1>0, <1>3, MembershipAssumption DEF AutoJoin, AskingHasSession, CallType, Places
  <2> QED BY <1>0, <1>3, <2>1 DEF AutoJoin, Settles, server, redis, CallType
<1>4. CASE Refuse(c)
  <2>1. calls' \in [Slots -> CallType] BY <1>0, <1>4, IdleIsCall DEF Refuse, Ends
  <2> QED BY <1>4, <2>1 DEF Refuse, server, redis, past, CallType
<1> QED BY <1>1, <1>2, <1>3, <1>4

LEMMA JoinTypes ==
  ASSUME MembershipTypeOK, NEW c \in Slots,
         Enter(c) \/ NameTaken(c) \/ Arrive(c) \/ Enrol(c) \/ Bind(c)
  PROVE  MembershipTypeOK'
<1> USE DEF MembershipTypeOK
<1>0. /\ calls \in [Slots -> CallType] /\ clock \in Times /\ calls[c] \in CallType
      /\ calls[c].agent \in Agents \cup {None} /\ calls[c].now \in Times
  BY DEF CallType
<1>1. CASE Enter(c)
  <2>1. PICK a \in Entrants(calls[c]) :
          /\ NameFree(calls[c].name, a)
          /\ name' = [name EXCEPT ![a] = calls[c].name]
          /\ Hears(a, calls[c].now)
          /\ calls' = [calls EXCEPT ![c] = [@ EXCEPT !.agent = a,
                         !.at = IF calls[c].kind = "sidecar" THEN "showing" ELSE "arriving"]]
    BY <1>1 DEF Enter
  <2>2. a \in Agents BY <1>0, <2>1 DEF Entrants, Owners
  <2>3. calls' \in [Slots -> CallType] BY <1>0, <2>1, <2>2 DEF CallType, Places
  <2>4. name' \in [Agents -> Names \cup {None}] BY <1>0, <2>1, <2>2 DEF CallType
  <2>5. \A x, y \in Agents : x # y /\ name'[x] # None => name'[x] # name'[y]
    BY <2>1, <2>2 DEF NameFree, Owners
  <2> QED BY <1>0, <1>1, <2>1, <2>2, <2>3, <2>4, <2>5 DEF Enter, Hears, redis, CallType
<1>2. CASE NameTaken(c)
  <2>1. calls' \in [Slots -> CallType] BY <1>0, <1>2, IdleIsCall DEF NameTaken, Ends
  <2> QED BY <1>2, <2>1 DEF NameTaken, server, redis, past, CallType
<1>3. CASE Arrive(c)
  <2>1. calls' \in [Slots -> CallType]
    BY <1>0, <1>3, MovesType DEF Arrive, Show, Places
  <2> QED BY <1>0, <1>3, <2>1 DEF Arrive, Show, ShownTime, server, past, CallType
<1>4. CASE Enrol(c)
  <2>1. calls' \in [Slots -> CallType] BY <1>0, <1>4, MovesType DEF Enrol, Places
  <2> QED BY <1>0, <1>4, <2>1 DEF Enrol, server, past, CallType
<1>5. CASE Bind(c)
  <2>1. CASE calls[c].kind = "join"
    <3>1. Ends(c, "binding") /\ UNCHANGED heard BY <1>5, <2>1 DEF Bind
    <3>2. calls' \in [Slots -> CallType] BY <1>0, <3>1, IdleIsCall DEF Ends
    <3> QED BY <1>0, <1>5, <3>1, <3>2 DEF Bind, Settles, redis, CallType
  <2>2. CASE calls[c].kind # "join"
    <3>1. /\ calls' = [calls EXCEPT ![c] = [@ EXCEPT !.now = clock, !.at = "writing"]]
          /\ Hears(calls[c].agent, clock)
      BY <1>5, <2>2 DEF Bind
    <3>2. calls' \in [Slots -> CallType] BY <1>0, <3>1 DEF CallType, Places
    <3> QED BY <1>0, <1>5, <3>1, <3>2 DEF Bind, Settles, Hears, redis, CallType
  <2> QED BY <2>1, <2>2
<1> QED BY <1>1, <1>2, <1>3, <1>4, <1>5

LEMMA BeatAndLeaveTypes ==
  ASSUME MembershipTypeOK, NEW c \in Slots,
         \/ WriteBeat(c) \/ ShowBeat(c) \/ Renew(c)
         \/ WriteLeave(c) \/ Hide(c) \/ Forget(c) \/ Unbind(c)
  PROVE  MembershipTypeOK'
<1> USE DEF MembershipTypeOK
<1>0. /\ calls \in [Slots -> CallType] /\ calls[c] \in CallType
      /\ calls[c].agent \in Agents \cup {None} /\ calls[c].now \in Times
      /\ \A d \in Slots : calls[d].now \in Times
  BY DEF CallType
<1>1. calls' \in [Slots -> CallType]
  BY <1>0, MovesType DEF WriteBeat, ShowBeat, Show, Renew, WriteLeave, Hide, Forget, Unbind, Places
<1>2. CASE WriteBeat(c)  BY <1>1, <1>2 DEF WriteBeat, server, redis, past, CallType
<1>3. CASE ShowBeat(c)   BY <1>0, <1>1, <1>3 DEF ShowBeat, Show, ShownTime, server, past, CallType
<1>4. CASE Renew(c)      BY <1>0, <1>1, <1>4 DEF Renew, server, past, CallType
<1>5. CASE WriteLeave(c) BY <1>1, <1>5 DEF WriteLeave, Settles, server, redis, CallType
<1>6. CASE Hide(c)
  <2>1. {calls[d].now : d \in YetToShow(calls[c].agent)} \subseteq Times BY <1>0 DEF YetToShow
  <2> QED BY <1>1, <1>6, <2>1 DEF Hide, server, CallType
<1>7. CASE Forget(c)     BY <1>1, <1>7 DEF Forget, server, past, CallType
<1>8. CASE Unbind(c)     BY <1>1, <1>8 DEF Unbind, Settles, redis, CallType
<1> QED BY <1>2, <1>3, <1>4, <1>5, <1>6, <1>7, <1>8

LEMMA AroundTypes ==
  ASSUME MembershipTypeOK, Lapse \/ Restart \/ Tick
  PROVE  MembershipTypeOK'
<1> USE DEF MembershipTypeOK
<1>0. calls \in [Slots -> CallType] BY DEF CallType
<1>1. CASE Lapse   BY <1>1 DEF Lapse, server, past
<1>2. CASE Restart
  <2>1. calls' \in [Slots -> CallType] BY <1>2, IdleIsCall DEF Restart
  <2> QED BY <1>2, <2>1 DEF Restart, redis, past, CallType
<1>3. CASE Tick
  <2>1. clock' \in Times BY <1>3, MembershipAssumption DEF Tick, Times
  <2> QED BY <1>3, <2>1 DEF Tick, server, redis, past
<1> QED BY <1>1, <1>2, <1>3

(* A call asks when it arrives, if its session has no agent, and only then. *)
LEMMA AskingInitially == Init => AskingHasSession
  BY DEF Init, Idle, AskingHasSession

(* A step touches its own call, which never asks again. *)
LEMMA StepForm ==
  ASSUME MembershipTypeOK, NEW c \in Slots, Steps(c)
  PROVE  /\ \A d \in Slots : d # c => calls'[d] = calls[d]
         /\ calls'[c].at # "asking"
<1>0. calls \in [Slots -> CallType] BY DEF MembershipTypeOK, CallType
<1> USE DEF Moves, Slips, Ends, Idle, CallType
<1>1. CASE AskMirror(c)  BY <1>0, <1>1 DEF AskMirror
<1>2. CASE TakeUp(c)     BY <1>0, <1>2 DEF TakeUp
<1>3. CASE AutoJoin(c)   BY <1>0, <1>3 DEF AutoJoin
<1>4. CASE Refuse(c) \/ NameTaken(c) BY <1>0, <1>4 DEF Refuse, NameTaken
<1>5. CASE Enter(c)      BY <1>0, <1>5 DEF Enter
<1>6. CASE Arrive(c)     BY <1>0, <1>6 DEF Arrive, Show
<1>7. CASE Enrol(c)      BY <1>0, <1>7 DEF Enrol
<1>8. CASE Bind(c)
  <2>1. CASE calls[c].kind = "join"
    <3>1. Ends(c, "binding") BY <1>8, <2>1 DEF Bind
    <3> QED BY <1>0, <3>1
  <2>2. CASE calls[c].kind # "join" BY <1>0, <1>8, <2>2 DEF Bind
  <2> QED BY <2>1, <2>2
<1>9. CASE WriteBeat(c) \/ WriteLeave(c) BY <1>0, <1>9 DEF WriteBeat, WriteLeave
<1>10. CASE ShowBeat(c)  BY <1>0, <1>10 DEF ShowBeat, Show
<1>11. CASE Renew(c) \/ Unbind(c) BY <1>0, <1>11 DEF Renew, Unbind
<1>12. CASE Hide(c) \/ Forget(c) BY <1>0, <1>12 DEF Hide, Forget
<1> HIDE DEF Moves, Slips, Ends, Idle, CallType
<1> QED BY <1>1, <1>2, <1>3, <1>4, <1>5, <1>6, <1>7, <1>8, <1>9, <1>10, <1>11, <1>12 DEF Steps

LEMMA AskingArrivals ==
  ASSUME TypeInv, NEW c \in Slots, Arrivals(c)
  PROVE  AskingHasSession'
<1>0. calls \in [Slots -> CallType] /\ AskingHasSession BY DEF TypeInv, MembershipTypeOK, CallType
<1>1. PICK call \in CallType : Place(c, call) /\ Arrived(call) BY ArrivalForm DEF TypeInv
<1>2. call.at = "asking" => call.session \in Sessions BY <1>1 DEF Arrived
<1> QED BY <1>0, <1>1, <1>2 DEF Place, AskingHasSession, CallType

LEMMA AskingSteps ==
  ASSUME TypeInv, NEW c \in Slots, Steps(c)
  PROVE  AskingHasSession'
  BY StepForm DEF TypeInv, AskingHasSession

LEMMA TypeInvariance == Spec => []TypeInv
<1>1. Init => TypeInv BY TypesInitially, AskingInitially DEF TypeInv
<1>2. TypeInv /\ [Next]_vars => TypeInv'
  <2> SUFFICES ASSUME TypeInv, [Next]_vars PROVE TypeInv'
    OBVIOUS
  <2> USE DEF TypeInv
  <2>1. ASSUME NEW c \in Slots, Arrivals(c) PROVE TypeInv'
    BY <2>1, ArrivalTypes, AskingArrivals
  <2>2. ASSUME NEW c \in Slots, Steps(c) PROVE TypeInv'
    BY <2>2, ResolveTypes, JoinTypes, BeatAndLeaveTypes, AskingSteps DEF Steps
  <2>3. CASE Lapse \/ Restart \/ Tick
    <3>1. AskingHasSession' BY <2>3 DEF Lapse, Restart, Tick, Idle, AskingHasSession
    <3> QED BY <2>3, <3>1, AroundTypes
  <2>4. CASE UNCHANGED vars
    BY <2>4 DEF vars, server, redis, past, MembershipTypeOK, AskingHasSession
  <2> QED BY <2>1, <2>2, <2>3, <2>4 DEF Next
<1> QED BY <1>1, <1>2, PTL DEF Spec

(* The agents, their names, the sessions and the calls stay in their types, *)
(* and no two agents have one name: join_team's check of the name's owner   *)
(* (identity.py:87-106) is enough, whatever overlaps.                       *)
THEOREM MembershipTypes == Spec => []MembershipTypeOK
  BY TypeInvariance, PTL DEF TypeInv

------------------------------------------------------------------------------
(* The time a call is yet to write was heard when it came in. *)
PendingIsHeard ==
  \A c \in Slots : calls[c].agent \in Agents /\ c \in YetToShow(calls[c].agent)
                   => calls[c].now \in heard[calls[c].agent]

EarnedInv == PendingIsHeard /\ PresenceIsEarned

LEMMA EarnedInitially == Init => EarnedInv
  BY DEF Init, Idle, YetToShow, EarnedInv, PendingIsHeard, PresenceIsEarned

(* Nothing forgets what it heard, but the deletion of the key. *)
LEMMA HeardGrows ==
  ASSUME MembershipTypeOK, heard' = heard \/ \E a, t : Hears(a, t)
  PROVE  \A a \in Agents : heard[a] \subseteq heard'[a]
  BY DEF MembershipTypeOK, Hears

LEMMA EarnedArrivals ==
  ASSUME MembershipTypeOK, EarnedInv, NEW c \in Slots, Arrivals(c)
  PROVE  EarnedInv'
<1>0. calls \in [Slots -> CallType] /\ heard \in [Agents -> SUBSET Times]
  BY DEF MembershipTypeOK, CallType
<1>1. UNCHANGED shown BY ArrivalForm DEF redis
<1>2. PICK call \in CallType : Place(c, call) /\ Arrived(call) BY ArrivalForm
<1>3. \A a \in Agents : heard[a] \subseteq heard'[a]
  BY <1>2, HeardGrows DEF Arrived, past
<1>4. /\ calls'[c] = [call EXCEPT !.clean = calls'[c].clean]
      /\ \A d \in Slots \ {c} : calls'[d] = [calls[d] EXCEPT !.clean = calls'[d].clean]
  BY <1>0, <1>2 DEF Place, CallType
<1>5. /\ calls'[c].agent = call.agent /\ calls'[c].at = call.at /\ calls'[c].now = call.now
      /\ calls'[c].kind = call.kind
      /\ \A d \in Slots \ {c} : /\ calls'[d].agent = calls[d].agent /\ calls'[d].at = calls[d].at
                               /\ calls'[d].now = calls[d].now /\ calls'[d].kind = calls[d].kind
  BY <1>0, <1>4 DEF CallType
<1>6. call.at = "writing" => call.now \in heard'[call.agent]
  BY <1>0, <1>2 DEF Arrived, Hears
<1>7. call.at \notin {"arriving", "showing"} BY <1>2 DEF Arrived
<1>8. PendingIsHeard' BY <1>3, <1>5, <1>6, <1>7 DEF EarnedInv, PendingIsHeard, YetToShow
<1> QED BY <1>1, <1>3, <1>8 DEF EarnedInv, PresenceIsEarned

(* A step that writes no key: what its call is yet to write was heard. *)
LEMMA EarnedQuietly ==
  ASSUME MembershipTypeOK, EarnedInv, NEW c \in Slots, UNCHANGED shown,
         heard' = heard \/ \E a, t : Hears(a, t),
         \A d \in Slots : d # c => calls'[d] = calls[d],
         calls'[c].agent \in Agents /\ c \in YetToShow(calls[c].agent)'
           => calls'[c].now \in heard'[calls'[c].agent]
  PROVE  EarnedInv'
<1>1. \A a \in Agents : heard[a] \subseteq heard'[a] BY HeardGrows
<1>2. PendingIsHeard' BY <1>1 DEF EarnedInv, PendingIsHeard, YetToShow
<1> QED BY <1>1, <1>2 DEF EarnedInv, PresenceIsEarned

LEMMA EarnedResolve ==
  ASSUME MembershipTypeOK, EarnedInv, NEW c \in Slots,
         AskMirror(c) \/ TakeUp(c) \/ AutoJoin(c) \/ Refuse(c) \/ NameTaken(c)
  PROVE  EarnedInv'
<1>0. calls \in [Slots -> CallType] /\ heard \in [Agents -> SUBSET Times]
  BY DEF MembershipTypeOK, CallType
<1>a. \A d \in Slots : d # c => calls'[d] = calls[d] BY StepForm DEF Steps
<1>1. CASE AskMirror(c)
  <2>1. calls'[c].at = "looking" BY <1>0, <1>1 DEF AskMirror, CallType
  <2> QED BY <1>1, <2>1, <1>a, EarnedQuietly DEF AskMirror, redis, past, YetToShow
<1>2. CASE TakeUp(c)
  <2>1. /\ calls'[c].agent = calls[c].agent /\ calls'[c].now = clock
        /\ Hears(calls[c].agent, clock) /\ UNCHANGED shown
    BY <1>0, <1>2 DEF TakeUp, CallType, redis
  <2>2. calls[c].agent \in Agents => clock \in heard'[calls[c].agent] BY <1>0, <2>1 DEF Hears
  <2> QED BY <2>1, <2>2, <1>2, <1>a, EarnedQuietly
<1>3. CASE AutoJoin(c)
  <2>1. calls'[c].at = "entering" BY <1>0, <1>3 DEF AutoJoin, CallType
  <2> QED BY <1>3, <2>1, <1>a, EarnedQuietly DEF AutoJoin, redis, YetToShow
<1>4. CASE Refuse(c) \/ NameTaken(c)
  <2>1. calls'[c].at = "idle" BY <1>0, <1>4 DEF Refuse, NameTaken, Ends, Idle
  <2> QED BY <1>4, <2>1, <1>a, EarnedQuietly DEF Refuse, NameTaken, redis, past, YetToShow
<1> QED BY <1>1, <1>2, <1>3, <1>4

LEMMA EarnedJoin ==
  ASSUME MembershipTypeOK, EarnedInv, NEW c \in Slots, Enter(c) \/ Enrol(c) \/ Bind(c)
  PROVE  EarnedInv'
<1>0. calls \in [Slots -> CallType] /\ heard \in [Agents -> SUBSET Times]
  BY DEF MembershipTypeOK, CallType
<1>a. \A d \in Slots : d # c => calls'[d] = calls[d] BY StepForm DEF Steps
<1>1. CASE Enter(c)
  <2>1. PICK a \in Agents :
          /\ Hears(a, calls[c].now)
          /\ calls' = [calls EXCEPT ![c] = [@ EXCEPT !.agent = a,
                         !.at = IF calls[c].kind = "sidecar" THEN "showing" ELSE "arriving"]]
    <3>1. Entrants(calls[c]) \subseteq Agents BY <1>0 DEF Entrants, Owners, CallType
    <3> QED BY <1>1, <3>1 DEF Enter
  <2>2. calls'[c].agent = a /\ calls'[c].now = calls[c].now BY <1>0, <2>1 DEF CallType
  <2>3. calls[c].now \in heard'[a] BY <1>0, <2>1 DEF Hears
  <2> QED BY <1>1, <2>1, <2>2, <2>3, <1>a, EarnedQuietly DEF Enter, redis
<1>2. CASE Enrol(c)
  <2>1. calls'[c].at = "binding" BY <1>0, <1>2 DEF Enrol, Moves, Slips, CallType
  <2> QED BY <1>2, <2>1, <1>a, EarnedQuietly DEF Enrol, past, YetToShow
<1>3. CASE Bind(c)
  <2>1. UNCHANGED shown BY <1>3 DEF Bind, redis
  <2>2. CASE calls[c].kind = "join"
    <3>1. Ends(c, "binding") /\ UNCHANGED heard BY <1>3, <2>2 DEF Bind
    <3>2. calls'[c].at = "idle" BY <1>0, <3>1 DEF Ends, Idle
    <3> QED BY <1>3, <2>1, <3>1, <3>2, <1>a, EarnedQuietly DEF YetToShow
  <2>3. CASE calls[c].kind # "join"
    <3>1. /\ calls' = [calls EXCEPT ![c] = [@ EXCEPT !.now = clock, !.at = "writing"]]
          /\ Hears(calls[c].agent, clock)
      BY <1>3, <2>3 DEF Bind
    <3>2. calls'[c].agent = calls[c].agent /\ calls'[c].now = clock BY <1>0, <3>1 DEF CallType
    <3>3. calls[c].agent \in Agents => clock \in heard'[calls[c].agent] BY <1>0, <3>1 DEF Hears
    <3> QED BY <1>3, <2>1, <3>1, <3>2, <3>3, <1>a, EarnedQuietly
  <2> QED BY <2>2, <2>3
<1> QED BY <1>1, <1>2, <1>3

(* A key is written with the time of the call. *)
LEMMA EarnedShow ==
  ASSUME MembershipTypeOK, EarnedInv, NEW c \in Slots, Arrive(c) \/ ShowBeat(c)
  PROVE  EarnedInv'
<1>0. calls \in [Slots -> CallType] /\ shown \in [Agents -> Times \cup {None}]
  BY DEF MembershipTypeOK, CallType
<1>1. /\ calls[c].at \in {"arriving", "showing"}
      /\ shown' \in {shown, [shown EXCEPT ![calls[c].agent] = calls[c].now]}
      /\ UNCHANGED heard
  BY DEF Arrive, ShowBeat, Show, Moves, Ends, ShownTime, past
<1>2. calls[c].agent \in Agents => calls[c].now \in heard[calls[c].agent]
  BY <1>1 DEF EarnedInv, PendingIsHeard, YetToShow
<1>3. PresenceIsEarned' BY <1>0, <1>1, <1>2 DEF EarnedInv, PresenceIsEarned
<1>4. calls'[c].at \in {"idle", "enrolling", "renewing"}
  BY <1>0 DEF Arrive, ShowBeat, Show, Moves, Ends, Idle, CallType
<1>5. PendingIsHeard' BY <1>1, <1>4, StepForm DEF EarnedInv, PendingIsHeard, YetToShow, Steps
<1> QED BY <1>3, <1>5 DEF EarnedInv

LEMMA EarnedBeatAndLeave ==
  ASSUME MembershipTypeOK, EarnedInv, NEW c \in Slots,
         WriteBeat(c) \/ Renew(c) \/ WriteLeave(c) \/ Forget(c) \/ Unbind(c)
  PROVE  EarnedInv'
<1>0. calls \in [Slots -> CallType] BY DEF MembershipTypeOK, CallType
<1>a. \A d \in Slots : d # c => calls'[d] = calls[d] BY StepForm DEF Steps
<1>1. CASE WriteBeat(c)
  <2>1. c \in YetToShow(calls[c].agent) BY <1>1 DEF WriteBeat, Moves, YetToShow
  <2>2. calls'[c].agent = calls[c].agent /\ calls'[c].now = calls[c].now
    BY <1>0, <1>1 DEF WriteBeat, Moves, CallType
  <2>3. UNCHANGED <<shown, heard>> BY <1>1 DEF WriteBeat, redis, past
  <2> QED BY <1>1, <2>1, <2>2, <2>3, <1>a, EarnedQuietly DEF EarnedInv, PendingIsHeard
<1>2. CASE Renew(c) \/ Unbind(c)
  <2>1. calls'[c].at = "idle" BY <1>0, <1>2 DEF Renew, Unbind, Ends, Idle
  <2> QED BY <1>2, <2>1, <1>a, EarnedQuietly DEF Renew, Unbind, redis, past, YetToShow
<1>3. CASE WriteLeave(c) \/ Forget(c)
  <2>1. \E to \in {"hiding", "unbinding"}, from \in {"writing", "forgetting"} :
          Moves(c, from, to) \/ Slips(c, from, to)
    BY <1>3 DEF WriteLeave, Forget
  <2>2. calls'[c].at \in {"hiding", "unbinding"} BY <1>0, <2>1, MovedTo
  <2>3. UNCHANGED <<shown, heard>> BY <1>3 DEF WriteLeave, Forget, redis, past
  <2> QED BY <2>2, <2>3, <1>a, EarnedQuietly DEF YetToShow
<1> QED BY <1>1, <1>2, <1>3

(* Deleting the key forgets all but what is yet to be written. *)
LEMMA EarnedHide ==
  ASSUME MembershipTypeOK, EarnedInv, NEW c \in Slots, Hide(c)
  PROVE  EarnedInv'
<1>0. /\ calls \in [Slots -> CallType] /\ shown \in [Agents -> Times \cup {None}]
      /\ heard \in [Agents -> SUBSET Times]
  BY DEF MembershipTypeOK, CallType
<1>1. \A d \in Slots : d # c => calls'[d] = calls[d] BY StepForm DEF Steps
<1>2. calls'[c].at = "forgetting" BY <1>0 DEF Hide, Moves, CallType
<1>3. CASE UNCHANGED <<shown, heard>>
  BY <1>1, <1>2, <1>3 DEF EarnedInv, PendingIsHeard, YetToShow, PresenceIsEarned
<1>4. CASE /\ shown' = [shown EXCEPT ![calls[c].agent] = None]
           /\ heard' = [heard EXCEPT ![calls[c].agent] = {calls[d].now : d \in YetToShow(calls[c].agent)}]
  <2>1. PresenceIsEarned' BY <1>0, <1>4 DEF EarnedInv, PresenceIsEarned
  <2>2. ASSUME NEW d \in Slots, calls'[d].agent \in Agents, d \in YetToShow(calls[d].agent)'
        PROVE  calls'[d].now \in heard'[calls'[d].agent]
    <3>1. d # c /\ calls'[d] = calls[d] BY <1>1, <1>2, <2>2 DEF YetToShow
    <3>2. d \in YetToShow(calls[d].agent) BY <2>2, <3>1 DEF YetToShow
    <3>3. CASE calls[d].agent = calls[c].agent BY <1>0, <1>4, <2>2, <3>1, <3>2, <3>3
    <3>4. CASE calls[d].agent # calls[c].agent
      BY <1>0, <1>4, <2>2, <3>1, <3>2, <3>4 DEF EarnedInv, PendingIsHeard
    <3> QED BY <3>3, <3>4
  <2> QED BY <2>1, <2>2 DEF EarnedInv, PendingIsHeard
<1> QED BY <1>3, <1>4 DEF Hide

(* What is shown is what was heard, and what a call may yet show was heard *)
(* when it came in: a heartbeat that overlaps a leave shows the agent again *)
(* (presence.py:64-71), but never at a time nobody heard of it.            *)
THEOREM EarnedPresence == Spec => []PresenceIsEarned
<1>1. Init => EarnedInv BY EarnedInitially
<1>2. TypeInv /\ EarnedInv /\ [Next]_vars => EarnedInv'
  <2> SUFFICES ASSUME MembershipTypeOK, EarnedInv, [Next]_vars PROVE EarnedInv'
    BY DEF TypeInv
  <2>1. ASSUME NEW c \in Slots, Arrivals(c) PROVE EarnedInv'
    BY <2>1, EarnedArrivals
  <2>2. ASSUME NEW c \in Slots, Steps(c) PROVE EarnedInv'
    BY <2>2, EarnedResolve, EarnedJoin, EarnedShow, EarnedBeatAndLeave, EarnedHide DEF Steps
  <2>3. CASE Lapse
    BY <2>3 DEF Lapse, server, past, EarnedInv, PendingIsHeard, YetToShow, PresenceIsEarned, MembershipTypeOK
  <2>4. CASE Restart
    <3>1. \A d \in Slots : calls'[d].at = "idle" BY <2>4 DEF Restart, Idle
    <3> QED BY <2>4, <3>1 DEF Restart, redis, past, EarnedInv, PendingIsHeard, YetToShow, PresenceIsEarned
  <2>5. CASE Tick \/ UNCHANGED vars
    BY <2>5 DEF Tick, vars, server, redis, past, EarnedInv, PendingIsHeard, YetToShow, PresenceIsEarned
  <2> QED BY <2>1, <2>2, <2>3, <2>4, <2>5 DEF Next
<1> QED BY <1>1, <1>2, TypeInvariance, PTL DEF Spec, EarnedInv

------------------------------------------------------------------------------
(* Two calls of one session that overlap know it, *)
Alone ==
  \A c, d \in Slots :
    c # d /\ calls[c].session = calls[d].session /\ calls[c].session # None => ~calls[c].clean

(* and a call that is changing its session's agent has unsettled it; one   *)
(* that was not disturbed finds in Redis what it wrote there, or nothing.  *)
Changing == {"entering", "arriving", "enrolling", "binding", "hiding", "forgetting", "unbinding"}

Own(c) ==
  /\ calls[c].at \in {"asking", "looking", "writing", "showing", "renewing", "hiding", "forgetting", "unbinding"}
       => calls[c].kind # "join"
  /\ calls[c].session \in Sessions =>
       /\ calls[c].at \in Changing => settled[calls[c].session] = Unsettled
       /\ calls[c].clean /\ calls[c].at = "binding"
            => mirror[calls[c].session] \in {calls[c].agent, None}
       /\ calls[c].clean /\ calls[c].at = "unbinding" => mirror[calls[c].session] = None

Kept(s) == settled[s] # Unsettled => {bound[s], mirror[s]} \subseteq {settled[s], None}

Acts(c) ==
  calls[c].session \in Sessions /\ calls[c].kind # "join" /\ settled[calls[c].session] # Unsettled =>
    calls[c].agent \in {settled[calls[c].session], None}

SessionInv ==
  /\ Alone
  /\ \A c \in Slots : Own(c) /\ Acts(c)
  /\ \A s \in Sessions : Kept(s)

LEMMA SessionInitially == Init => SessionInv
  BY MembershipAssumption DEF Init, Idle, SessionInv, Alone, Own, Kept, Acts, Changing

(* It is enough to look at the call that takes the step. *)
LEMMA SessionStep ==
  ASSUME MembershipTypeOK, SessionInv, NEW c \in Slots, NEW s, s = calls[c].session,
         \A d \in Slots : d # c => calls'[d] = calls[d],
         \/ calls'[c] = Idle
         \/ /\ calls'[c].session = calls[c].session
            /\ calls'[c].clean => calls[c].clean,
         \A r \in Sessions : r # s =>
           bound'[r] = bound[r] /\ mirror'[r] = mirror[r] /\ settled'[r] = settled[r],
         s \in Sessions => /\ settled'[s] \in {settled[s], Unsettled} \/ calls[c].clean
                           /\ Kept(s)',
         Own(c)', Acts(c)'
  PROVE  SessionInv'
<1>0. calls \in [Slots -> CallType] BY DEF MembershipTypeOK, CallType
<1>1. s \in Sessions \cup {None} /\ None \notin Sessions
  BY <1>0, MembershipAssumption DEF CallType
<1>2. \A d \in Slots : d # c /\ calls[d].session = s /\ s # None => ~calls[d].clean /\ ~calls[c].clean
  BY DEF SessionInv, Alone
<1>3. Alone' BY <1>2 DEF SessionInv, Alone, Idle
<1>4. ASSUME NEW d \in Slots, d # c PROVE Own(d)' /\ Acts(d)'
  <2>1. Own(d) /\ Acts(d) /\ calls'[d] = calls[d] BY <1>4 DEF SessionInv
  <2>2. CASE calls[d].session = s /\ s \in Sessions
    <3>1. ~calls[d].clean /\ ~calls[c].clean BY <1>1, <1>2, <1>4, <2>2
    <3>2. settled'[s] \in {settled[s], Unsettled} BY <3>1, <2>2
    <3> QED BY <2>1, <2>2, <3>1, <3>2 DEF Own, Acts
  <2>3. CASE calls[d].session # s \/ s \notin Sessions
    BY <1>1, <2>1, <2>3 DEF Own, Acts
  <2> QED BY <2>2, <2>3
<1>5. ASSUME NEW r \in Sessions PROVE Kept(r)'
  <2>1. CASE r = s BY <2>1
  <2>2. CASE r # s BY <2>2 DEF SessionInv, Kept
  <2> QED BY <2>1, <2>2
<1> QED BY <1>3, <1>4, <1>5 DEF SessionInv

LEMMA Moved ==
  ASSUME MembershipTypeOK, NEW c \in Slots, NEW from, NEW to,
         Moves(c, from, to) \/ Slips(c, from, to)
  PROVE  /\ calls[c].at = from /\ calls'[c].at = to
         /\ calls'[c].session = calls[c].session /\ calls'[c].kind = calls[c].kind
         /\ calls'[c].agent = calls[c].agent
         /\ calls'[c].clean => calls[c].clean /\ Moves(c, from, to)
         /\ \A d \in Slots : d # c => calls'[d] = calls[d]
<1>0. calls \in [Slots -> CallType] BY DEF MembershipTypeOK, CallType
<1>1. CASE Moves(c, from, to) BY <1>0, <1>1 DEF Moves, CallType
<1>2. CASE Slips(c, from, to) BY <1>0, <1>2 DEF Slips, CallType
<1> QED BY <1>1, <1>2

LEMMA Ended ==
  ASSUME MembershipTypeOK, NEW c \in Slots, NEW from, Ends(c, from)
  PROVE  /\ calls[c].at = from
         /\ calls'[c] = Idle /\ Own(c)' /\ Acts(c)'
         /\ \A d \in Slots : d # c => calls'[d] = calls[d]
<1>0. calls \in [Slots -> CallType] BY DEF MembershipTypeOK, CallType
<1>1. calls'[c] = Idle BY <1>0 DEF Ends
<1>2. Own(c)' /\ Acts(c)' BY <1>1, MembershipAssumption DEF Own, Acts, Idle
<1> QED BY <1>0, <1>1, <1>2 DEF Ends

LEMMA SessionArrivals ==
  ASSUME MembershipTypeOK, SessionInv, NEW c \in Slots, Arrivals(c)
  PROVE  SessionInv'
<1>0. calls \in [Slots -> CallType] /\ settled \in [Sessions -> Agents \cup {None, Unsettled}]
  BY DEF MembershipTypeOK, CallType
<1>1. UNCHANGED <<bound, mirror>> BY ArrivalForm DEF server, redis
<1>2. PICK call \in CallType : Place(c, call) /\ Arrived(call) BY ArrivalForm
<1>3. calls[c] = Idle BY ArrivalForm
<1>4. /\ calls'[c].session = call.session /\ calls'[c].kind = call.kind
      /\ calls'[c].agent = call.agent /\ calls'[c].at = call.at
  BY <1>0, <1>2 DEF Place, CallType
<1>5. \A d \in Slots \ {c} :
        /\ calls'[d].session = calls[d].session /\ calls'[d].kind = calls[d].kind
        /\ calls'[d].agent = calls[d].agent /\ calls'[d].at = calls[d].at
        /\ calls'[d].clean => calls[d].clean
        /\ calls[d].session = call.session /\ call.session # None
             => ~calls'[d].clean /\ ~calls'[c].clean
  <2>1. ASSUME NEW d \in Slots \ {c}
        PROVE  /\ calls'[d] \in {calls[d], [calls[d] EXCEPT !.clean = FALSE]}
               /\ calls[d].session = call.session /\ call.session # None =>
                    /\ calls'[d] = [calls[d] EXCEPT !.clean = FALSE]
                    /\ calls'[c] = [call EXCEPT !.clean = FALSE]
    <3> DEFINE others == {x \in Slots : calls[x].session = call.session /\ call.session # None}
    <3>1. c \notin others BY <1>3 DEF Idle
    <3>2. calls' = [x \in Slots |->
                      IF x = c THEN [call EXCEPT !.clean = others = {}]
                      ELSE IF x \in others THEN [calls[x] EXCEPT !.clean = FALSE]
                      ELSE calls[x]]
      BY <1>2 DEF Place
    <3>3. d \in others => calls'[c] = [call EXCEPT !.clean = FALSE]
      <4> SUFFICES ASSUME d \in others PROVE calls'[c] = [call EXCEPT !.clean = FALSE]
        OBVIOUS
      <4>1. (others = {}) = FALSE OBVIOUS
      <4> QED BY <3>2, <4>1
    <3> QED BY <3>2, <3>3
  <2>2. ASSUME NEW d \in Slots \ {c}, calls'[d] = [calls[d] EXCEPT !.clean = FALSE]
        PROVE  /\ calls'[d].session = calls[d].session /\ calls'[d].kind = calls[d].kind
               /\ calls'[d].agent = calls[d].agent /\ calls'[d].at = calls[d].at
               /\ ~calls'[d].clean
    BY <1>0, <2>2 DEF CallType
  <2>3. calls'[c] = [call EXCEPT !.clean = FALSE] => ~calls'[c].clean
    BY <1>0 DEF CallType
  <2> QED BY <2>1, <2>2, <2>3
<1>6. \A r \in Sessions : settled'[r] \in {settled[r], Unsettled}
  BY <1>0, <1>2 DEF Arrived, Settles, past
<1>7. Alone' BY <1>4, <1>5 DEF SessionInv, Alone
<1>8. \A d \in Slots \ {c} : Own(d)' /\ Acts(d)'
  BY <1>1, <1>5, <1>6 DEF SessionInv, Own, Acts
<1>9. Own(c)'
  BY <1>0, <1>2, <1>4, MembershipAssumption DEF Arrived, Settles, Own, Changing
<1>10. Acts(c)'
  <2>1. call.session \in Sessions => Kept(call.session) BY DEF SessionInv
  <2> QED BY <1>2, <1>4, <1>6, <2>1, MembershipAssumption DEF Arrived, Acts, Kept, past
<1>11. \A s \in Sessions : Kept(s)' BY <1>1, <1>6 DEF SessionInv, Kept
<1> QED BY <1>7, <1>8, <1>9, <1>10, <1>11 DEF SessionInv

(* Steps that leave the session's agent, its copy and its last word alone. *)
LEMMA SessionQuietly ==
  ASSUME MembershipTypeOK, SessionInv, NEW c \in Slots, UNCHANGED <<bound, mirror, settled>>,
         \/ \E from : Ends(c, from)
         \/ \E from, to : /\ Moves(c, from, to)
                          /\ to \in {"arriving", "showing", "enrolling", "renewing", "forgetting"}
                          /\ to \in Changing => from \in Changing
                          /\ to \in {"showing", "renewing"} => calls[c].kind # "join"
                          /\ to = "forgetting" => from = "hiding"
  PROVE  SessionInv'
<1> DEFINE s == calls[c].session
<1>0. s \in Sessions => Kept(s) BY DEF SessionInv
<1>1. ASSUME NEW from, Ends(c, from) PROVE SessionInv'
  <2>1. /\ calls'[c] = Idle /\ Own(c)' /\ Acts(c)'
        /\ \A d \in Slots : d # c => calls'[d] = calls[d]
    BY <1>1, Ended
  <2> QED BY <1>0, <2>1, SessionStep DEF Kept
<1>2. ASSUME NEW from, NEW to, Moves(c, from, to),
             to \in {"arriving", "showing", "enrolling", "renewing", "forgetting"},
             to \in Changing => from \in Changing,
             to \in {"showing", "renewing"} => calls[c].kind # "join",
             to = "forgetting" => from = "hiding"
      PROVE  SessionInv'
  <2>1. /\ calls[c].at = from /\ calls'[c].at = to
        /\ calls'[c].session = s /\ calls'[c].kind = calls[c].kind /\ calls'[c].agent = calls[c].agent
        /\ calls'[c].clean => calls[c].clean
        /\ \A d \in Slots : d # c => calls'[d] = calls[d]
    BY <1>2, Moved
  <2>2. Own(c)' BY <1>2, <2>1 DEF SessionInv, Own
  <2>3. Acts(c)' BY <2>1 DEF SessionInv, Acts
  <2> QED BY <1>0, <2>1, <2>2, <2>3, SessionStep DEF Kept
<1> QED BY <1>1, <1>2

LEMMA SessionResolve ==
  ASSUME TypeInv, SessionInv, NEW c \in Slots, AskMirror(c) \/ TakeUp(c) \/ AutoJoin(c)
  PROVE  SessionInv'
<1> DEFINE s == calls[c].session
<1>0. /\ MembershipTypeOK /\ calls \in [Slots -> CallType]
      /\ bound \in [Sessions -> Agents \cup {None}] /\ mirror \in [Sessions -> Agents \cup {None}]
      /\ settled \in [Sessions -> Agents \cup {None, Unsettled}]
  BY DEF TypeInv, MembershipTypeOK, CallType
<1>1. Own(c) /\ Acts(c) /\ (s \in Sessions => Kept(s)) BY DEF SessionInv
<1>2. CASE AskMirror(c)
  <2>1. /\ calls[c].at = "asking" /\ UNCHANGED <<bound, mirror, settled>>
        /\ calls' = [calls EXCEPT ![c] = [@ EXCEPT !.agent = mirror[s], !.at = "looking"]]
    BY <1>2 DEF AskMirror, server, redis, past
  <2>2. /\ calls'[c].session = s /\ calls'[c].kind = calls[c].kind /\ calls'[c].agent = mirror[s]
        /\ calls'[c].at = "looking" /\ calls'[c].clean = calls[c].clean
        /\ \A d \in Slots : d # c => calls'[d] = calls[d]
    BY <1>0, <2>1 DEF CallType
  <2>3. Own(c)' BY <1>1, <2>1, <2>2 DEF Own, Changing
  <2>4. Acts(c)' BY <1>1, <2>1, <2>2 DEF Acts, Kept
  <2> QED BY <1>0, <1>1, <2>1, <2>2, <2>3, <2>4, SessionStep DEF Kept
<1>3. CASE TakeUp(c)
  <2>1. /\ calls[c].at = "looking" /\ UNCHANGED <<mirror, settled>>
        /\ calls' = [calls EXCEPT ![c] = [@ EXCEPT !.now = clock, !.at = "writing"]]
        /\ bound' = [bound EXCEPT ![s] = calls[c].agent]
    BY <1>3 DEF TakeUp, redis
  <2>2. /\ calls'[c].session = s /\ calls'[c].kind = calls[c].kind /\ calls'[c].agent = calls[c].agent
        /\ calls'[c].at = "writing" /\ calls'[c].clean = calls[c].clean
        /\ \A d \in Slots : d # c => calls'[d] = calls[d]
    BY <1>0, <2>1 DEF CallType
  <2>3. Own(c)' BY <1>1, <2>1, <2>2 DEF Own, Changing
  <2>4. Acts(c)' BY <1>1, <2>1, <2>2 DEF Acts
  <2>5. ASSUME s \in Sessions PROVE settled'[s] # Unsettled => {bound'[s], mirror'[s]} \subseteq {settled'[s], None}
    BY <1>0, <1>1, <2>1, <2>5 DEF Own, Acts, Kept
  <2>6. \A r \in Sessions : r # s => bound'[r] = bound[r] BY <1>0, <2>1
  <2> QED BY <1>0, <1>1, <2>1, <2>2, <2>3, <2>4, <2>5, <2>6, SessionStep DEF Kept
<1>4. CASE AutoJoin(c)
  <2>1. /\ calls[c].at = "asking" /\ UNCHANGED <<bound, mirror>>
        /\ calls' = [calls EXCEPT ![c] = [@ EXCEPT !.name = Header[s], !.now = clock, !.at = "entering"]]
        /\ settled' = [settled EXCEPT ![s] = Unsettled]
    BY <1>4 DEF AutoJoin, Settles, server, redis
  <2>2. /\ calls'[c].session = s /\ calls'[c].kind = calls[c].kind /\ calls'[c].agent = calls[c].agent
        /\ calls'[c].at = "entering" /\ calls'[c].clean = calls[c].clean
        /\ \A d \in Slots : d # c => calls'[d] = calls[d]
    BY <1>0, <2>1 DEF CallType
  <2>3. /\ s \in Sessions => settled'[s] = Unsettled
        /\ \A r \in Sessions : r # s => settled'[r] = settled[r]
    BY <1>0, <2>1
  <2>4. Own(c)' BY <2>2, <2>3 DEF Own
  <2>5. Acts(c)' BY <2>2, <2>3 DEF Acts
  <2> QED BY <1>0, <2>1, <2>2, <2>3, <2>4, <2>5, SessionStep DEF Kept
<1> QED BY <1>2, <1>3, <1>4

LEMMA SessionJoin ==
  ASSUME TypeInv, SessionInv, NEW c \in Slots, Enter(c) \/ Enrol(c) \/ Bind(c)
  PROVE  SessionInv'
<1> DEFINE s == calls[c].session
<1>0. /\ MembershipTypeOK /\ calls \in [Slots -> CallType]
      /\ bound \in [Sessions -> Agents \cup {None}] /\ mirror \in [Sessions -> Agents \cup {None}]
      /\ settled \in [Sessions -> Agents \cup {None, Unsettled}]
  BY DEF TypeInv, MembershipTypeOK, CallType
<1>1. Own(c) /\ Acts(c) /\ (s \in Sessions => Kept(s)) BY DEF SessionInv
<1>2. CASE Enter(c)
  <2>1. /\ calls[c].at = "entering" /\ UNCHANGED <<bound, mirror, settled>>
        /\ \E a : calls' = [calls EXCEPT ![c] = [@ EXCEPT !.agent = a,
                            !.at = IF calls[c].kind = "sidecar" THEN "showing" ELSE "arriving"]]
    BY <1>2 DEF Enter, redis
  <2>2. /\ calls'[c].session = s /\ calls'[c].kind = calls[c].kind
        /\ calls'[c].at = IF calls[c].kind = "sidecar" THEN "showing" ELSE "arriving"
        /\ calls'[c].clean = calls[c].clean
        /\ \A d \in Slots : d # c => calls'[d] = calls[d]
    BY <1>0, <2>1 DEF CallType
  <2>3. s \in Sessions => settled'[s] = Unsettled BY <1>1, <2>1 DEF Own, Changing
  <2>4. Own(c)' BY <2>2, <2>3 DEF Own
  <2>5. Acts(c)' BY <2>2, <2>3 DEF Acts
  <2> QED BY <1>0, <1>1, <2>1, <2>2, <2>4, <2>5, SessionStep DEF Kept
<1>3. CASE Enrol(c)
  <2>1. /\ calls[c].at = "enrolling" /\ UNCHANGED <<bound, settled>>
        /\ calls'[c].session = s /\ calls'[c].at = "binding" /\ calls'[c].agent = calls[c].agent
        /\ calls'[c].clean => calls[c].clean
        /\ \A d \in Slots : d # c => calls'[d] = calls[d]
        /\ Moves(c, "enrolling", "binding") \/ Slips(c, "enrolling", "binding")
    BY <1>0, <1>3, Moved DEF Enrol, server, past
  <2>2. /\ calls'[c].clean => mirror' = [mirror EXCEPT ![s] = calls[c].agent]
        /\ \A r \in Sessions : r # s => mirror'[r] = mirror[r]
    <3>1. CASE Moves(c, "enrolling", "binding") /\ mirror' = [mirror EXCEPT ![s] = calls[c].agent]
      BY <1>0, <3>1
    <3>2. CASE Slips(c, "enrolling", "binding") /\ UNCHANGED mirror
      <4>1. ~calls'[c].clean BY <1>0, <3>2 DEF Slips, CallType
      <4> QED BY <3>2, <4>1
    <3> QED BY <1>3, <3>1, <3>2 DEF Enrol
  <2>3. s \in Sessions => settled'[s] = Unsettled BY <1>1, <2>1 DEF Own, Changing
  <2>4. Own(c)' BY <1>0, <2>1, <2>2, <2>3 DEF Own
  <2>5. Acts(c)' BY <2>1, <2>3 DEF Acts
  <2> QED BY <1>0, <2>1, <2>2, <2>3, <2>4, <2>5, SessionStep DEF Kept
<1>4. CASE Bind(c)
  <2>1. /\ calls[c].at = "binding" /\ UNCHANGED mirror
        /\ bound' = [bound EXCEPT ![s] = calls[c].agent]
        /\ settled' = [settled EXCEPT ![s] = IF calls[c].clean THEN calls[c].agent ELSE Unsettled]
    BY <1>4 DEF Bind, Settles, redis
  <2>2. /\ \A r \in Sessions : r # s => bound'[r] = bound[r] /\ mirror'[r] = mirror[r] /\ settled'[r] = settled[r]
        /\ s \in Sessions => /\ bound'[s] = calls[c].agent
                             /\ settled'[s] = IF calls[c].clean THEN calls[c].agent ELSE Unsettled
    BY <1>0, <2>1
  <2>3. s \in Sessions /\ settled'[s] # Unsettled => {bound'[s], mirror'[s]} \subseteq {settled'[s], None}
    BY <1>1, <2>1, <2>2 DEF Own
  <2>4. CASE calls[c].kind = "join"
    <3>1. Ends(c, "binding") BY <1>4, <2>4 DEF Bind
    <3>2. /\ calls'[c] = Idle /\ Own(c)' /\ Acts(c)'
          /\ \A d \in Slots : d # c => calls'[d] = calls[d]
      BY <1>0, <3>1, Ended
    <3> QED BY <1>0, <2>2, <2>3, <3>2, SessionStep DEF Kept
  <2>5. CASE calls[c].kind # "join"
    <3>1. calls' = [calls EXCEPT ![c] = [@ EXCEPT !.now = clock, !.at = "writing"]]
      BY <1>4, <2>5 DEF Bind
    <3>2. /\ calls'[c].session = s /\ calls'[c].kind = calls[c].kind /\ calls'[c].agent = calls[c].agent
          /\ calls'[c].at = "writing" /\ calls'[c].clean = calls[c].clean
          /\ \A d \in Slots : d # c => calls'[d] = calls[d]
      BY <1>0, <3>1 DEF CallType
    <3>3. Own(c)' BY <2>5, <3>2 DEF Own, Changing
    <3>4. Acts(c)' BY <2>2, <3>2 DEF Acts
    <3> QED BY <1>0, <2>2, <2>3, <3>2, <3>3, <3>4, SessionStep DEF Kept
  <2> QED BY <2>4, <2>5
<1> QED BY <1>2, <1>3, <1>4

LEMMA SessionBeatAndLeave ==
  ASSUME TypeInv, SessionInv, NEW c \in Slots,
         Renew(c) \/ WriteLeave(c) \/ Forget(c) \/ Unbind(c)
  PROVE  SessionInv'
<1> DEFINE s == calls[c].session
<1>0. /\ MembershipTypeOK
      /\ bound \in [Sessions -> Agents \cup {None}] /\ mirror \in [Sessions -> Agents \cup {None}]
      /\ settled \in [Sessions -> Agents \cup {None, Unsettled}]
  BY DEF TypeInv, MembershipTypeOK
<1>1. Own(c) /\ Acts(c) /\ (s \in Sessions => Kept(s)) BY DEF SessionInv
<1>2. CASE Renew(c)
  <2>1. /\ calls[c].at = "renewing" /\ UNCHANGED <<bound, settled>>
        /\ mirror' \in {mirror, [mirror EXCEPT ![s] = calls[c].agent]}
        /\ calls'[c] = Idle /\ Own(c)' /\ Acts(c)'
        /\ \A d \in Slots : d # c => calls'[d] = calls[d]
    BY <1>0, <1>2, Ended DEF Renew, server, past
  <2>2. \A r \in Sessions : r # s => mirror'[r] = mirror[r] BY <1>0, <2>1
  <2>3. s \in Sessions => mirror'[s] \in {mirror[s], calls[c].agent} BY <1>0, <2>1
  <2>4. s \in Sessions /\ settled'[s] # Unsettled => {bound'[s], mirror'[s]} \subseteq {settled'[s], None}
    BY <1>1, <2>1, <2>3 DEF Own, Acts, Kept
  <2> QED BY <1>0, <2>1, <2>2, <2>4, SessionStep DEF Kept
<1>3. CASE WriteLeave(c)
  <2>1. /\ calls[c].kind = "leave" /\ UNCHANGED <<bound, mirror>>
        /\ settled' = [settled EXCEPT ![s] = Unsettled]
        /\ calls'[c].session = s /\ calls'[c].kind = calls[c].kind /\ calls'[c].at = "hiding"
        /\ calls'[c].clean => calls[c].clean
        /\ \A d \in Slots : d # c => calls'[d] = calls[d]
    BY <1>0, <1>3, Moved DEF WriteLeave, Settles, server, redis
  <2>2. /\ s \in Sessions => settled'[s] = Unsettled
        /\ \A r \in Sessions : r # s => settled'[r] = settled[r]
    BY <1>0, <2>1
  <2>3. Own(c)' BY <2>1, <2>2 DEF Own
  <2>4. Acts(c)' BY <2>1, <2>2 DEF Acts
  <2> QED BY <1>0, <2>1, <2>2, <2>3, <2>4, SessionStep DEF Kept
<1>4. CASE Forget(c)
  <2>1. /\ calls[c].at = "forgetting" /\ UNCHANGED <<bound, settled>>
        /\ calls'[c].session = s /\ calls'[c].kind = calls[c].kind /\ calls'[c].at = "unbinding"
        /\ calls'[c].clean => calls[c].clean
        /\ \A d \in Slots : d # c => calls'[d] = calls[d]
    BY <1>0, <1>4, Moved DEF Forget, server, past
  <2>2. /\ calls'[c].clean => mirror' = [mirror EXCEPT ![s] = None]
        /\ \A r \in Sessions : r # s => mirror'[r] = mirror[r]
    <3>1. CASE mirror' = [mirror EXCEPT ![s] = None] BY <1>0, <3>1
    <3>2. CASE Slips(c, "forgetting", "unbinding") /\ UNCHANGED mirror
      <4>1. calls \in [Slots -> CallType] BY <1>0 DEF MembershipTypeOK, CallType
      <4>2. ~calls'[c].clean BY <3>2, <4>1 DEF Slips, CallType
      <4> QED BY <3>2, <4>2
    <3> QED BY <1>4, <3>1, <3>2 DEF Forget
  <2>3. s \in Sessions => settled'[s] = Unsettled BY <1>1, <2>1 DEF Own, Changing
  <2>4. Own(c)' BY <1>0, <1>1, <2>1, <2>2, <2>3 DEF Own
  <2>5. Acts(c)' BY <2>1, <2>3 DEF Acts
  <2> QED BY <1>0, <2>1, <2>2, <2>3, <2>4, <2>5, SessionStep DEF Kept
<1>5. CASE Unbind(c)
  <2>1. /\ calls[c].at = "unbinding" /\ UNCHANGED mirror
        /\ bound' = [bound EXCEPT ![s] = None]
        /\ settled' = [settled EXCEPT ![s] = IF calls[c].clean THEN None ELSE Unsettled]
        /\ calls'[c] = Idle /\ Own(c)' /\ Acts(c)'
        /\ \A d \in Slots : d # c => calls'[d] = calls[d]
    BY <1>0, <1>5, Ended DEF Unbind, Settles, redis
  <2>2. /\ \A r \in Sessions : r # s => bound'[r] = bound[r] /\ settled'[r] = settled[r]
        /\ s \in Sessions => /\ bound'[s] = None
                             /\ settled'[s] = IF calls[c].clean THEN None ELSE Unsettled
    BY <1>0, <2>1
  <2>3. s \in Sessions /\ settled'[s] # Unsettled => {bound'[s], mirror'[s]} \subseteq {settled'[s], None}
    BY <1>1, <2>1, <2>2 DEF Own
  <2> QED BY <1>0, <2>1, <2>2, <2>3, SessionStep DEF Kept
<1> QED BY <1>2, <1>3, <1>4, <1>5

(* The rest is quiet: the steps that write a name, a heartbeat key, or the *)
(* row of the agent only.                                                  *)
LEMMA SessionRest ==
  ASSUME TypeInv, SessionInv, NEW c \in Slots,
         \/ Refuse(c) \/ NameTaken(c) \/ Arrive(c) \/ WriteBeat(c) \/ ShowBeat(c) \/ Hide(c)
  PROVE  SessionInv'
<1>0. MembershipTypeOK BY DEF TypeInv
<1> USE DEF server, redis, past
<1>1. CASE Refuse(c) \/ NameTaken(c)
  BY <1>0, <1>1, SessionQuietly DEF Refuse, NameTaken
<1>2. CASE Arrive(c)
  <2>1. Moves(c, "arriving", "enrolling") /\ UNCHANGED <<bound, mirror, settled>>
    BY <1>2 DEF Arrive, Show
  <2> QED BY <1>0, <2>1, SessionQuietly DEF Changing
<1>3. CASE WriteBeat(c)
  <2>1. calls[c].kind = "beat" /\ Moves(c, "writing", "showing") /\ UNCHANGED <<bound, mirror, settled>>
    BY <1>3 DEF WriteBeat
  <2> QED BY <1>0, <2>1, SessionQuietly DEF Changing
<1>4. CASE ShowBeat(c)
  <2>1. /\ UNCHANGED <<bound, mirror, settled>>
        /\ \/ Ends(c, "showing")
           \/ Moves(c, "showing", "renewing") /\ calls[c].kind # "sidecar"
    BY <1>4 DEF ShowBeat, Show
  <2>2. CASE Ends(c, "showing") BY <1>0, <2>1, <2>2, SessionQuietly
  <2>3. CASE Moves(c, "showing", "renewing") /\ calls[c].kind # "sidecar"
    <3>1. calls[c].kind # "join" BY <2>3 DEF Moves, SessionInv, Own
    <3> QED BY <1>0, <2>1, <2>3, <3>1, SessionQuietly DEF Changing
  <2> QED BY <2>1, <2>2, <2>3
<1>5. CASE Hide(c)
  <2>1. Moves(c, "hiding", "forgetting") /\ UNCHANGED <<bound, mirror, settled>>
    BY <1>5 DEF Hide
  <2> QED BY <1>0, <2>1, SessionQuietly DEF Changing
<1> QED BY <1>1, <1>2, <1>3, <1>4, <1>5

LEMMA SessionAround ==
  ASSUME TypeInv, SessionInv, Lapse \/ Restart \/ Tick \/ UNCHANGED vars
  PROVE  SessionInv'
<1>0. mirror \in [Sessions -> Agents \cup {None}] BY DEF TypeInv, MembershipTypeOK
<1>1. CASE Lapse
  <2>1. UNCHANGED <<bound, calls, settled>> BY <1>1 DEF Lapse, server, past
  <2>2. \A s \in Sessions : mirror'[s] \in {mirror[s], None} BY <1>0, <1>1 DEF Lapse
  <2>3. Alone' BY <2>1 DEF SessionInv, Alone
  <2>4. \A c \in Slots : Own(c)' /\ Acts(c)' BY <2>1, <2>2 DEF SessionInv, Own, Acts
  <2>5. \A s \in Sessions : Kept(s)' BY <2>1, <2>2 DEF SessionInv, Kept
  <2> QED BY <2>3, <2>4, <2>5 DEF SessionInv
<1>2. CASE Restart
  <2>1. /\ \A c \in Slots : calls'[c] = Idle
        /\ \A s \in Sessions : bound'[s] = None
        /\ UNCHANGED <<mirror, settled>>
    BY <1>2 DEF Restart, redis, past
  <2>2. Alone' BY <2>1 DEF Alone, Idle
  <2>3. \A c \in Slots : Own(c)' /\ Acts(c)' BY <2>1, MembershipAssumption DEF Own, Acts, Idle
  <2>4. \A s \in Sessions : Kept(s)' BY <2>1 DEF SessionInv, Kept
  <2> QED BY <2>2, <2>3, <2>4 DEF SessionInv
<1>3. CASE Tick \/ UNCHANGED vars
  BY <1>3 DEF Tick, vars, server, redis, past, SessionInv, Alone, Own, Acts, Kept
<1> QED BY <1>1, <1>2, <1>3

(* A session acts as the agent it joined as, and as nobody once it left:    *)
(* the binding in the process and its copy in Redis (session.py:67-103,     *)
(* identity.py:130-182) may be lost, separately and at any time, but never  *)
(* name another agent, if join and leave were not disturbed.                *)
THEOREM SessionsActAsJoined == Spec => []ActsAsJoined
<1>1. Init => SessionInv BY SessionInitially
<1>2. TypeInv /\ SessionInv /\ [Next]_vars => SessionInv'
  <2> SUFFICES ASSUME TypeInv, SessionInv, [Next]_vars PROVE SessionInv'
    OBVIOUS
  <2>0. MembershipTypeOK BY DEF TypeInv
  <2>1. ASSUME NEW c \in Slots, Arrivals(c) PROVE SessionInv'
    BY <2>0, <2>1, SessionArrivals
  <2>2. ASSUME NEW c \in Slots, Steps(c) PROVE SessionInv'
    BY <2>2, SessionResolve, SessionJoin, SessionBeatAndLeave, SessionRest DEF Steps
  <2> QED BY <2>1, <2>2, SessionAround DEF Next
<1>3. SessionInv => ActsAsJoined
  BY DEF SessionInv, Kept, Acts, ActsAsJoined
<1> QED BY <1>1, <1>2, <1>3, TypeInvariance, PTL DEF Spec
==============================================================================
