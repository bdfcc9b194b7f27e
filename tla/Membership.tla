----------------------------- MODULE Membership -----------------------------
(***************************************************************************)
(* Who is in the team, and as whom an MCP session acts.  An agent's name   *)
(* is a row of SQLite; the agent of a session is kept in the process       *)
(* (_sessions) with a copy in Redis, from which it is taken up again after *)
(* a restart of the server; that an agent is present is a key in Redis     *)
(* with the time of its last heartbeat.  Joining, leaving and heartbeats   *)
(* change these one after the other, and the calls of a session overlap.   *)
(*                                                                         *)
(* Every Redis call may fail (it is logged and passed over), and every key *)
(* of Redis may run out.  What leaving and heartbeats do to tasks is in    *)
(* TaskScheduler; nothing reads the copies of leases kept in Redis.        *)
(***************************************************************************)
EXTENDS Integers, FiniteSets

CONSTANTS
  Sessions,
  Agents,     \* agent ids
  Names,      \* display names
  Header,     \* the name each session sends in X-ATMcp-Agent
  None,       \* no agent, name, session or time
  Unsettled,  \* the agent of a session that is being changed
  Slots,      \* bound on the calls under way at once
  MaxClock    \* bound on the clock

ASSUME MembershipAssumption ==
  /\ Header \in [Sessions -> Names]
  /\ None \notin Sessions \cup Agents \cup Names \cup Nat
  /\ Unsettled \notin Agents \cup {None}
  /\ MaxClock \in Nat

VARIABLES
  name,     \* agents.display_name, None when there is no row
  bound,    \* _sessions: the agent of each session
  mirror,   \* its copy in Redis
  shown,    \* the heartbeat key of each agent: the time in it
  calls,    \* the call in each slot
  clock,
  settled,  \* history: the agent a session joined as (or None: it left),
            \* when that was not disturbed by another call of the session
            \* or a failed call to Redis
  heard     \* history: the times an agent was heard at since it last left

server == <<name, bound>>
redis  == <<mirror, shown>>
past   == <<settled, heard>>
vars   == <<server, redis, calls, clock, past>>

Times == 0..MaxClock
Idle == [kind |-> "none", session |-> None, name |-> None, agent |-> None,
         now |-> 0, at |-> "idle", clean |-> TRUE]

Init ==
  /\ name = [a \in Agents |-> None]
  /\ bound = [s \in Sessions |-> None]
  /\ mirror = [s \in Sessions |-> None]
  /\ shown = [a \in Agents |-> None]
  /\ calls = [c \in Slots |-> Idle]
  /\ clock = 0
  /\ settled = [s \in Sessions |-> None]
  /\ heard = [a \in Agents |-> {}]

(* Two calls of one session that overlap may each undo what the other does. *)
Place(c, call) ==
  LET others == {d \in Slots : calls[d].session = call.session /\ call.session # None}
  IN  calls' = [d \in Slots |->
                  IF d = c THEN [call EXCEPT !.clean = others = {}]
                  ELSE IF d \in others THEN [calls[d] EXCEPT !.clean = FALSE]
                  ELSE calls[d]]

Moves(c, from, to) == calls[c].at = from /\ calls' = [calls EXCEPT ![c].at = to]
Slips(c, from, to) ==
  calls[c].at = from /\ calls' = [calls EXCEPT ![c] = [@ EXCEPT !.at = to, !.clean = FALSE]]
Ends(c, from) == calls[c].at = from /\ calls' = [calls EXCEPT ![c] = Idle]

Hears(a, t) == heard' = [heard EXCEPT ![a] = @ \cup {t}]
Settles(s, a) == settled' = [settled EXCEPT ![s] = a]

------------------------------------------------------------------------------
(* The calls arrive.  A heartbeat or a leave of a session (any tool would  *)
(* do as the first of these) is made by the agent the process has for it,  *)
(* or else the copy in Redis is asked.                                     *)

StartJoin(c, s, n, a) ==
  /\ calls[c] = Idle
  /\ Place(c, [Idle EXCEPT !.kind = "join", !.session = s, !.name = n, !.agent = a,
                           !.now = clock, !.at = "entering"])
  /\ Settles(s, Unsettled)
  /\ UNCHANGED <<server, redis, clock, heard>>

StartCall(c, kind, s) ==
  /\ calls[c] = Idle
  /\ Place(c, [Idle EXCEPT !.kind = kind, !.session = s, !.agent = bound[s], !.now = clock,
                           !.at = IF bound[s] = None THEN "asking" ELSE "writing"])
  /\ IF bound[s] = None THEN UNCHANGED heard ELSE Hears(bound[s], clock)
  /\ UNCHANGED <<server, redis, clock, settled>>

(* The sidecar's heartbeat names the agent and belongs to no session. *)
StartSidecar(c, n) ==
  /\ calls[c] = Idle
  /\ Place(c, [Idle EXCEPT !.kind = "sidecar", !.name = n, !.now = clock, !.at = "entering"])
  /\ UNCHANGED <<server, redis, clock, past>>

(* resolve: the agent in Redis, if the copy is there and can be read ... *)
AskMirror(c) ==
  LET s == calls[c].session
  IN  /\ calls[c].at = "asking"
      /\ mirror[s] # None
      /\ calls' = [calls EXCEPT ![c] = [@ EXCEPT !.agent = mirror[s], !.at = "looking"]]
      /\ UNCHANGED <<server, redis, clock, past>>

(* ... is looked up and taken for the session's, whatever has become of it; *)
TakeUp(c) ==
  LET call == calls[c]
  IN  /\ call.at = "looking"
      /\ calls' = [calls EXCEPT ![c] = [@ EXCEPT !.now = clock, !.at = "writing"]]
      /\ bound' = [bound EXCEPT ![call.session] = call.agent]
      /\ Hears(call.agent, clock)
      /\ UNCHANGED <<name, redis, clock, settled>>

(* otherwise a call with the team's token joins under the session's name,  *)
AutoJoin(c) ==
  LET s == calls[c].session
  IN  /\ calls[c].at = "asking"
      /\ calls' = [calls EXCEPT ![c] = [@ EXCEPT !.name = Header[s], !.now = clock, !.at = "entering"]]
      /\ Settles(s, Unsettled)
      /\ UNCHANGED <<server, redis, clock, heard>>

(* and one without is refused. *)
Refuse(c) ==
  /\ Ends(c, "asking")
  /\ UNCHANGED <<server, redis, clock, past>>

------------------------------------------------------------------------------
(* join_team, and the transaction of heartbeat_named. *)

Owners(n) == {a \in Agents : name[a] = n}

(* The agent a call enters as: the one it asks for, or the owner of its    *)
(* name, or a new one.                                                     *)
Entrants(call) ==
  IF call.agent # None THEN {call.agent}
  ELSE IF Owners(call.name) # {} THEN Owners(call.name)
  ELSE {a \in Agents : name[a] = None}

(* Mutant of NameFree: an agent that is known may take any name. *)
NameFreeOrKnown(n, a) == Owners(n) \subseteq {a} \/ name[a] # None

NameFree(n, a) == Owners(n) \subseteq {a}

Enter(c) ==
  LET call == calls[c]
  IN  /\ call.at = "entering"
      /\ \E a \in Entrants(call) :
           /\ NameFree(call.name, a)
           /\ name' = [name EXCEPT ![a] = call.name]
           /\ Hears(a, call.now)
           /\ calls' = [calls EXCEPT ![c] = [@ EXCEPT !.agent = a,
                          !.at = IF call.kind = "sidecar" THEN "showing" ELSE "arriving"]]
      /\ UNCHANGED <<bound, redis, clock, settled>>

(* DisplayNameTakenError *)
NameTaken(c) ==
  /\ Ends(c, "entering")
  /\ \E a \in Entrants(calls[c]) : ~NameFree(calls[c].name, a)
  /\ UNCHANGED <<server, redis, clock, past>>

(* Mutant of ShownTime: the key gets the time it is written at. *)
TimeOfWriting(call) == clock

(* The time in the heartbeat key is the one the call came in at. *)
ShownTime(call) == call.now

Show(c, from, to) ==
  /\ IF to = "done" THEN Ends(c, from) ELSE Moves(c, from, to)
  /\ shown' \in {shown, [shown EXCEPT ![calls[c].agent] = ShownTime(calls[c])]}
  /\ UNCHANGED <<server, mirror, clock, past>>

Arrive(c) == Show(c, "arriving", "enrolling")

(* set_session *)
Enrol(c) ==
  LET call == calls[c]
  IN  /\ \/ Moves(c, "enrolling", "binding") /\ mirror' = [mirror EXCEPT ![call.session] = call.agent]
         \/ Slips(c, "enrolling", "binding") /\ UNCHANGED mirror
      /\ UNCHANGED <<server, shown, clock, past>>

(* A call that joined on its way then does what it came for. *)
Bind(c) ==
  LET call == calls[c]
  IN  /\ call.at = "binding"
      /\ bound' = [bound EXCEPT ![call.session] = call.agent]
      /\ Settles(call.session, IF call.clean THEN call.agent ELSE Unsettled)
      /\ IF call.kind = "join"
         THEN Ends(c, "binding") /\ UNCHANGED heard
         ELSE /\ calls' = [calls EXCEPT ![c] = [@ EXCEPT !.now = clock, !.at = "writing"]]
              /\ Hears(call.agent, clock)
      /\ UNCHANGED <<name, redis, clock>>

------------------------------------------------------------------------------
(* heartbeat *)

WriteBeat(c) ==
  /\ calls[c].kind = "beat"
  /\ Moves(c, "writing", "showing")
  /\ UNCHANGED <<server, redis, clock, past>>

ShowBeat(c) == Show(c, "showing", IF calls[c].kind = "sidecar" THEN "done" ELSE "renewing")

Renew(c) ==
  /\ Ends(c, "renewing")
  /\ mirror' \in {mirror, [mirror EXCEPT ![calls[c].session] = calls[c].agent]}
  /\ UNCHANGED <<server, shown, clock, past>>

------------------------------------------------------------------------------
(* leave_team *)

WriteLeave(c) ==
  /\ calls[c].kind = "leave"
  /\ Moves(c, "writing", "hiding")
  /\ Settles(calls[c].session, Unsettled)
  /\ UNCHANGED <<server, redis, clock, heard>>

(* The calls of an agent that are yet to write its heartbeat key. *)
YetToShow(a) ==
  {c \in Slots : /\ calls[c].agent = a
                 /\ \/ calls[c].at \in {"arriving", "showing"}
                    \/ calls[c].at = "writing" /\ calls[c].kind = "beat"}

(* del_heartbeat *)
Hide(c) ==
  LET a == calls[c].agent
  IN  /\ Moves(c, "hiding", "forgetting")
      /\ \/ /\ shown' = [shown EXCEPT ![a] = None]
            /\ heard' = [heard EXCEPT ![a] = {calls[d].now : d \in YetToShow(a)}]
         \/ UNCHANGED <<shown, heard>>
      /\ UNCHANGED <<server, mirror, clock, settled>>

(* Mutant of Forget: the copy in Redis is left to run out. *)
LeaveMirror(c) ==
  /\ Moves(c, "forgetting", "unbinding")
  /\ UNCHANGED <<server, redis, clock, past>>

(* del_session *)
Forget(c) ==
  /\ \/ Moves(c, "forgetting", "unbinding") /\ mirror' = [mirror EXCEPT ![calls[c].session] = None]
     \/ Slips(c, "forgetting", "unbinding") /\ UNCHANGED mirror
  /\ UNCHANGED <<server, shown, clock, past>>

Unbind(c) ==
  LET call == calls[c]
  IN  /\ Ends(c, "unbinding")
      /\ bound' = [bound EXCEPT ![call.session] = None]
      /\ Settles(call.session, IF call.clean THEN None ELSE Unsettled)
      /\ UNCHANGED <<name, redis, clock, heard>>

------------------------------------------------------------------------------
(* Around them. *)

Lapse ==
  /\ \/ \E s \in Sessions : mirror[s] # None /\ mirror' = [mirror EXCEPT ![s] = None] /\ UNCHANGED shown
     \/ \E a \in Agents : shown[a] # None /\ shown' = [shown EXCEPT ![a] = None] /\ UNCHANGED mirror
  /\ UNCHANGED <<server, calls, clock, past>>

(* The process ends, its calls and its sessions with it, and starts again. *)
Restart ==
  /\ bound' = [s \in Sessions |-> None]
  /\ calls' = [c \in Slots |-> Idle]
  /\ UNCHANGED <<name, redis, clock, past>>

Tick ==
  /\ clock < MaxClock
  /\ clock' = clock + 1
  /\ UNCHANGED <<server, redis, calls, past>>

Arrivals(c) ==
  \/ \E s \in Sessions, n \in Names, a \in Agents \cup {None} : StartJoin(c, s, n, a)
  \/ \E kind \in {"beat", "leave"}, s \in Sessions : StartCall(c, kind, s)
  \/ \E n \in Names : StartSidecar(c, n)

Steps(c) ==
  \/ AskMirror(c) \/ TakeUp(c) \/ AutoJoin(c) \/ Refuse(c)
  \/ Enter(c) \/ NameTaken(c) \/ Arrive(c) \/ Enrol(c) \/ Bind(c)
  \/ WriteBeat(c) \/ ShowBeat(c) \/ Renew(c)
  \/ WriteLeave(c) \/ Hide(c) \/ Forget(c) \/ Unbind(c)

Next ==
  \/ \E c \in Slots : Arrivals(c) \/ Steps(c)
  \/ Lapse \/ Restart \/ Tick

Spec == Init /\ [][Next]_vars
------------------------------------------------------------------------------
(* Properties. *)

Kinds == {"none", "join", "beat", "leave", "sidecar"}
Places == {"idle", "asking", "looking", "entering", "arriving", "enrolling", "binding",
           "writing", "showing", "renewing", "hiding", "forgetting", "unbinding"}

MembershipTypeOK ==
  /\ name \in [Agents -> Names \cup {None}]
  /\ \A a, b \in Agents : a # b /\ name[a] # None => name[a] # name[b]
  /\ bound \in [Sessions -> Agents \cup {None}]
  /\ mirror \in [Sessions -> Agents \cup {None}]
  /\ shown \in [Agents -> Times \cup {None}]
  /\ calls \in [Slots -> [kind : Kinds, session : Sessions \cup {None}, name : Names \cup {None},
                          agent : Agents \cup {None}, now : Times, at : Places, clean : BOOLEAN]]
  /\ clock \in Times
  /\ settled \in [Sessions -> Agents \cup {None, Unsettled}]
  /\ heard \in [Agents -> SUBSET Times]

(* A session acts as the agent it joined as, and as nobody once it left,   *)
(* across restarts, failures of Redis and late heartbeats: unless its join *)
(* or leave overlapped another of its calls, or Redis failed in it.        *)
ActsAsJoined ==
  \A s \in Sessions :
    settled[s] # Unsettled =>
      /\ bound[s] \in {settled[s], None} /\ mirror[s] \in {settled[s], None}
      /\ \A c \in Slots :
           calls[c].session = s /\ calls[c].kind # "join" => calls[c].agent \in {settled[s], None}

(* The time the team is shown for an agent is one at which the agent was   *)
(* heard; and once it has left (and Redis deleted its key) only a call it  *)
(* had under way, or makes after that, shows it again.                     *)
PresenceIsEarned ==
  \A a \in Agents : shown[a] = None \/ shown[a] \in heard[a]
==============================================================================
