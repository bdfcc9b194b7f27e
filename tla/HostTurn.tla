------------------------------ MODULE HostTurn ------------------------------
(***************************************************************************)
(* What happens inside the turns of one thread when a workbench host runs  *)
(* a model that keeps no memory of its own: load the thread's memory, let  *)
(* the model work, ask the command guard before a command is run, save the *)
(* memory.  The thread has one turn at a time, on any of the hosts that    *)
(* have served it.                                                         *)
(*                                                                         *)
(* Every call to the server may fail, or be answered after the host has    *)
(* stopped waiting for it (Client._req gives up after 15 seconds); what    *)
(* the server does then, it does all the same.                             *)
(***************************************************************************)
EXTENDS Integers, Sequences, FiniteSets

CONSTANTS
  Hosts,
  Commands,
  Builtin,     \* the commands the server's deny-list matches
  LocalDeny,   \* the commands the host's own list matches
  None,        \* no host, no command
  MemoryBound, \* turns a memory holds (40 messages in the code)
  MaxTurns     \* bound on the turns

ASSUME HostTurnAssumption ==
  /\ Builtin \subseteq Commands
  /\ LocalDeny \subseteq Commands
  /\ None \notin Hosts \cup Commands \cup {"server"}
  /\ "server" \notin Hosts
  /\ MemoryBound \in Nat \ {0}
  /\ MaxTurns \in Nat

VARIABLES
  rules,    \* guard_rules: kind and command of each
  checks,   \* per turn, its guard_check as the server has it
  requests, \* guard_requests: the turn and the status of each, by id
  consoles, \* history: per request, the verdicts whose console was told ok
  stored,   \* sessions.messages_json: the turns the server remembers
  local,    \* the same in each host's file
  late,     \* set_memory calls the host gave up, still to be served
  host,     \* the host of the turn under way
  stage,    \* where that turn is
  turn,     \* its number
  command,  \* per turn, the command it asked for
  memory,   \* per turn, the turns its memory holds
  source,   \* history: where the turn got its memory
  last,     \* history: the last turn whose memory was saved, where it was, and
            \* whether a late call overwrote the server's copy since
  ran,      \* history: the turns whose command was run
  heard     \* history: the turns that heard the server's answer to their check

guard  == <<rules, checks, requests, consoles>>
copies == <<stored, local, late>>
worker == <<host, stage, turn, command, memory>>
past   == <<source, last, ran, heard>>
vars   == <<guard, copies, worker, past>>

Turns == 1..MaxTurns
NoCheck == [phase |-> "none", decision |-> "allow", request |-> 0]

Init ==
  /\ rules = {}
  /\ checks = [n \in Turns |-> NoCheck]
  /\ requests = <<>>
  /\ consoles = [r \in Turns |-> {}]
  /\ stored = {}
  /\ local = [h \in Hosts |-> {}]
  /\ late = {}
  /\ host = None
  /\ stage = "idle"
  /\ turn = 0
  /\ command = [n \in Turns |-> None]
  /\ memory = [n \in Turns |-> {}]
  /\ source = None
  /\ last = [turn |-> 0, at |-> None, overwritten |-> FALSE]
  /\ ran = {}
  /\ heard = {}

Goes(from, to) == stage = from /\ stage' = to

------------------------------------------------------------------------------
(* The memory of the thread. *)

(* msgs[-40:] *)
Bounded(S) == {t \in S : Cardinality({u \in S : u > t}) < MemoryBound}

StartTurn(h) ==
  /\ Goes("idle", "loading")
  /\ turn < MaxTurns
  /\ turn' = turn + 1
  /\ host' = h
  /\ UNCHANGED <<guard, copies, command, memory, past>>

Load(copy, place) ==
  /\ Goes("loading", "working")
  /\ memory' = [memory EXCEPT ![turn] = copy \cup {turn}]
  /\ source' = place
  /\ UNCHANGED <<guard, copies, host, turn, command, last, ran, heard>>

(* The server's copy is preferred ... *)
LoadFromServer == Load(stored, "server")

(* ... the host's file is read when the server does not answer ... *)
LoadFromFile == Load(local[host], host)

(* ... and one that cannot be read is taken for an empty one. *)
LoadNothing == Load({}, None)

(* The model is done, failed, or used up its steps. *)
Finish ==
  /\ Goes("working", "saving")
  /\ UNCHANGED <<guard, copies, host, turn, command, memory, past>>

(* The turn ends, whatever becomes of its memory. *)
Ended ==
  /\ Goes("saving", "idle")
  /\ host' = None
  /\ UNCHANGED <<guard, turn, command, memory, source, ran, heard>>

SavedAt(place) == last' = [turn |-> turn, at |-> place, overwritten |-> FALSE]

(* Mutant of SaveToServer: the memory is saved as it was loaded. *)
SaveAsLoaded ==
  /\ Ended
  /\ SavedAt("server")
  /\ stored' = Bounded(memory[turn] \ {turn})
  /\ UNCHANGED <<local, late>>

SaveToServer ==
  /\ Ended
  /\ SavedAt("server")
  /\ stored' = Bounded(memory[turn])
  /\ UNCHANGED <<local, late>>

(* The server did not say ok in time: it may yet be served. *)
GiveUpServer ==
  /\ late' \in {late, late \cup {Bounded(memory[turn])}}
  /\ UNCHANGED stored

(* Mutant of SaveToFile: the turn is appended to what the file has. *)
AppendToFile ==
  /\ Ended
  /\ SavedAt(host)
  /\ GiveUpServer
  /\ local' = [local EXCEPT ![host] = Bounded(@ \cup {turn})]

SaveToFile ==
  /\ Ended
  /\ SavedAt(host)
  /\ GiveUpServer
  /\ local' = [local EXCEPT ![host] = Bounded(memory[turn])]

(* save_messages keeps its errors to itself: the file is as it was, and    *)
(* the turn goes on to report as if it had been written.                   *)
SaveNowhere ==
  /\ Ended
  /\ GiveUpServer
  /\ UNCHANGED <<local, last>>

LateSave(m) ==
  /\ m \in late
  /\ late' = late \ {m}
  /\ stored' = m
  /\ last' = [last EXCEPT !.overwritten = TRUE]
  /\ UNCHANGED <<guard, local, worker, source, ran, heard>>

(* The host dies in the middle of a turn: its memory was not saved. *)
Crash ==
  /\ stage # "idle"
  /\ stage' = "idle"
  /\ host' = None
  /\ UNCHANGED <<guard, copies, turn, command, memory, past>>

------------------------------------------------------------------------------
(* The command guard, on the server. *)

AddRule(kind, c) ==
  /\ <<kind, c>> \notin rules
  /\ rules' = rules \cup {<<kind, c>>}
  /\ UNCHANGED <<checks, requests, consoles, copies, worker, past>>

DeleteRule(rule) ==
  /\ rule \in rules
  /\ rules' = rules \ {rule}
  /\ UNCHANGED <<checks, requests, consoles, copies, worker, past>>

(* Mutant of Decision: a question that matches comes before the denials. *)
AskFirst(c) ==
  IF <<"ask", c>> \in rules THEN "ask"
  ELSE IF <<"deny", c>> \in rules \/ c \in Builtin THEN "deny"
  ELSE "allow"

(* Team deny rules and the built-in list, then the team's questions. *)
Decision(c) ==
  IF <<"deny", c>> \in rules \/ c \in Builtin THEN "deny"
  ELSE IF <<"ask", c>> \in rules THEN "ask"
  ELSE "allow"

(* guard.check reads the rules outside the transaction ... *)
ReadRules(n) ==
  /\ checks[n].phase = "sent"
  /\ checks' = [checks EXCEPT ![n] = [@ EXCEPT !.phase = "decided", !.decision = Decision(command[n])]]
  /\ UNCHANGED <<rules, requests, consoles, copies, worker, past>>

(* ... in which it files what it decided, and a question for a human. *)
FileCheck(n) ==
  /\ checks[n].phase = "decided"
  /\ IF checks[n].decision = "ask"
     THEN /\ requests' = Append(requests, [turn |-> n, status |-> "pending"])
          /\ checks' = [checks EXCEPT ![n] = [@ EXCEPT !.phase = "filed", !.request = Len(requests) + 1]]
     ELSE /\ checks' = [checks EXCEPT ![n].phase = "filed"]
          /\ UNCHANGED requests
  /\ UNCHANGED <<rules, consoles, copies, worker, past>>

(* Mutant of Open: a settled request may be settled again. *)
OpenOrSettled(r) == requests[r].status # "gone"

Open(r) == requests[r].status = "pending"

(* A human settles a pending request; for any other the console is refused. *)
Resolve(r, verdict) ==
  /\ Open(r)
  /\ requests' = [requests EXCEPT ![r].status = verdict]
  /\ consoles' = [consoles EXCEPT ![r] = @ \cup {verdict}]
  /\ UNCHANGED <<rules, checks, copies, worker, past>>

(* prune_expired deletes a request, settled or not. *)
Prune(r) ==
  /\ requests[r].status # "gone"
  /\ requests' = [requests EXCEPT ![r].status = "gone"]
  /\ UNCHANGED <<rules, checks, consoles, copies, worker, past>>

------------------------------------------------------------------------------
(* The command guard, on the host. *)

(* The model wants a command run (one per turn here). *)
SendCheck(c) ==
  /\ Goes("working", "checking")
  /\ command[turn] = None
  /\ command' = [command EXCEPT ![turn] = c]
  /\ checks' = [checks EXCEPT ![turn].phase = "sent"]
  /\ UNCHANGED <<rules, requests, consoles, copies, host, turn, memory, past>>

(* Mutant of Proceeds: a question is no refusal. *)
ProceedsUnlessDenied(decision) ==
  IF decision = "deny" THEN "working" ELSE "running"

(* Where the turn goes on when it hears the server's decision. *)
Proceeds(decision) ==
  CASE decision = "deny"  -> "working"
    [] decision = "ask"   -> "asking"
    [] decision = "allow" -> "running"

HearDecision ==
  /\ stage = "checking" /\ checks[turn].phase = "filed"
  /\ Goes("checking", Proceeds(checks[turn].decision))
  /\ heard' = heard \cup {turn}
  /\ UNCHANGED <<guard, copies, host, turn, command, memory, source, last, ran>>

(* The server cannot be reached, or not in time: the local list decides. *)
DecideLocally ==
  /\ stage = "checking"
  /\ Goes("checking", IF command[turn] \in LocalDeny THEN "working" ELSE "running")
  /\ UNCHANGED <<guard, copies, host, turn, command, memory, past>>

(* Every three seconds the host looks at its request; a pending one, one   *)
(* that is gone, or no answer, means to wait on.                           *)
HearVerdict ==
  LET status == requests[checks[turn].request].status
  IN  /\ stage = "asking"
      /\ \/ status = "allowed" /\ stage' = "running"
         \/ status = "denied" /\ stage' = "working"
      /\ UNCHANGED <<guard, copies, host, turn, command, memory, past>>

(* Mutant of AskTimesOut: no answer is taken for a consent. *)
SilenceIsConsent ==
  /\ Goes("asking", "running")
  /\ UNCHANGED <<guard, copies, host, turn, command, memory, past>>

AskTimesOut ==
  /\ Goes("asking", "working")
  /\ UNCHANGED <<guard, copies, host, turn, command, memory, past>>

RunTool ==
  /\ Goes("running", "working")
  /\ ran' = ran \cup {turn}
  /\ UNCHANGED <<guard, copies, host, turn, command, memory, source, last, heard>>

------------------------------------------------------------------------------
Server ==
  \/ \E kind \in {"deny", "ask"}, c \in Commands : AddRule(kind, c)
  \/ \E rule \in rules : DeleteRule(rule)
  \/ \E n \in Turns : ReadRules(n) \/ FileCheck(n)
  \/ \E r \in 1..Len(requests) : Prune(r) \/ \E v \in {"allowed", "denied"} : Resolve(r, v)
  \/ \E m \in late : LateSave(m)

Host ==
  \/ \E h \in Hosts : StartTurn(h)
  \/ LoadFromServer \/ LoadFromFile \/ LoadNothing
  \/ Finish \/ SaveToServer \/ SaveToFile \/ SaveNowhere \/ Crash
  \/ \E c \in Commands : SendCheck(c)
  \/ HearDecision \/ DecideLocally \/ HearVerdict \/ AskTimesOut \/ RunTool

Next == Server \/ Host

Spec == Init /\ [][Next]_vars
------------------------------------------------------------------------------
(* Properties. *)

Statuses == {"pending", "allowed", "denied", "gone"}
Places == Hosts \cup {"server", None}
Copies == {stored} \cup late \cup {local[h] : h \in Hosts}

HostTurnTypeOK ==
  /\ rules \subseteq {"deny", "ask"} \X Commands
  /\ requests \in Seq([turn : Turns, status : Statuses])
  /\ Len(requests) <= MaxTurns
  /\ checks \in [Turns -> [phase : {"none", "sent", "decided", "filed"},
                           decision : {"allow", "ask", "deny"}, request : 0..Len(requests)]]
  /\ consoles \in [Turns -> SUBSET {"allowed", "denied"}]
  /\ \A m \in Copies : m \subseteq 1..turn /\ Cardinality(m) <= MemoryBound
  /\ memory \in [Turns -> SUBSET (1..turn)]
  /\ host \in Hosts \cup {None}
  /\ stage \in {"idle", "loading", "working", "checking", "asking", "running", "saving"}
  /\ turn \in 0..MaxTurns
  /\ command \in [Turns -> Commands \cup {None}]
  /\ source \in Places
  /\ last \in [turn : 0..MaxTurns, at : Places, overwritten : BOOLEAN]
  /\ ran \cup heard \subseteq Turns

(* A command is run only as the guard decided: one the built-in list or    *)
(* (when its rules were read) a team rule denies never, one the guard has  *)
(* a question about only when a human allowed it, whenever rules change    *)
(* and whoever else settles, prunes or answers late.  Only a host that did *)
(* not hear the server's decision goes by its own list.                    *)
RunsAsDecided ==
  \A n \in ran :
    \/ n \notin heard /\ command[n] \notin LocalDeny
    \/ /\ n \in heard
       /\ command[n] \notin Builtin
       /\ \/ checks[n].decision = "allow"
          \/ checks[n].decision = "ask" /\ consoles[checks[n].request] = {"allowed"}

(* A request is settled once: of the consoles that try, at most one is     *)
(* told that its verdict stands, that is the verdict the host finds, and   *)
(* the request is about the command its turn asked for.                    *)
OneVerdict ==
  \A r \in 1..Len(requests) :
    /\ Cardinality(consoles[r]) <= 1
    /\ requests[r].status \in {"allowed", "denied"} => consoles[r] = {requests[r].status}
    /\ checks[requests[r].turn].request = r

(* A turn begins with what the last one that was saved left, if it finds   *)
(* the server (or its host's file) in the place of that save, and no call  *)
(* that had been given up was served in between.                           *)
RemembersLastTurn ==
  stage \in {"working", "checking", "asking", "running", "saving"}
    /\ last.turn > 0 /\ source = last.at /\ (source = "server" => ~last.overwritten)
  => last.turn \in memory[turn]

(* Whichever copy a turn finds, an old one of the server, one that a late  *)
(* call has overwritten, or that of another host, it is a memory and not a *)
(* mixture of several: with a turn it holds all that this turn knew, but   *)
(* for the oldest, which the bound cuts off.                               *)
MemoryIsWhole ==
  \A m \in Copies \cup {memory[n] : n \in 1..turn} : \A t \in m : \A u \in memory[t] :
    u \in m \/ (Cardinality(m) >= MemoryBound /\ \A v \in m : u < v)

(* The command guard as Warrant sees it, for the command of turn n.  What  *)
(* the server has decided counts from the moment it read its rules.        *)
DecisionOn(n) == IF checks[n].phase \in {"decided", "filed"} THEN checks[n].decision ELSE None
VerdictsOn(n) == IF checks[n].request = 0 THEN {} ELSE consoles[checks[n].request]

(* Whose word the host goes by when it is about to run the command. *)
Issuer(n) ==
  IF n \notin heard THEN "host"
  ELSE IF checks[n].decision = "allow" THEN "server"
  ELSE "human"

WarrantOf(n) ==
  IF n \in ran THEN "used"
  ELSE IF n = turn /\ stage = "running" THEN Issuer(n)
  ELSE IF command[n] = None \/ (n = turn /\ stage \in {"checking", "asking"}) THEN "none"
  ELSE "void"

Case(n) == INSTANCE Warrant WITH
  Denied <- Builtin, Forbidden <- LocalDeny,
  command <- command[n], decision <- DecisionOn(n),
  verdicts <- VerdictsOn(n), warrant <- WarrantOf(n)

(* The guard implements Warrant for the command of every turn: whenever    *)
(* checks are answered late, questions settled or pruned and hosts crash,  *)
(* a command is run once and on a warrant that somebody gave for it, and   *)
(* one that was refused or given up is never run after all.                *)
(* The formula is \A n \in Turns : Case(n)!Spec.                           *)
ImplementsWarrant ==
  /\ \A n \in Turns : Case(n)!Init
  /\ [][\A n \in Turns : [Case(n)!Next]_(Case(n)!case)]_vars
==============================================================================
