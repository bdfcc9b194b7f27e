------------------------------ MODULE LiveFeed ------------------------------
(***************************************************************************)
(* The dashboard's live feed on top of WriteTransaction: a publisher sends *)
(* each event of its batch to the sockets that are registered when it      *)
(* comes to that event, one socket after another, and wakes the long-polls *)
(* when it is through.  A new socket is registered first, then reads the   *)
(* events since the page's head, a limited number of them, and sends hello *)
(* and those events between the live ones.  The page's head is that of the *)
(* newest event, hello or snapshot it has seen.                            *)
(***************************************************************************)
EXTENDS WriteTransaction

CONSTANTS
  Pages,         \* browser pages; each has one socket at a time
  BackfillLimit  \* events in a backfill (1000 in the code)

ASSUME FeedAssumption == BackfillLimit \in Nat \ {0}

VARIABLES
  todo,     \* per task, the events of its batch that it has still to broadcast
  targets,  \* the sockets that the event it broadcasts has still to go to
  sending,  \* that event, or 0
  sock,     \* where each page's socket handler is
  since,    \* the head the page connected with
  backfill, \* events read for the socket and not sent yet
  upto,     \* history: the newest event when they were read
  got,      \* history: events that came over this connection
  head      \* the page's head

feedvars == <<todo, targets, sending, sock, since, backfill, upto, got, head>>
publishers == <<todo, targets, sending>>
sockets == <<sock, since, backfill, upto, got>>
vars == <<txvars, feedvars>>

Larger(x, y) == IF x < y THEN y ELSE x
Least(S) == CHOOSE x \in S : \A y \in S : x <= y

Init ==
  /\ TxInit
  /\ todo = [w \in Writers |-> {}]
  /\ targets = [w \in Writers |-> {}]
  /\ sending = [w \in Writers |-> 0]
  /\ sock = [k \in Pages |-> "down"]
  /\ since = [k \in Pages |-> 0]
  /\ backfill = [k \in Pages |-> {}]
  /\ upto = [k \in Pages |-> 0]
  /\ got = [k \in Pages |-> {}]
  /\ head = [k \in Pages |-> 0]

------------------------------------------------------------------------------
(* The publisher. *)

(* Mutant of Registered: a socket is registered once it has its backfill. *)
RegisteredLate(k) == sock[k] \in {"backfilling", "open"}

(* The handler registers its socket as soon as it has accepted it. *)
Registered(k) == sock[k] \in {"registered", "read", "backfilling", "open"}

(* What a page does with an event that arrives over its socket. *)
Show(k, e) ==
  /\ got' = [got EXCEPT ![k] = @ \cup {e}]
  /\ head' = [head EXCEPT ![k] = Larger(@, e)]

(* dispatch takes the next event, _broadcast copies the set of sockets. *)
Broadcast(w) ==
  /\ pc[w] = "announcing"
  /\ sending[w] = 0
  /\ todo[w] # {}
  /\ sending' = [sending EXCEPT ![w] = Least(todo[w])]
  /\ todo' = [todo EXCEPT ![w] = @ \ {Least(todo[w])}]
  /\ targets' = [targets EXCEPT ![w] = {k \in Pages : Registered(k)}]
  /\ UNCHANGED <<txvars, sockets, head>>

(* The send is awaited: a page may take any time for it. *)
SendFrame(w, k) ==
  /\ k \in targets[w]
  /\ targets' = [targets EXCEPT ![w] = @ \ {k}]
  /\ Show(k, sending[w])
  /\ UNCHANGED <<txvars, todo, sending, sock, since, backfill, upto>>

Broadcasted(w) ==
  /\ sending[w] # 0
  /\ targets[w] = {}
  /\ sending' = [sending EXCEPT ![w] = 0]
  /\ UNCHANGED <<txvars, todo, targets, sockets, head>>

(* The publisher's own steps of WriteTransaction, with its loops. *)
Publish(w) ==
  /\ sending[w] = 0 /\ todo[w] = {}
  /\ Announce(w)
  /\ UNCHANGED feedvars

PublishLost(w) ==
  /\ AnnounceLost(w)
  /\ todo' = [todo EXCEPT ![w] = {}]
  /\ targets' = [targets EXCEPT ![w] = {}]
  /\ sending' = [sending EXCEPT ![w] = 0]
  /\ UNCHANGED <<sockets, head>>

Write(w) ==
  /\ Transact(w)
  /\ todo' = [todo EXCEPT ![w] = batch'[w]]
  /\ UNCHANGED <<targets, sending, sockets, head>>

------------------------------------------------------------------------------
(* The socket's handler. *)

SockGoes(k, from, to) == sock[k] = from /\ sock' = [sock EXCEPT ![k] = to]

(* Mutant of Connect: a socket joins the broadcasts that are under way. *)
ConnectInto(k) ==
  /\ SockGoes(k, "down", "registered")
  /\ since' = [since EXCEPT ![k] = head[k]]
  /\ got' = [got EXCEPT ![k] = {}]
  /\ targets' = [w \in Writers |-> IF sending[w] = 0 THEN {} ELSE targets[w] \cup {k}]
  /\ UNCHANGED <<txvars, todo, sending, backfill, upto, head>>

(* The page connects with its head; the handler accepts and registers. *)
Connect(k) ==
  /\ SockGoes(k, "down", "registered")
  /\ since' = [since EXCEPT ![k] = head[k]]
  /\ got' = [got EXCEPT ![k] = {}]
  /\ UNCHANGED <<txvars, publishers, backfill, upto, head>>

(* status.sync reads the oldest events first (... ORDER BY event_id ASC    *)
(* LIMIT 1000) ...                                                         *)
ReadBackfill(k) ==
  /\ SockGoes(k, "registered", "read")
  /\ backfill' = [backfill EXCEPT ![k] =
                    {e \in (since[k] + 1)..committed : e <= since[k] + BackfillLimit}]
  /\ upto' = [upto EXCEPT ![k] = committed]
  /\ UNCHANGED <<txvars, publishers, since, got, head>>

(* ... and then the head, which hello gives to the page. *)
Hello(k) ==
  /\ SockGoes(k, "read", "backfilling")
  /\ head' = [head EXCEPT ![k] = Larger(@, committed)]
  /\ UNCHANGED <<txvars, publishers, since, backfill, upto, got>>

SendBackfill(k) ==
  /\ sock[k] = "backfilling"
  /\ backfill[k] # {}
  /\ backfill' = [backfill EXCEPT ![k] = @ \ {Least(@)}]
  /\ Show(k, Least(backfill[k]))
  /\ UNCHANGED <<txvars, publishers, sock, since, upto>>

Backfilled(k) ==
  /\ backfill[k] = {}
  /\ SockGoes(k, "backfilling", "open")
  /\ UNCHANGED <<txvars, publishers, since, backfill, upto, got, head>>

(* The connection breaks: what is still to be sent over it raises and is   *)
(* dropped.  The page will connect again.                                  *)
Disconnect(k) ==
  /\ sock[k] # "down"
  /\ targets' = [w \in Writers |-> targets[w] \ {k}]
  /\ sock' = [sock EXCEPT ![k] = "down"]
  /\ backfill' = [backfill EXCEPT ![k] = {}]
  /\ UNCHANGED <<txvars, todo, sending, since, upto, got, head>>

------------------------------------------------------------------------------
(* loadSnapshot, every five seconds and after a frame: what it fetched may *)
(* be older than what has come over the socket since.                      *)
Snapshot(k) ==
  /\ \E newest \in 0..committed : head' = [head EXCEPT ![k] = Larger(@, newest)]
  /\ UNCHANGED <<txvars, publishers, sockets>>

(* The server restarts: all sockets are closed, the pages stay. *)
RestartServer ==
  /\ Restart
  /\ todo' = [w \in Writers |-> {}]
  /\ targets' = [w \in Writers |-> {}]
  /\ sending' = [w \in Writers |-> 0]
  /\ sock' = [k \in Pages |-> "down"]
  /\ backfill' = [k \in Pages |-> {}]
  /\ UNCHANGED <<since, upto, got, head>>

Publisher(w) ==
  \/ Broadcast(w) \/ Broadcasted(w) \/ Publish(w) \/ PublishLost(w)
  \/ \E k \in Pages : SendFrame(w, k)

Page(k) ==
  \/ Connect(k) \/ ReadBackfill(k) \/ Hello(k) \/ SendBackfill(k) \/ Backfilled(k)
  \/ Disconnect(k) \/ Snapshot(k)

Next ==
  \/ RestartServer
  \/ \E w \in Writers : Write(w) \/ Publisher(w)
  \/ \E k \in Pages : Page(k)

Spec == Init /\ [][Next]_vars

(* A publisher goes on when it waits for nothing, and a send ends: the     *)
(* frame is taken, or the connection is found to be broken.  _broadcast    *)
(* has no timeout of its own.  Pages may come and go as they like.         *)
Fairness ==
  \A w \in Writers :
    /\ WF_vars(Broadcast(w)) /\ WF_vars(Broadcasted(w)) /\ WF_vars(Publish(w))
    /\ \A k \in Pages : WF_vars(SendFrame(w, k) \/ Disconnect(k))

FairSpec == Spec /\ Fairness
------------------------------------------------------------------------------
(* Properties. *)

FeedTypeOK ==
  /\ TxTypeOK
  /\ \A w \in Writers : /\ todo[w] \subseteq batch[w]
                        /\ sending[w] \in batch[w] \cup {0}
                        /\ targets[w] \subseteq Pages
  /\ sock \in [Pages -> {"down", "registered", "read", "backfilling", "open"}]
  /\ \A k \in Pages : /\ {since[k], upto[k], head[k]} \subseteq 0..committed
                      /\ backfill[k] \cup got[k] \subseteq 1..committed

(* Registering before reading leaves no gap: an event committed after the  *)
(* head a page connected with has come over the connection, is in its      *)
(* backfill, will be broadcast to it, or is in an announcement that was    *)
(* lost.  Only what was there already when the backfill was read, and more *)
(* than BackfillLimit events after the page's head, comes neither way.     *)
NothingFallsBetween ==
  \A k \in Pages : sock[k] \in {"read", "backfilling", "open"} =>
    \A e \in (since[k] + 1)..committed :
      \/ e \in got[k] \cup backfill[k] \cup lost
      \/ \E w \in Writers : e \in todo[w] \/ (e = sending[w] /\ k \in targets[w])
      \/ e \in (since[k] + BackfillLimit + 1)..upto[k]

(* A publisher, and with it the answer of the call it belongs to, is held  *)
(* up by a slow socket only for as long as that send takes: pages that     *)
(* come, go and come again while it broadcasts cannot keep it, and its     *)
(* waiters are woken, unless the announcement is lost.                     *)
AnnouncementsEnd ==
  \A w \in Writers : pc[w] = "announcing" ~> pc[w] # "announcing"
==============================================================================
