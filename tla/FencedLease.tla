----------------------------- MODULE FencedLease -----------------------------
(***************************************************************************)
(* What ATMcp promises about ONE unit of work, without saying how: a lease *)
(* in epochs.  At any time the work has at most one holder; every          *)
(* acquisition starts a new epoch, and never while somebody holds the      *)
(* work; an epoch gets one verdict, the first; the holder is evicted       *)
(* against its will only when its lease has run out; an eviction and a     *)
(* failure cost a strike, a completion and a release cost none.  When the  *)
(* strikes reach Budget the work is never handed out again.                *)
(*                                                                         *)
(* TaskScheduler implements this specification for each of its tasks.      *)
(***************************************************************************)
EXTENDS Integers

CONSTANTS Holders,   \* who may hold the work
          Budget,    \* strikes after which the work is dead
          Nobody     \* the absence of a holder, of an expiry, of a verdict

VARIABLES holder,    \* the current holder, or Nobody
          epoch,     \* the number of acquisitions
          expiry,    \* when the lease runs out, or Nobody when it does not
          strikes,   \* failures and evictions so far
          verdict,   \* how the newest epoch ended, if it has
          time

lease == <<holder, epoch, expiry, strikes, verdict, time>>

Init == /\ holder = Nobody
        /\ epoch = 0
        /\ expiry = Nobody
        /\ strikes = 0
        /\ verdict = Nobody
        /\ time = 0

Free == holder = Nobody

(* The first verdict stands. *)
Judge(v) == verdict' = IF verdict = Nobody THEN v ELSE verdict

(* A new holder, a new epoch, and a deadline. *)
Acquire == /\ Free /\ strikes < Budget
           /\ holder' \in Holders
           /\ epoch' = epoch + 1
           /\ expiry' \in Nat
           /\ verdict' = Nobody
           /\ UNCHANGED <<strikes, time>>

(* The holder works on and its lease is extended, or suspended. *)
Serve == /\ ~Free
         /\ expiry' \in Nat \cup {Nobody}
         /\ UNCHANGED <<holder, epoch, strikes, verdict, time>>

(* The work is done; it stays with its holder, without a lease. *)
Complete == /\ ~Free
            /\ expiry' = Nobody
            /\ Judge("done")
            /\ UNCHANGED <<holder, epoch, strikes, time>>

(* The holder gives the work back, of its own will or because it failed. *)
GiveBack == /\ ~Free
            /\ holder' = Nobody
            /\ expiry' = Nobody
            /\ \/ Judge("released") /\ UNCHANGED strikes
               \/ Judge("failed") /\ strikes' = strikes + 1
            /\ UNCHANGED <<epoch, time>>

(* The holder is evicted: only when its lease has run out. *)
Evict == /\ ~Free
         /\ expiry # Nobody /\ expiry < time
         /\ holder' = Nobody
         /\ expiry' = Nobody
         /\ Judge("expired")
         /\ strikes' = strikes + 1
         /\ UNCHANGED <<epoch, time>>

Tick == time' = time + 1 /\ UNCHANGED <<holder, epoch, expiry, strikes, verdict>>

Next == Acquire \/ Serve \/ Complete \/ GiveBack \/ Evict \/ Tick

Spec == Init /\ [][Next]_lease
==============================================================================
