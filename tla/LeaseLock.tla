------------------------------ MODULE LeaseLock ------------------------------
(***************************************************************************)
(* What the lease lock promises, without buckets, versions or goroutines:  *)
(* a lease has at most one holder and some time left, and a client may     *)
(* claim the lock only within the lease it holds.                          *)
(***************************************************************************)
EXTENDS Naturals

CONSTANTS Clients, NoOwner, Lease

VARIABLES
  holder,   \* the client the lease was last given to, or NoOwner
  left,     \* time left of that lease
  claim     \* claim[c]: how long c will go on believing that it holds the lock

vars == <<holder, left, claim>>

Init ==
  /\ holder = NoOwner
  /\ left = 0
  /\ claim = [c \in Clients |-> 0]

\* A free or expired lease is given out.
Grant(c) ==
  /\ holder = NoOwner \/ left = 0
  /\ holder' = c
  /\ left' \in 0 .. Lease
  /\ UNCHANGED claim

\* The holder writes a new deadline, never one earlier than it relies on.
Extend(c) ==
  /\ holder = c
  /\ left' \in claim[c] .. Lease
  /\ UNCHANGED <<holder, claim>>

\* A client starts or goes on believing, within its lease.
Claim(c) ==
  /\ \E n \in 0 .. Lease :
       /\ n > 0 => holder = c /\ n <= left
       /\ claim' = [claim EXCEPT ![c] = n]
  /\ UNCHANGED <<holder, left>>

\* The holder gives the lease back; it no longer claims anything.
Yield(c) ==
  /\ holder = c
  /\ claim[c] = 0
  /\ holder' = NoOwner
  /\ left' = 0
  /\ UNCHANGED claim

Less(n) == IF n = 0 THEN 0 ELSE n - 1

Tick ==
  /\ left' = Less(left)
  /\ claim' = [c \in Clients |-> Less(claim[c])]
  /\ UNCHANGED holder

Next ==
  \/ \E c \in Clients : Grant(c) \/ Extend(c) \/ Claim(c) \/ Yield(c)
  \/ Tick

Spec == Init /\ [][Next]_vars
=============================================================================
