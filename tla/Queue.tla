-------------------------------- MODULE Queue --------------------------------
(***************************************************************************)
(* The work queue of queue.go and queuemessage.go.  A message is a payload *)
(* object; a claim on it is a separate lease object, which is created,     *)
(* taken over once expired, renewed, expired or deleted by conditional     *)
(* writes.  A message that was claimed MaxReceives times is moved to a     *)
(* dead record.  Trim removes old messages with no lease of its own.       *)
(*                                                                         *)
(* As in module Locker every bucket call is one step, a worker has a       *)
(* caller thread (pc) and, while it holds a message, a renewer (rpc), and  *)
(* a deadline is the time left until it.  A request that fails after it    *)
(* took effect is one that takes effect and whose worker then stops.       *)
(***************************************************************************)
EXTENDS Naturals, FiniteSets

CONSTANTS
  Workers,
  NoOwner,        \* the owner of a lease nobody wrote
  Ids,            \* message ids: numbers, whose order is the listing order
  CallerIds,      \* the ids supplied by callers of EnqueueWithID
  Untimed,        \* those of them that embed no timestamp
  MaxEnqueues,    \* how often such an id may be enqueued
  HeadWindow,     \* how many messages one receive lists
  Lease,          \* visibility lease, in clock units
  MaxReceives,    \* deliveries before a message is dead-lettered; 0: never
  MaxCount,       \* bound on the receive count of a lease record
  Retention,      \* TRUE: the queue is trimmed
  TrimBatch,      \* how many entries one Trim removes
  Versions,       \* version tokens a bucket may hand out
  NoVersion,      \* the token of an absent object
  MaxFailures     \* bound on crashes plus failed calls

ASSUME QueueAssumption ==
  /\ IsFiniteSet(Workers) /\ NoOwner \notin Workers
  /\ Ids \subseteq Nat \ {0} /\ CallerIds \subseteq Ids /\ Untimed \subseteq CallerIds
  /\ {MaxEnqueues, HeadWindow, Lease, TrimBatch} \subseteq Nat \ {0}
  /\ {MaxReceives, MaxCount, MaxFailures} \subseteq Nat
  /\ Retention \in BOOLEAN
  /\ NoVersion \notin Versions

VARIABLES
  payload,    \* payload[i]: which enqueue of i is stored under msg/, 0 if none
  lease,      \* lease[i]: the record under lease/
  dead,       \* dead[i]: the record under dead/
  enqueued,   \* enqueued[i]: how often i was enqueued
  worker,     \* worker[w]: the local state of w
  horizon,    \* timed ids below it are past the retention horizon
  trim,       \* the local state of the janitor
  failures,   \* crashes and failed calls so far
  delivered,  \* delivered[i]: how often the stored enqueue of i was handed out
  acked       \* the <<i, n>> whose handler asked for removal (Ack)

store == <<payload, lease, dead>>
ghosts == <<delivered, acked>>
vars == <<store, enqueued, worker, horizon, trim, failures, ghosts>>

Durations == 0 .. Lease
Tokens == Versions \cup {NoVersion}
Enqueues == 0 .. MaxEnqueues
LeaseRecord ==
  [owner : Workers \cup {NoOwner}, until : Durations, receives : Nat, version : Tokens]
NoLease == [owner |-> NoOwner, until |-> 0, receives |-> 0, version |-> NoVersion]
DeadRecord == [payload : Enqueues, receives : Nat]
NoDead == [payload |-> 0, receives |-> 0]

Receiving == {"get", "decide", "write", "readback", "verify", "drop"}
DeadLettering == {"hold", "holdback"}
Moving == {"deadattrs", "deadread", "deadwrite", "deaddelmsg", "deaddellease"}
Settling == {"ackstop", "ackget", "ackdellease", "ackdelmsg", "nackstop", "nackget", "nackwrite"}
CallerPC == {"idle", "held"} \cup Receiving \cup DeadLettering \cup Moving \cup Settling
RenewerPC == {"none", "wait", "write", "readback", "exited"}

\* What tryReceive, tryClaim, deadLetter and a Message keep in their variables.
Local ==
  [pc : CallerPC, rpc : RenewerPC, id : Ids \cup {0}, todo : SUBSET Ids,
   seen : LeaseRecord, newUntil : Durations, receives : Nat, version : Tokens,
   leaseUntil : Durations, err : {"open", "lost", "clean"}, got : Enqueues]
Idle ==
  [pc |-> "idle", rpc |-> "none", id |-> 0, todo |-> {}, seen |-> NoLease,
   newUntil |-> 0, receives |-> 0, version |-> NoVersion, leaseUntil |-> 0,
   err |-> "open", got |-> 0]

TrimState ==
  [pc : {"idle", "msg", "lease", "sweep"}, todo : SUBSET Ids, budget : 0 .. TrimBatch,
   horizon : Nat]
NoTrim == [pc |-> "idle", todo |-> {}, budget |-> 0, horizon |-> 0]

TypeOK ==
  /\ payload \in [Ids -> Enqueues]
  /\ lease \in [Ids -> LeaseRecord]
  /\ dead \in [Ids -> DeadRecord]
  /\ enqueued \in [Ids -> Enqueues]
  /\ worker \in [Workers -> Local]
  /\ horizon \in Nat
  /\ trim \in TrimState
  /\ failures \in 0 .. MaxFailures
  /\ delivered \in [Ids -> Nat]
  /\ acked \subseteq Ids \X Enqueues

-----------------------------------------------------------------------------
(* The bucket.                                                             *)

Absent(r) == r.version = NoVersion
Expired(until) == until = 0

\* IfNotExists or IfMatch, as in module Locker.
Passes(i, expect) == lease[i].version = expect

InUse ==
  {lease[i].version : i \in Ids}
    \cup {worker[w].seen.version : w \in Workers}
    \cup {worker[w].version : w \in Workers}

\* A write gives the lease a token that nobody knows yet.
PutLease(i, owner, until, receives) ==
  /\ Versions \ InUse # {}
  /\ lease' = [lease EXCEPT ![i] =
       [owner |-> owner, until |-> until, receives |-> receives,
        version |-> CHOOSE v \in Versions \ InUse : TRUE]]

DeleteLease(i) == lease' = [lease EXCEPT ![i] = NoLease]
DeletePayload(i) == payload' = [payload EXCEPT ![i] = 0]

\* The head of the listing of msg/.
Window ==
  LET listed == {i \in Ids : payload[i] # 0}
  IN  {i \in listed : Cardinality({j \in listed : j < i}) < HeadWindow}

-----------------------------------------------------------------------------
(* Enqueue and EnqueueWithID: create the payload unless it exists.         *)

WritePayload(i) ==
  /\ payload[i] = 0
  /\ enqueued' = [enqueued EXCEPT ![i] = @ + 1]
  /\ payload' = [payload EXCEPT ![i] = enqueued[i] + 1]
  /\ delivered' = [delivered EXCEPT ![i] = 0]
  /\ UNCHANGED <<lease, dead, worker, horizon, trim, failures, acked>>

\* An id made of the time and a UUID is never used again, and writing a payload
\* takes less time than the retention.
Enqueue(i) ==
  /\ i \notin CallerIds /\ enqueued[i] = 0 /\ i >= horizon
  /\ WritePayload(i)

\* A caller may use an id again, however old; an existing payload stays.
EnqueueWithID(i) ==
  /\ i \in CallerIds /\ enqueued[i] < MaxEnqueues
  /\ WritePayload(i)

-----------------------------------------------------------------------------
(* TryReceive: list, then try to claim one candidate after the other.      *)
(* Workers start at a random place, so the order is left open.             *)

Stop(w) == worker' = [worker EXCEPT ![w] = Idle]
Try(w, i, todo) ==
  worker' = [worker EXCEPT ![w] = [Idle EXCEPT !.pc = "get", !.id = i, !.todo = todo]]

\* (nil, nil) from tryClaim: go on with the next candidate, if any is left.
NextCandidate(w) ==
  \/ worker[w].todo = {} /\ Stop(w)
  \/ \E i \in worker[w].todo : Try(w, i, worker[w].todo \ {i})

TryReceive(w) ==
  /\ worker[w].pc = "idle"
  /\ \E i \in Window : Try(w, i, Window \ {i})
  /\ UNCHANGED <<store, enqueued, horizon, trim, failures, ghosts>>

GetLease(w) ==
  /\ worker[w].pc = "get"
  /\ worker' = [worker EXCEPT ![w].pc = "decide", ![w].seen = lease[worker[w].id]]
  /\ UNCHANGED <<store, enqueued, horizon, trim, failures, ghosts>>

\* The clock is read; the claim, or the move to the dead records, is decided.
Claim(w, pc, receives) ==
  worker' = [worker EXCEPT ![w].pc = pc, ![w].newUntil = Lease, ![w].receives = receives]

\* Mutant of Decide: an expired lease is not taken over.
DecideNoTakeover(w) ==
  /\ worker[w].pc = "decide"
  /\ \/ Absent(worker[w].seen) /\ Claim(w, "write", 1)
     \/ ~Absent(worker[w].seen) /\ NextCandidate(w)
  /\ UNCHANGED <<store, enqueued, horizon, trim, failures, ghosts>>

\* Mutant of Decide: one delivery too many.
DecideOneMore(w) ==
  LET seen == worker[w].seen
      full == MaxReceives > 0 /\ seen.receives > MaxReceives
  IN
  /\ worker[w].pc = "decide"
  /\ \/ Absent(seen) /\ Claim(w, "write", 1)
     \/ ~Absent(seen) /\ ~Expired(seen.until) /\ NextCandidate(w)
     \/ ~Absent(seen) /\ Expired(seen.until) /\ full /\ Claim(w, "hold", seen.receives)
     \/ ~Absent(seen) /\ Expired(seen.until) /\ ~full /\ Claim(w, "write", seen.receives + 1)
  /\ UNCHANGED <<store, enqueued, horizon, trim, failures, ghosts>>

Decide(w) ==
  LET seen == worker[w].seen
      full == MaxReceives > 0 /\ seen.receives >= MaxReceives
  IN
  /\ worker[w].pc = "decide"
  /\ \/ Absent(seen) /\ Claim(w, "write", 1)
     \/ ~Absent(seen) /\ ~Expired(seen.until) /\ NextCandidate(w)
     \/ ~Absent(seen) /\ Expired(seen.until) /\ full /\ Claim(w, "hold", seen.receives)
     \/ /\ ~Absent(seen) /\ Expired(seen.until) /\ ~full
        /\ seen.receives < MaxCount
        /\ Claim(w, "write", seen.receives + 1)
  /\ UNCHANGED <<store, enqueued, horizon, trim, failures, ghosts>>

\* Mutant of WriteLease: a takeover that is not conditional.
WriteLeaseBlindly(w) ==
  LET me == worker[w] IN
  /\ me.pc \in {"write", "hold"}
  /\ PutLease(me.id, w, me.newUntil, me.receives)
  /\ worker' = [worker EXCEPT ![w].pc = IF me.pc = "hold" THEN "holdback" ELSE "readback"]
  /\ UNCHANGED <<payload, dead, enqueued, horizon, trim, failures, ghosts>>

\* writeLease: the conditional write; a lost race moves on.
WriteLease(w) ==
  LET me == worker[w] IN
  /\ me.pc \in {"write", "hold"}
  /\ \/ /\ Passes(me.id, me.seen.version)
        /\ PutLease(me.id, w, me.newUntil, me.receives)
        /\ worker' = [worker EXCEPT ![w].pc = IF me.pc = "hold" THEN "holdback" ELSE "readback"]
     \/ /\ ~Passes(me.id, me.seen.version)
        /\ NextCandidate(w)
        /\ UNCHANGED lease
  /\ UNCHANGED <<payload, dead, enqueued, horizon, trim, failures, ghosts>>

\* Mutant of ReadBack: the deadline counts from the end of the call.
ReadBackFromNow(w) ==
  LET me == worker[w] IN
  /\ me.pc \in {"readback", "holdback"} /\ ~Absent(lease[me.id])
  /\ worker' = [worker EXCEPT
       ![w].pc = IF me.pc = "holdback" THEN "deadattrs" ELSE "verify",
       ![w].version = lease[me.id].version, ![w].leaseUntil = Lease,
       ![w].newUntil = 0, ![w].seen = NoLease]
  /\ UNCHANGED <<store, enqueued, horizon, trim, failures, ghosts>>

\* writeLease: the version is read back.  A vanished record is an error after a
\* create and a lost race after a takeover.
ReadBack(w) ==
  LET me == worker[w]
      now == lease[me.id]
  IN
  /\ me.pc \in {"readback", "holdback"}
  /\ \/ /\ ~Absent(now)
        /\ worker' = [worker EXCEPT
             ![w].pc = IF me.pc = "holdback" THEN "deadattrs" ELSE "verify",
             ![w].version = now.version, ![w].leaseUntil = me.newUntil,
             ![w].newUntil = 0, ![w].seen = NoLease]
     \/ Absent(now) /\ Absent(me.seen) /\ Stop(w)
     \/ Absent(now) /\ ~Absent(me.seen) /\ NextCandidate(w)
  /\ UNCHANGED <<store, enqueued, horizon, trim, failures, ghosts>>

\* The payload must still be there; startMessage then spawns the renewer.
Verify(w) ==
  LET i == worker[w].id IN
  /\ worker[w].pc = "verify"
  /\ \/ /\ payload[i] # 0
        /\ worker' = [worker EXCEPT ![w].pc = "held", ![w].rpc = "wait",
                                    ![w].todo = {}, ![w].got = payload[i]]
        /\ delivered' = [delivered EXCEPT ![i] = @ + 1]
     \/ /\ payload[i] = 0
        /\ worker' = [worker EXCEPT ![w].pc = "drop"]
        /\ UNCHANGED delivered
  /\ UNCHANGED <<store, enqueued, horizon, trim, failures, acked>>

\* The lease of a message that is gone is dropped, if it is still one's own.
Drop(w) ==
  LET i == worker[w].id IN
  /\ worker[w].pc = "drop"
  /\ IF Passes(i, worker[w].version) THEN DeleteLease(i) ELSE UNCHANGED lease
  /\ NextCandidate(w)
  /\ UNCHANGED <<payload, dead, enqueued, horizon, trim, failures, ghosts>>

-----------------------------------------------------------------------------
(* deadLetter: copy the payload to dead/, delete it, delete the lease.     *)

\* Mutant of DeadAttributes: the payload is deleted without a copy.
DeadWithoutCopy(w) ==
  /\ worker[w].pc = "deadattrs"
  /\ worker' = [worker EXCEPT ![w].pc = "deaddelmsg"]
  /\ UNCHANGED <<store, enqueued, horizon, trim, failures, ghosts>>

DeadAttributes(w) ==
  /\ worker[w].pc = "deadattrs"
  /\ worker' = [worker EXCEPT ![w].pc =
       IF payload[worker[w].id] = 0 THEN "deaddelmsg" ELSE "deadread"]
  /\ UNCHANGED <<store, enqueued, horizon, trim, failures, ghosts>>

DeadRead(w) ==
  LET i == worker[w].id IN
  /\ worker[w].pc = "deadread"
  /\ worker' = [worker EXCEPT
       ![w].pc = IF payload[i] = 0 THEN "deaddelmsg" ELSE "deadwrite",
       ![w].got = payload[i]]
  /\ UNCHANGED <<store, enqueued, horizon, trim, failures, ghosts>>

DeadWrite(w) ==
  /\ worker[w].pc = "deadwrite"
  /\ dead' = [dead EXCEPT ![worker[w].id] =
       [payload |-> worker[w].got, receives |-> worker[w].receives]]
  /\ worker' = [worker EXCEPT ![w].pc = "deaddelmsg"]
  /\ UNCHANGED <<payload, lease, enqueued, horizon, trim, failures, ghosts>>

DeadDeletePayload(w) ==
  /\ worker[w].pc = "deaddelmsg"
  /\ DeletePayload(worker[w].id)
  /\ worker' = [worker EXCEPT ![w].pc = "deaddellease"]
  /\ UNCHANGED <<lease, dead, enqueued, horizon, trim, failures, ghosts>>

DeadDeleteLease(w) ==
  LET i == worker[w].id IN
  /\ worker[w].pc = "deaddellease"
  /\ IF Passes(i, worker[w].version) THEN DeleteLease(i) ELSE UNCHANGED lease
  /\ NextCandidate(w)
  /\ UNCHANGED <<payload, dead, enqueued, horizon, trim, failures, ghosts>>

-----------------------------------------------------------------------------
(* renewLoop and renewOnce of a held Message.                              *)

Finish(w, outcome) == IF worker[w].err = "open" THEN outcome ELSE worker[w].err

\* Mutant of RenewTick: extends the old deadline instead of "now".
RenewFromDeadline(w) ==
  /\ worker[w].rpc = "wait" /\ ~Expired(worker[w].leaseUntil)
  /\ worker' = [worker EXCEPT ![w].rpc = "write", ![w].newUntil = worker[w].leaseUntil + Lease]
  /\ UNCHANGED <<store, enqueued, horizon, trim, failures, ghosts>>

RenewTick(w) ==
  /\ worker[w].rpc = "wait"
  /\ \/ /\ Expired(worker[w].leaseUntil)
        /\ worker' = [worker EXCEPT ![w].rpc = "exited", ![w].err = Finish(w, "lost")]
     \/ /\ ~Expired(worker[w].leaseUntil)
        /\ worker' = [worker EXCEPT ![w].rpc = "write", ![w].newUntil = Lease]
  /\ UNCHANGED <<store, enqueued, horizon, trim, failures, ghosts>>

RenewLost(w) ==
  worker' = [worker EXCEPT ![w].rpc = "exited", ![w].err = Finish(w, "lost"), ![w].newUntil = 0]

RenewWrite(w) ==
  LET me == worker[w] IN
  /\ me.rpc = "write"
  /\ \/ /\ Passes(me.id, me.version)
        /\ PutLease(me.id, w, me.newUntil, me.receives)
        /\ worker' = [worker EXCEPT ![w].rpc = "readback"]
     \/ /\ ~Passes(me.id, me.version)
        /\ RenewLost(w)
        /\ UNCHANGED lease
  /\ UNCHANGED <<payload, dead, enqueued, horizon, trim, failures, ghosts>>

RenewReadBack(w) ==
  LET me == worker[w] IN
  /\ me.rpc = "readback"
  /\ \/ /\ ~Absent(lease[me.id])
        /\ worker' = [worker EXCEPT ![w].rpc = "wait", ![w].version = lease[me.id].version,
                                    ![w].leaseUntil = me.newUntil, ![w].newUntil = 0]
     \/ /\ Absent(lease[me.id])
        /\ RenewLost(w)
  /\ UNCHANGED <<store, enqueued, horizon, trim, failures, ghosts>>

\* The renewer notices that Ack or Nack cancelled its context.
RenewExit(w) ==
  /\ worker[w].pc \in {"ackstop", "nackstop"} /\ worker[w].rpc = "wait"
  /\ worker' = [worker EXCEPT ![w].rpc = "exited"]
  /\ UNCHANGED <<store, enqueued, horizon, trim, failures, ghosts>>

-----------------------------------------------------------------------------
(* Ack and Nack: settle once, stop the renewer, wait for it, and then act  *)
(* on the lease only if it is still one's own.                             *)

Ack(w) ==
  /\ worker[w].pc = "held"
  /\ worker' = [worker EXCEPT ![w].pc = "ackstop"]
  /\ acked' = acked \cup {<<worker[w].id, worker[w].got>>}
  /\ UNCHANGED <<store, enqueued, horizon, trim, failures, delivered>>

Nack(w) ==
  /\ worker[w].pc = "held"
  /\ worker' = [worker EXCEPT ![w].pc = "nackstop"]
  /\ UNCHANGED <<store, enqueued, horizon, trim, failures, ghosts>>

SettleJoin(w) ==
  /\ worker[w].pc \in {"ackstop", "nackstop"} /\ worker[w].rpc = "exited"
  /\ worker' = [worker EXCEPT
       ![w].pc = IF worker[w].pc = "ackstop" THEN "ackget" ELSE "nackget",
       ![w].err = Finish(w, "clean")]
  /\ UNCHANGED <<store, enqueued, horizon, trim, failures, ghosts>>

SettleGet(w) ==
  LET now == lease[worker[w].id] IN
  /\ worker[w].pc \in {"ackget", "nackget"}
  /\ \/ /\ ~Absent(now) /\ now.owner = w
        /\ worker' = [worker EXCEPT
             ![w].pc = IF worker[w].pc = "ackget" THEN "ackdellease" ELSE "nackwrite",
             ![w].seen = now]
     \/ /\ Absent(now) \/ now.owner # w
        /\ Stop(w)
  /\ UNCHANGED <<store, enqueued, horizon, trim, failures, ghosts>>

\* The lease goes first; if a takeover slipped in, the payload is left alone.
AckDeleteLease(w) ==
  LET me == worker[w] IN
  /\ me.pc = "ackdellease"
  /\ \/ /\ Passes(me.id, me.seen.version)
        /\ DeleteLease(me.id)
        /\ worker' = [worker EXCEPT ![w].pc = "ackdelmsg"]
     \/ /\ ~Passes(me.id, me.seen.version)
        /\ Stop(w)
        /\ UNCHANGED lease
  /\ UNCHANGED <<payload, dead, enqueued, horizon, trim, failures, ghosts>>

AckDeletePayload(w) ==
  /\ worker[w].pc = "ackdelmsg"
  /\ DeletePayload(worker[w].id)
  /\ Stop(w)
  /\ UNCHANGED <<lease, dead, enqueued, horizon, trim, failures, ghosts>>

\* Mutant of NackWrite: the count starts again.
NackResetsCount(w) ==
  LET me == worker[w] IN
  /\ me.pc = "nackwrite"
  /\ IF Passes(me.id, me.seen.version)
     THEN PutLease(me.id, w, 0, 0) ELSE UNCHANGED lease
  /\ Stop(w)
  /\ UNCHANGED <<payload, dead, enqueued, horizon, trim, failures, ghosts>>

\* Nack expires the lease in place and keeps its count.
NackWrite(w) ==
  LET me == worker[w] IN
  /\ me.pc = "nackwrite"
  /\ IF Passes(me.id, me.seen.version)
     THEN PutLease(me.id, w, 0, me.seen.receives) ELSE UNCHANGED lease
  /\ Stop(w)
  /\ UNCHANGED <<payload, dead, enqueued, horizon, trim, failures, ghosts>>

-----------------------------------------------------------------------------
(* Trim: for each old message delete the payload and its lease, then sweep *)
(* the remaining old leases; at most TrimBatch entries in all.             *)

\* Mutant of Old: the message at the horizon counts as old.
OldOrNot(S, h) == {i \in S \ Untimed : i <= h}

Old(S, h) == {i \in S \ Untimed : i < h}

\* The listing is in id order, so the oldest goes first.
Oldest == CHOOSE i \in trim.todo : \A j \in trim.todo : i <= j

\* The horizon is taken from the clock once, then msg/ is listed.
TrimStart ==
  /\ Retention /\ trim.pc = "idle"
  /\ trim' = [pc |-> "msg", todo |-> Old({i \in Ids : payload[i] # 0}, horizon),
              budget |-> TrimBatch, horizon |-> horizon]
  /\ UNCHANGED <<store, enqueued, worker, horizon, failures, ghosts>>

\* Mutant of TrimDeletePayload: the lease goes first.
TrimLeaseFirst ==
  /\ trim.pc = "msg" /\ trim.todo # {}
  /\ DeleteLease(Oldest)
  /\ trim' = [trim EXCEPT !.pc = "lease"]
  /\ UNCHANGED <<payload, dead, enqueued, worker, horizon, failures, ghosts>>

TrimDeletePayload ==
  /\ trim.pc = "msg" /\ trim.todo # {}
  /\ DeletePayload(Oldest)
  /\ trim' = [trim EXCEPT !.pc = "lease"]
  /\ UNCHANGED <<lease, dead, enqueued, worker, horizon, failures, ghosts>>

\* The lease of a removed message, or a residual one, is deleted whoever holds it.
TrimDeleteLease ==
  /\ trim.pc \in {"lease", "sweep"} /\ trim.todo # {}
  /\ DeleteLease(Oldest)
  /\ trim' = IF trim.budget = 1 THEN NoTrim
             ELSE [trim EXCEPT !.pc = IF trim.pc = "lease" THEN "msg" ELSE "sweep",
                               !.todo = @ \ {Oldest}, !.budget = @ - 1]
  /\ UNCHANGED <<payload, dead, enqueued, worker, horizon, failures, ghosts>>

\* Mutant of TrimListLeases: there is no sweep of the residual leases.
TrimNoSweep ==
  /\ trim.pc = "msg" /\ trim.todo = {}
  /\ trim' = NoTrim
  /\ UNCHANGED <<store, enqueued, worker, horizon, failures, ghosts>>

TrimListLeases ==
  /\ trim.pc = "msg" /\ trim.todo = {}
  /\ trim' = [trim EXCEPT !.pc = "sweep",
                          !.todo = Old({i \in Ids : ~Absent(lease[i])}, trim.horizon)]
  /\ UNCHANGED <<store, enqueued, worker, horizon, failures, ghosts>>

TrimEnd ==
  /\ trim.pc = "sweep" /\ trim.todo = {}
  /\ trim' = NoTrim
  /\ UNCHANGED <<store, enqueued, worker, horizon, failures, ghosts>>

\* The retention horizon passes one more id.
Age ==
  /\ Retention /\ \E i \in Ids : i >= horizon
  /\ horizon' = horizon + 1
  /\ UNCHANGED <<store, enqueued, worker, trim, failures, ghosts>>
-----------------------------------------------------------------------------
(* The environment: failed calls, crashes, time.                           *)

Fail ==
  /\ failures < MaxFailures
  /\ failures' = failures + 1

\* An error ends the method, a crash the process: the worker starts over, and
\* what it wrote stays.
Abandon(w) ==
  /\ worker[w].pc # "idle"
  /\ Fail
  /\ Stop(w)
  /\ UNCHANGED <<store, enqueued, horizon, trim, ghosts>>

\* The renewer takes an error for transient and waits for the next tick.
\* Cancelling its context ends a call the same way.
RenewCallFails(w) ==
  /\ worker[w].rpc \in {"write", "readback"}
  /\ \/ Fail
     \/ worker[w].pc \in {"ackstop", "nackstop"} /\ UNCHANGED failures
  /\ worker' = [worker EXCEPT ![w].rpc = "wait", ![w].newUntil = 0]
  /\ UNCHANGED <<store, enqueued, horizon, trim, ghosts>>

TrimFails ==
  /\ trim.pc # "idle"
  /\ Fail
  /\ trim' = NoTrim
  /\ UNCHANGED <<store, enqueued, worker, horizon, ghosts>>

Less(n) == IF n = 0 THEN 0 ELSE n - 1

Tick ==
  /\ lease' = [i \in Ids |-> [lease[i] EXCEPT !.until = Less(@)]]
  /\ worker' = [w \in Workers |->
       [worker[w] EXCEPT !.seen.until = Less(@), !.newUntil = Less(@), !.leaseUntil = Less(@)]]
  /\ UNCHANGED <<payload, dead, enqueued, horizon, trim, failures, ghosts>>

-----------------------------------------------------------------------------

Init ==
  /\ payload = [i \in Ids |-> 0]
  /\ lease = [i \in Ids |-> NoLease]
  /\ dead = [i \in Ids |-> NoDead]
  /\ enqueued = [i \in Ids |-> 0]
  /\ worker = [w \in Workers |-> Idle]
  /\ horizon = 0
  /\ trim = NoTrim
  /\ failures = 0
  /\ delivered = [i \in Ids |-> 0]
  /\ acked = {}

Receive(w) ==
  GetLease(w) \/ Decide(w) \/ WriteLease(w) \/ ReadBack(w) \/ Verify(w) \/ Drop(w)

DeadLetter(w) ==
  DeadAttributes(w) \/ DeadRead(w) \/ DeadWrite(w) \/ DeadDeletePayload(w) \/ DeadDeleteLease(w)

Renewer(w) ==
  RenewTick(w) \/ RenewWrite(w) \/ RenewReadBack(w) \/ RenewExit(w)

Settle(w) ==
  SettleJoin(w) \/ SettleGet(w) \/ AckDeleteLease(w) \/ AckDeletePayload(w) \/ NackWrite(w)

Trim ==
  TrimStart \/ TrimDeletePayload \/ TrimDeleteLease \/ TrimListLeases \/ TrimEnd

Next ==
  \/ \E i \in Ids : Enqueue(i) \/ EnqueueWithID(i)
  \/ \E w \in Workers :
       \/ TryReceive(w) \/ Receive(w) \/ DeadLetter(w) \/ Renewer(w)
       \/ Ack(w) \/ Nack(w) \/ Settle(w)
       \/ Abandon(w) \/ RenewCallFails(w)
  \/ Trim \/ TrimFails \/ Age
  \/ Tick

Spec == Init /\ [][Next]_vars

-----------------------------------------------------------------------------
(* Safety.                                                                 *)

\* w was handed a message, has not settled it, and its Done channel is open.
Holds(w) == worker[w].pc = "held" /\ worker[w].err = "open"

\* w relies on its lease, as the holder of a message or to move it to dead/.  A
\* move of a message that is gone has nothing left to protect.
Relies(w) ==
  /\ Holds(w) \/ (worker[w].pc \in Moving /\ payload[worker[w].id] # 0)
  /\ ~Expired(worker[w].leaseUntil)

\* Visibility: within its lease a message is with one worker only, whether that
\* worker handles it or moves it to the dead records (queue.go:583-650).
OneLiveHolder ==
  \A v, w \in Workers :
    Relies(v) /\ Relies(w) /\ worker[v].id = worker[w].id => v = w

\* The lease record backs every worker that relies on it, while there is a
\* message: it names the worker, runs at least as long as the worker believes,
\* and counts this delivery.
LeaseBacksHolder ==
  \A w \in Workers :
    Relies(w) /\ payload[worker[w].id] # 0 =>
      LET now == lease[worker[w].id] IN
      /\ now.owner = w
      /\ now.until >= worker[w].leaseUntil
      /\ now.receives = worker[w].receives

\* At-least-once: whatever crashes, races and stops, a message that was enqueued
\* is still stored, or its handler asked for its removal, or it is among the
\* dead records, or it is past the retention horizon (queue.go:88-93).
NothingLost ==
  \A i \in Ids : \A n \in 1 .. enqueued[i] :
    \/ payload[i] = n
    \/ <<i, n>> \in acked
    \/ dead[i].payload = n
    \/ Retention /\ i \notin Untimed /\ i < horizon

\* "A message is delivered at most n times" (queue.go:154-161), as long as no
\* handler has asked for its removal.
DeliveryCap ==
  \A i \in Ids :
    MaxReceives > 0 /\ <<i, enqueued[i]>> \notin acked => delivered[i] <= MaxReceives

\* The receive count of a message never goes down while its lease record exists:
\* a renewal, a takeover and Nack all carry it on (queuemessage.go:65-69, 139-180).
CountNeverDrops ==
  [][ \A i \in Ids :
        payload[i] # 0 /\ ~Absent(lease[i]) /\ ~Absent(lease'[i])
          => lease'[i].receives >= lease[i].receives ]_vars

-----------------------------------------------------------------------------
(* What a comment of the code says beyond that.                            *)

\* Trim sweeps "residual lease records older than the horizon whose messages are
\* already gone" (queue.go:328-332): never the lease of a message that is there.
SweepsOnlyResidue ==
  [][ trim.pc = "sweep" /\ lease' # lease /\ trim' # trim => payload[Oldest] = 0 ]_vars

-----------------------------------------------------------------------------
(* Liveness.  Threads and calls that return are scheduled, the clock runs, *)
(* idle workers poll, a handler settles its message in the end, the caller *)
(* schedules Trim again and again, and (as in Locker) a renewer does not   *)
(* for ever prefer a tick to its cancelled context.                        *)

Fairness ==
  /\ WF_vars(Tick)
  /\ WF_vars(Trim)
  /\ \A w \in Workers :
       /\ WF_vars(TryReceive(w))
       /\ WF_vars(Receive(w) \/ DeadLetter(w))
       /\ WF_vars(Renewer(w))
       /\ SF_vars(RenewExit(w))
       /\ WF_vars(Ack(w) \/ Nack(w))
       /\ WF_vars(Settle(w))

FairSpec == Spec /\ Fairness

\* No message is stuck: with a receive limit, every message is acked away or
\* dead-lettered in the end, although workers crash, lose leases and give up.
EventuallySettled ==
  \A i \in Ids : payload[i] # 0 ~> payload[i] = 0

\* Trimming catches up: past the horizon nothing stays, neither a message nor
\* the lease of a message that is gone (queue.go:328-365).
OldIsTrimmed ==
  \A i \in Ids \ Untimed :
    i < horizon ~> payload[i] = 0 /\ Absent(lease[i])
=============================================================================
