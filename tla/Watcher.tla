------------------------------ MODULE Watcher -------------------------------
(***************************************************************************)
(* The replication bridge of watcher.go.  Instances contend for a lease    *)
(* lock; the holder tails the source log from a durable cursor, enqueues   *)
(* each message into the local queue under the source's id, and then moves *)
(* the cursor with a compare-and-swap.                                     *)
(*                                                                         *)
(* The lock is module LeaseLock, the abstraction that module Locker is     *)
(* shown to implement: every step of holder, left and claim is one of its  *)
(* actions.  As there, a bucket call is one step, and anything may happen  *)
(* between two of them.                                                    *)
(***************************************************************************)
EXTENDS Tail

CONSTANTS
  Watchers,     \* the instances that call Run under one watch name
  NoOwner,
  Lease,        \* lease of the watch lock, in clock units
  Latency,      \* how long writing a payload may take, plus producer clock skew
  MaxTime,      \* where the clock stops
  Pauses,       \* FALSE: a running instance renews its lease in time
  Versions,     \* version tokens of the cursor object
  NoVersion,    \* the token of an absent cursor
  MaxFailures   \* bound on crashes plus failed calls

ASSUME WatcherAssumption ==
  /\ NoOwner \notin Watchers
  /\ Lease \in Nat \ {0}
  /\ {Latency, MaxTime, MaxFailures} \subseteq Nat
  /\ Pauses \in BOOLEAN
  /\ NoVersion \notin Versions

VARIABLES
  now,          \* the clock
  stamped,      \* source ids that were used
  source,       \* source ids whose payload is there
  local,        \* local ids whose payload is there
  ever,         \* ids that were in the local queue at some time
  cursor,       \* the cursor object
  inst,         \* inst[w]: the local state of runAsHolder
  holder, left, claim,   \* the watch lock
  failures      \* crashes and failed calls so far

lock == <<holder, left, claim>>
queues == <<stamped, source, local, ever>>
vars == <<now, queues, cursor, inst, lock, failures>>

Lock == INSTANCE LeaseLock WITH Clients <- Watchers

Cursors == Ids \cup {0}
Tokens == Versions \cup {NoVersion}
NoCursor == [at |-> 0, version |-> NoVersion]
PC == {"idle", "acquired", "attrs", "body", "check", "page", "read", "enqueue",
       "write", "readback", "release"}

\* What runAsHolder keeps: its cursor and version, the page at hand, and whether
\* the Done channel of its lock is closed.  adopted is a history variable: the version
\* is of a cursor that another instance put elsewhere.
Local ==
  [pc : PC, at : Cursors, version : Tokens, todo : SUBSET Ids, next : Cursors, done : BOOLEAN,
   adopted : BOOLEAN]
Idle ==
  [pc |-> "idle", at |-> 0, version |-> NoVersion, todo |-> {}, next |-> 0, done |-> FALSE,
   adopted |-> FALSE]

TypeOK ==
  /\ now \in 0 .. MaxTime
  /\ stamped \subseteq Ids /\ source \subseteq stamped
  /\ local \subseteq ever /\ ever \subseteq stamped
  /\ cursor \in [at : Cursors, version : Tokens]
  /\ inst \in [Watchers -> Local]
  /\ holder \in Watchers \cup {NoOwner}
  /\ left \in 0 .. Lease
  /\ claim \in [Watchers -> 0 .. Lease]
  /\ failures \in 0 .. MaxFailures

-----------------------------------------------------------------------------
(* The queues at both ends.                                                *)

\* A producer's payload appears under an id stamped earlier, within Latency; an id
\* without a timestamp appears at any time.
Commit(i) ==
  /\ i \notin stamped
  /\ i \in Untimed \/ (Stamp(i) <= now /\ now <= Stamp(i) + Latency)
  /\ stamped' = stamped \cup {i}
  /\ source' = source \cup {i}
  /\ UNCHANGED <<now, local, ever, cursor, inst, lock, failures>>

\* The origin acks or trims a message.
Vanish(i) ==
  /\ i \in source
  /\ source' = source \ {i}
  /\ UNCHANGED <<now, stamped, local, ever, cursor, inst, lock, failures>>

\* A local worker acks a message.
Consume(i) ==
  /\ i \in local
  /\ local' = local \ {i}
  /\ UNCHANGED <<now, stamped, source, ever, cursor, inst, lock, failures>>

-----------------------------------------------------------------------------
(* The lock: acquiring, renewing in the background, losing, releasing.  An *)
(* instance that pauses writes and claims less than the full lease, or     *)
(* loses it.                                                               *)

Goto(w, pc) == inst' = [inst EXCEPT ![w].pc = pc]

Acquire(w) ==
  /\ inst[w].pc = "idle"
  /\ Lock!Grant(w) /\ (Pauses \/ left' = Lease)
  /\ inst' = [inst EXCEPT ![w] = [Idle EXCEPT !.pc = "acquired"]]
  /\ UNCHANGED <<now, queues, cursor, failures>>

\* Acquire returns: the handle's deadline is known.
Acquired(w) ==
  /\ inst[w].pc = "acquired"
  /\ Lock!Claim(w) /\ (Pauses \/ claim'[w] = left)
  /\ Goto(w, "attrs")
  /\ UNCHANGED <<now, queues, cursor, failures>>

\* Between Acquire and Release, until the lock is lost.
Open(w) == inst[w].pc \notin {"idle", "acquired", "release"} /\ ~inst[w].done

Renew(w) ==
  /\ Open(w)
  /\ \/ Lock!Extend(w) /\ (Pauses \/ left' = Lease)
     \/ Lock!Claim(w) /\ (Pauses \/ claim'[w] = left)
  /\ UNCHANGED <<now, queues, cursor, inst, failures>>

\* The renewer closes Done: its deadline has passed, or it gave the claim up.
LockLost(w) ==
  /\ Open(w) /\ claim[w] = 0
  /\ inst' = [inst EXCEPT ![w].done = TRUE]
  /\ UNCHANGED <<now, queues, cursor, lock, failures>>

\* A return from runAsHolder: the deferred Release ends the claim first.
Return(w) ==
  /\ Goto(w, "release")
  /\ claim' = [claim EXCEPT ![w] = 0]
  /\ UNCHANGED <<holder, left>>

ReleaseLock(w) ==
  /\ inst[w].pc = "release"
  /\ \/ holder = w /\ Lock!Yield(w)
     \/ holder # w /\ UNCHANGED lock
  /\ inst' = [inst EXCEPT ![w] = Idle]
  /\ UNCHANGED <<now, queues, cursor, failures>>

-----------------------------------------------------------------------------
(* readCursor: the version in one call, the body in another.               *)

ReadVersion(w) ==
  /\ inst[w].pc = "attrs"
  /\ inst' = [inst EXCEPT ![w].version = cursor.version,
                          ![w].pc = IF cursor = NoCursor THEN "check" ELSE "body"]
  /\ UNCHANGED <<now, queues, cursor, lock, failures>>

ReadBody(w) ==
  /\ inst[w].pc = "body"
  /\ inst' = [inst EXCEPT ![w].at = cursor.at, ![w].pc = "check"]
  /\ UNCHANGED <<now, queues, cursor, lock, failures>>

-----------------------------------------------------------------------------
(* The loop of runAsHolder.                                                *)

Check(w) ==
  /\ inst[w].pc = "check"
  /\ \/ inst[w].done /\ Return(w)
     \/ ~inst[w].done /\ Goto(w, "page") /\ UNCHANGED lock
  /\ UNCHANGED <<now, queues, cursor, failures>>

\* One page of the tail; with nothing new, wait and check again.
PageSource(w) ==
  LET page == Page(source, inst[w].at, now)
      next == NextCursor(page, inst[w].at)
  IN
  /\ inst[w].pc = "page"
  /\ inst' = [inst EXCEPT ![w].todo = page, ![w].next = next,
                          ![w].pc = IF next = inst[w].at THEN "check" ELSE "read"]
  /\ UNCHANGED <<now, queues, cursor, lock, failures>>

\* The messages of a page are taken in order.
Current(w) == CHOOSE i \in inst[w].todo : \A j \in inst[w].todo : i <= j
Done(w, i) ==
  inst' = [inst EXCEPT ![w].todo = @ \ {i},
                       ![w].pc = IF inst[w].todo = {i} THEN "write" ELSE "read"]

\* replicate: attributes and body are read; a message that vanished is skipped.
ReadMessage(w) ==
  LET i == Current(w) IN
  /\ inst[w].pc = "read"
  /\ \/ i \in source /\ Goto(w, "enqueue")
     \/ i \notin source /\ Done(w, i)
  /\ UNCHANGED <<now, queues, cursor, lock, failures>>

\* replicate: EnqueueWithID creates the payload unless it is there.
EnqueueLocal(w) ==
  LET i == Current(w) IN
  /\ inst[w].pc = "enqueue"
  /\ local' = local \cup {i}
  /\ ever' = ever \cup {i}
  /\ Done(w, i)
  /\ UNCHANGED <<now, stamped, source, cursor, lock, failures>>

InUse == {cursor.version} \cup {inst[w].version : w \in Watchers}

\* Mutant of WriteCursor: the write has no precondition.
WriteCursorBlindly(w) ==
  /\ inst[w].pc = "write" /\ Versions \ InUse # {}
  /\ cursor' = [at |-> inst[w].next, version |-> CHOOSE v \in Versions \ InUse : TRUE]
  /\ inst' = [inst EXCEPT ![w].at = inst[w].next, ![w].pc = "readback"]
  /\ UNCHANGED <<now, queues, lock, failures>>

\* writeCursor: the compare-and-swap; if the cursor moved, stand down.
WriteCursor(w) ==
  /\ inst[w].pc = "write"
  /\ \/ /\ cursor.version = inst[w].version
        /\ Versions \ InUse # {}
        /\ cursor' = [at |-> inst[w].next, version |-> CHOOSE v \in Versions \ InUse : TRUE]
        /\ inst' = [inst EXCEPT ![w].at = inst[w].next, ![w].pc = "readback"]
        /\ UNCHANGED lock
     \/ /\ cursor.version # inst[w].version
        /\ Return(w)
        /\ UNCHANGED cursor
  /\ UNCHANGED <<now, queues, failures>>

\* writeCursor: the new version is whatever a second call returns.
ReadBack(w) ==
  /\ inst[w].pc = "readback"
  /\ inst' = [inst EXCEPT ![w].version = cursor.version, ![w].pc = "check",
                          ![w].adopted = cursor.at # inst[w].at]
  /\ UNCHANGED <<now, queues, cursor, lock, failures>>

-----------------------------------------------------------------------------
(* The environment: failed calls, crashes, time.                           *)

Fail ==
  /\ failures < MaxFailures
  /\ failures' = failures + 1

\* Run surfaces a backend error; the deferred Release runs, a supervisor restarts it.
CallFails(w) ==
  /\ inst[w].pc \in {"attrs", "body", "page", "read", "enqueue", "write", "readback"}
  /\ Fail
  /\ Return(w)
  /\ UNCHANGED <<now, queues, cursor>>

\* The process dies, and its lease runs on.  A Release that fails is the same.
Crash(w) ==
  /\ inst[w].pc # "idle"
  /\ Fail
  /\ inst' = [inst EXCEPT ![w] = Idle]
  /\ claim' = [claim EXCEPT ![w] = 0]
  /\ UNCHANGED <<now, queues, cursor, holder, left>>

\* Without pauses a running instance always has a unit of its lease left.
Tick ==
  /\ Pauses \/ \A w \in Watchers : inst[w].pc # "idle" => claim[w] > 1
  /\ now' = IF now < MaxTime THEN now + 1 ELSE now
  /\ Lock!Tick
  /\ UNCHANGED <<queues, cursor, inst, failures>>

-----------------------------------------------------------------------------

Init ==
  /\ now = 0
  /\ stamped = {} /\ source = {} /\ local = {} /\ ever = {}
  /\ cursor = NoCursor
  /\ inst = [w \in Watchers |-> Idle]
  /\ Lock!Init
  /\ failures = 0

Step(w) ==
  \/ Acquired(w) \/ ReadVersion(w) \/ ReadBody(w) \/ Check(w) \/ PageSource(w)
  \/ ReadMessage(w) \/ EnqueueLocal(w) \/ WriteCursor(w) \/ ReadBack(w) \/ ReleaseLock(w)

Next ==
  \/ \E i \in Ids : Commit(i) \/ Vanish(i) \/ Consume(i)
  \/ \E w \in Watchers :
       Acquire(w) \/ Renew(w) \/ LockLost(w) \/ Step(w) \/ CallFails(w) \/ Crash(w)
  \/ Tick

Spec == Init /\ [][Next]_vars

-----------------------------------------------------------------------------
(* Safety.                                                                 *)

\* No message is passed over: what the cursor has left behind was enqueued
\* locally, unless it is gone from the source, whoever crashed, paused or rewound
\* the cursor on the way (watcher.go:173-192, queuetail.go:97-103).
NothingSkipped ==
  \A i \in source : i <= cursor.at => i \in ever

\* "the Watcher itself never rewinds" (watcher.go:53), save in one way: only an
\* instance that paused between its write and its read-back, and took the version of
\* a successor's cursor for its own, can move the cursor back.  Any other stale
\* holder, however long it paused, is refused by the compare-and-swap
\* (watcher.go:44-47, 252-270).
RewindsAreAdopted ==
  [][cursor'.at < cursor.at =>
       \E w \in Watchers :
         inst[w].pc = "write" /\ inst[w].adopted /\ cursor'.at = inst[w].next]_vars

\* "the Watcher itself never rewinds" (watcher.go:53), without exception: TLC finds
\* the pause that refutes it.
CursorNeverRewinds == [][cursor'.at >= cursor.at]_vars

-----------------------------------------------------------------------------
(* Liveness.  Instances run and are restarted, the clock runs, leases are  *)
(* renewed.                                                                *)

Fairness ==
  /\ WF_vars(Tick)
  /\ \A w \in Watchers :
       WF_vars(Acquire(w)) /\ WF_vars(Renew(w)) /\ WF_vars(LockLost(w)) /\ WF_vars(Step(w))

FairSpec == Spec /\ Fairness

\* Replication is complete: a message that stays in the source log reaches the
\* local queue, although holders crash and hand over.
EventuallyReplicated ==
  \A i \in Ids : i \in source ~> i \in ever \/ i \notin source
=============================================================================
