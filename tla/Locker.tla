------------------------------- MODULE Locker -------------------------------
(***************************************************************************)
(* The lease lock of locker.go: several clients contend for ONE lock       *)
(* object through a bucket that offers conditional writes.                 *)
(*                                                                         *)
(* Every bucket call is one atomic step, so that anything may happen       *)
(* between two calls of the same method: other clients run, time passes,   *)
(* the process pauses or dies.  A client has two threads, as in the code:  *)
(* the caller (TryAcquire, Release), whose program counter is pc, and the  *)
(* background renewer of its Lock handle (renewLoop), whose counter is rpc.*)
(*                                                                         *)
(* A deadline is kept as the time LEFT until it (0 once it has passed), so *)
(* "now + lease" is Lease, "!now.Before(until)" is until = 0, and the step *)
(* Tick, one unit of the clock that all hosts share, counts every deadline *)
(* down.  The state space is then finite although time never stops.        *)
(***************************************************************************)
EXTENDS Naturals, FiniteSets

CONSTANTS
  Clients,          \* the contenders; also the owner each one records
  NoOwner,          \* the owner field of a record no client wrote
  Lease,            \* lease duration, in clock units
  Versions,         \* version tokens a bucket may hand out
  NoVersion,        \* the token of an absent object
  ContentVersions,  \* TRUE: the token is a content hash (s3's ETag)
  LateWrites,       \* TRUE: a request whose caller gave up may still land
  MaxFailures       \* bound on crashes plus failed calls

ASSUME LeaseAssumption == Lease \in Nat \ {0}
ASSUME OwnerAssumption == NoOwner \notin Clients
ASSUME VersionAssumption == NoVersion \notin Versions /\ Versions # {}
ASSUME ConfigAssumption ==
  /\ ContentVersions \in BOOLEAN
  /\ LateWrites \in BOOLEAN
  /\ MaxFailures \in Nat

VARIABLES
  record,      \* the lock object: owner and lease deadline, plus its version
  pc,          \* pc[c]: the caller thread of c
  rpc,         \* rpc[c]: the renewer goroutine of c's handle
  seen,        \* seen[c]: the record the caller thread last read
  newUntil,    \* newUntil[c]: now + lease, as captured by the attempt under way
  version,     \* version[c], leaseUntil[c], err[c]: the fields of c's Lock
  leaseUntil,
  err,
  late,        \* late[c]: a request of c that may still reach the bucket
  failures     \* crashes and failed calls so far

handle == <<rpc, version, leaseUntil, err>>
vars == <<record, pc, seen, newUntil, handle, late, failures>>

Durations == 0 .. Lease
Tokens == Versions \cup {NoVersion}
Record == [owner : Clients \cup {NoOwner}, until : Durations, version : Tokens]
NoRecord == [owner |-> NoOwner, until |-> 0, version |-> NoVersion]
Request == [kind : {"none", "put", "delete"}, expect : Tokens, until : Durations]
NoRequest == [kind |-> "none", expect |-> NoVersion, until |-> 0]

CallerPC == {"idle", "get", "decide", "write", "readback", "held",
             "stopping", "relget", "reldelete"}
RenewerPC == {"none", "wait", "write", "readback", "exited"}

TypeOK ==
  /\ record \in Record
  /\ pc \in [Clients -> CallerPC]
  /\ rpc \in [Clients -> RenewerPC]
  /\ seen \in [Clients -> Record]
  /\ newUntil \in [Clients -> Durations]
  /\ version \in [Clients -> Tokens]
  /\ leaseUntil \in [Clients -> Durations]
  /\ err \in [Clients -> {"open", "lost", "clean"}]
  /\ late \in [Clients -> Request]
  /\ failures \in 0 .. MaxFailures

-----------------------------------------------------------------------------
(* The bucket.                                                             *)

Absent(r) == r.version = NoVersion

Expired(until) == until = 0

\* A write or delete is conditional on the token its caller last saw.  The
\* token of an absent object stands for IfNotExists, any other for IfMatch.
Passes(expect) == record.version = expect

InUse ==
  {record.version}
    \cup {seen[c].version : c \in Clients}
    \cup {version[c] : c \in Clients}
    \cup {late[c].expect : c \in Clients}

\* A write gives the object a token nobody knows yet.  On s3 the token is the
\* ETag, a hash of the body, and the body of every lock record is empty.
ETag == CHOOSE v \in Versions : TRUE
NewVersion == IF ContentVersions THEN ETag ELSE CHOOSE v \in Versions \ InUse : TRUE
VersionsLeft == ContentVersions \/ Versions \ InUse # {}

Put(c, until) ==
  /\ VersionsLeft
  /\ record' = [owner |-> c, until |-> until, version |-> NewVersion]

-----------------------------------------------------------------------------
(* Leaving a method: the caller is idle and its handle, if any, is gone.   *)

ToIdle(c) ==
  /\ pc' = [pc EXCEPT ![c] = "idle"]
  /\ seen' = [seen EXCEPT ![c] = NoRecord]
  /\ newUntil' = [newUntil EXCEPT ![c] = 0]
  /\ rpc' = [rpc EXCEPT ![c] = "none"]
  /\ version' = [version EXCEPT ![c] = NoVersion]
  /\ leaseUntil' = [leaseUntil EXCEPT ![c] = 0]
  /\ err' = [err EXCEPT ![c] = "open"]

\* finish: the first outcome of a handle stays.
Finish(c, outcome) ==
  err' = [err EXCEPT ![c] = IF err[c] = "open" THEN outcome ELSE err[c]]

-----------------------------------------------------------------------------
(* TryAcquire.  The blocking Acquire is this attempt, begun again.         *)

TryAcquire(c) ==
  /\ pc[c] = "idle"
  /\ pc' = [pc EXCEPT ![c] = "get"]
  /\ UNCHANGED <<record, seen, newUntil, handle, late, failures>>

GetRecord(c) ==
  /\ pc[c] = "get"
  /\ seen' = [seen EXCEPT ![c] = record]
  /\ pc' = [pc EXCEPT ![c] = "decide"]
  /\ UNCHANGED <<record, newUntil, handle, late, failures>>

\* Mutant of Decide: only an absent record can be acquired.
DecideNoTakeover(c) ==
  /\ pc[c] = "decide"
  /\ \/ /\ Absent(seen[c])
        /\ newUntil' = [newUntil EXCEPT ![c] = Lease]
        /\ pc' = [pc EXCEPT ![c] = "write"]
        /\ UNCHANGED <<seen, handle>>
     \/ /\ ~Absent(seen[c])
        /\ ToIdle(c)
  /\ UNCHANGED <<record, late, failures>>

\* The clock is read after the record: a live lease means ErrLockHeld, an
\* absent or expired record is written.
Decide(c) ==
  /\ pc[c] = "decide"
  /\ \/ /\ Absent(seen[c]) \/ Expired(seen[c].until)
        /\ newUntil' = [newUntil EXCEPT ![c] = Lease]
        /\ pc' = [pc EXCEPT ![c] = "write"]
        /\ UNCHANGED <<seen, handle>>
     \/ /\ ~Absent(seen[c]) /\ ~Expired(seen[c].until)
        /\ ToIdle(c)
  /\ UNCHANGED <<record, late, failures>>

\* Mutant of WriteRecord: the takeover is not conditional on the version read.
WriteUnconditionally(c) ==
  /\ pc[c] = "write"
  /\ Put(c, newUntil[c])
  /\ pc' = [pc EXCEPT ![c] = "readback"]
  /\ seen' = [seen EXCEPT ![c] = NoRecord]
  /\ UNCHANGED <<newUntil, handle, late, failures>>

\* createRecord or updateRecord: a lost race is ErrLockHeld.
WriteRecord(c) ==
  /\ pc[c] = "write"
  /\ \/ /\ Passes(seen[c].version)
        /\ Put(c, newUntil[c])
        /\ pc' = [pc EXCEPT ![c] = "readback"]
        /\ seen' = [seen EXCEPT ![c] = NoRecord]
        /\ UNCHANGED <<newUntil, handle>>
     \/ /\ ~Passes(seen[c].version)
        /\ ToIdle(c)
        /\ UNCHANGED record
  /\ UNCHANGED <<late, failures>>

\* Mutant of ReadBack: the handle's deadline counts from the end of the call.
ReadBackFromNow(c) ==
  /\ pc[c] = "readback" /\ ~Absent(record)
  /\ version' = [version EXCEPT ![c] = record.version]
  /\ leaseUntil' = [leaseUntil EXCEPT ![c] = Lease]
  /\ newUntil' = [newUntil EXCEPT ![c] = 0]
  /\ rpc' = [rpc EXCEPT ![c] = "wait"]
  /\ pc' = [pc EXCEPT ![c] = "held"]
  /\ UNCHANGED <<seen, err, record, late, failures>>

\* The token of the write is whatever a second read returns; start then hands
\* out the Lock and spawns its renewer.
ReadBack(c) ==
  /\ pc[c] = "readback"
  /\ \/ /\ ~Absent(record)
        /\ version' = [version EXCEPT ![c] = record.version]
        /\ leaseUntil' = [leaseUntil EXCEPT ![c] = newUntil[c]]
        /\ newUntil' = [newUntil EXCEPT ![c] = 0]
        /\ rpc' = [rpc EXCEPT ![c] = "wait"]
        /\ pc' = [pc EXCEPT ![c] = "held"]
        /\ UNCHANGED <<seen, err>>
     \/ /\ Absent(record)
        /\ ToIdle(c)
  /\ UNCHANGED <<record, late, failures>>

-----------------------------------------------------------------------------
(* renewLoop and renewOnce.                                                *)

\* Mutant of RenewTick: renews past its own deadline.
RenewPastDeadline(c) ==
  /\ rpc[c] = "wait"
  /\ newUntil' = [newUntil EXCEPT ![c] = Lease]
  /\ rpc' = [rpc EXCEPT ![c] = "write"]
  /\ UNCHANGED <<err, record, pc, seen, version, leaseUntil, late, failures>>

\* A tick: give up past the own deadline, else renew under a fresh "now".
RenewTick(c) ==
  /\ rpc[c] = "wait"
  /\ \/ /\ Expired(leaseUntil[c])
        /\ Finish(c, "lost")
        /\ rpc' = [rpc EXCEPT ![c] = "exited"]
        /\ UNCHANGED newUntil
     \/ /\ ~Expired(leaseUntil[c])
        /\ newUntil' = [newUntil EXCEPT ![c] = Lease]
        /\ rpc' = [rpc EXCEPT ![c] = "write"]
        /\ UNCHANGED err
  /\ UNCHANGED <<record, pc, seen, version, leaseUntil, late, failures>>

\* Mutant of RenewLost: the renewer exits without closing Done.
RenewGivesUpSilently(c) ==
  /\ rpc' = [rpc EXCEPT ![c] = "exited"]
  /\ newUntil' = [newUntil EXCEPT ![c] = 0]
  /\ UNCHANGED <<err, version, leaseUntil>>

RenewLost(c) ==
  /\ Finish(c, "lost")
  /\ rpc' = [rpc EXCEPT ![c] = "exited"]
  /\ newUntil' = [newUntil EXCEPT ![c] = 0]
  /\ UNCHANGED <<version, leaseUntil>>

RenewWrite(c) ==
  /\ rpc[c] = "write"
  /\ \/ /\ Passes(version[c])
        /\ Put(c, newUntil[c])
        /\ rpc' = [rpc EXCEPT ![c] = "readback"]
        /\ UNCHANGED <<newUntil, version, leaseUntil, err>>
     \/ /\ ~Passes(version[c])
        /\ RenewLost(c)
        /\ UNCHANGED record
  /\ UNCHANGED <<pc, seen, late, failures>>

RenewReadBack(c) ==
  /\ rpc[c] = "readback"
  /\ \/ /\ ~Absent(record)
        /\ version' = [version EXCEPT ![c] = record.version]
        /\ leaseUntil' = [leaseUntil EXCEPT ![c] = newUntil[c]]
        /\ newUntil' = [newUntil EXCEPT ![c] = 0]
        /\ rpc' = [rpc EXCEPT ![c] = "wait"]
        /\ UNCHANGED err
     \/ /\ Absent(record)
        /\ RenewLost(c)
  /\ UNCHANGED <<record, pc, seen, late, failures>>

\* The renewer notices that Release cancelled its context.
RenewExit(c) ==
  /\ pc[c] = "stopping" /\ rpc[c] = "wait"
  /\ rpc' = [rpc EXCEPT ![c] = "exited"]
  /\ UNCHANGED <<record, pc, seen, newUntil, version, leaseUntil, err, late, failures>>

-----------------------------------------------------------------------------
(* Release.                                                                *)

\* released is set and the renewer's context cancelled.
Release(c) ==
  /\ pc[c] = "held"
  /\ pc' = [pc EXCEPT ![c] = "stopping"]
  /\ UNCHANGED <<record, seen, newUntil, handle, late, failures>>

\* <-lk.stopped, then finish(nil).
ReleaseJoin(c) ==
  /\ pc[c] = "stopping" /\ rpc[c] = "exited"
  /\ Finish(c, "clean")
  /\ pc' = [pc EXCEPT ![c] = "relget"]
  /\ UNCHANGED <<record, seen, newUntil, rpc, version, leaseUntil, late, failures>>

ReleaseGet(c) ==
  /\ pc[c] = "relget"
  /\ \/ /\ ~Absent(record) /\ record.owner = c
        /\ seen' = [seen EXCEPT ![c] = record]
        /\ pc' = [pc EXCEPT ![c] = "reldelete"]
        /\ UNCHANGED <<newUntil, handle>>
     \/ /\ Absent(record) \/ record.owner # c
        /\ ToIdle(c)
  /\ UNCHANGED <<record, late, failures>>

\* Mutant of ReleaseDelete: the delete is not conditional on the version read.
ReleaseDeleteAnything(c) ==
  /\ pc[c] = "reldelete"
  /\ record' = NoRecord
  /\ ToIdle(c)
  /\ UNCHANGED <<late, failures>>

ReleaseDelete(c) ==
  /\ pc[c] = "reldelete"
  /\ record' = IF Passes(seen[c].version) THEN NoRecord ELSE record
  /\ ToIdle(c)
  /\ UNCHANGED <<late, failures>>

-----------------------------------------------------------------------------
(* The environment: failed calls, late requests, crashes, time.            *)

\* The request of a call whose caller stops waiting for the answer.
Pending(c) ==
  IF pc[c] = "write"
  THEN [kind |-> "put", expect |-> seen[c].version, until |-> newUntil[c]]
  ELSE IF pc[c] = "reldelete"
  THEN [kind |-> "delete", expect |-> seen[c].version, until |-> 0]
  ELSE IF rpc[c] = "write"
  THEN [kind |-> "put", expect |-> version[c], until |-> newUntil[c]]
  ELSE NoRequest

MayLandLater(c) ==
  late' = IF LateWrites /\ Pending(c) # NoRequest
          THEN [late EXCEPT ![c] = Pending(c)] ELSE late

Fail ==
  /\ failures < MaxFailures
  /\ failures' = failures + 1

\* An error other than ErrNotFound and ErrPreconditionFailed ends the method.
CallFails(c) ==
  /\ pc[c] \in {"get", "write", "readback", "relget", "reldelete"}
  /\ Fail
  /\ MayLandLater(c)
  /\ ToIdle(c)
  /\ UNCHANGED record

\* The renewer takes such an error for transient and waits for the next tick.
\* Cancelling its context ends a call the same way.
RenewCallFails(c) ==
  /\ rpc[c] \in {"write", "readback"}
  /\ \/ Fail
     \/ pc[c] = "stopping" /\ UNCHANGED failures
  /\ MayLandLater(c)
  /\ rpc' = [rpc EXCEPT ![c] = "wait"]
  /\ newUntil' = [newUntil EXCEPT ![c] = 0]
  /\ UNCHANGED <<record, pc, seen, version, leaseUntil, err>>

Crash(c) ==
  /\ pc[c] # "idle"
  /\ Fail
  /\ MayLandLater(c)
  /\ ToIdle(c)
  /\ UNCHANGED record

\* A request whose caller is gone reaches the bucket, or is lost for good.
LateLands(c) ==
  /\ late[c].kind # "none"
  /\ late' = [late EXCEPT ![c] = NoRequest]
  /\ \/ late[c].kind = "put" /\ Passes(late[c].expect) /\ Put(c, late[c].until)
     \/ late[c].kind = "delete" /\ Passes(late[c].expect) /\ record' = NoRecord
     \/ UNCHANGED record
  /\ UNCHANGED <<pc, seen, newUntil, handle, failures>>

Less(n) == IF n = 0 THEN 0 ELSE n - 1

Tick ==
  /\ record' = [record EXCEPT !.until = Less(@)]
  /\ seen' = [c \in Clients |-> [seen[c] EXCEPT !.until = Less(@)]]
  /\ newUntil' = [c \in Clients |-> Less(newUntil[c])]
  /\ leaseUntil' = [c \in Clients |-> Less(leaseUntil[c])]
  /\ late' = [c \in Clients |-> [late[c] EXCEPT !.until = Less(@)]]
  /\ UNCHANGED <<pc, rpc, version, err, failures>>

-----------------------------------------------------------------------------

\* At first there is no record, or one whose lease field cannot be read and
\* which therefore counts as expired.
Init ==
  /\ record \in {NoRecord} \cup
                {[owner |-> NoOwner, until |-> 0, version |-> v] : v \in {ETag}}
  /\ pc = [c \in Clients |-> "idle"]
  /\ rpc = [c \in Clients |-> "none"]
  /\ seen = [c \in Clients |-> NoRecord]
  /\ newUntil = [c \in Clients |-> 0]
  /\ version = [c \in Clients |-> NoVersion]
  /\ leaseUntil = [c \in Clients |-> 0]
  /\ err = [c \in Clients |-> "open"]
  /\ late = [c \in Clients |-> NoRequest]
  /\ failures = 0

Attempt(c) ==
  GetRecord(c) \/ Decide(c) \/ WriteRecord(c) \/ ReadBack(c)

Renewer(c) ==
  RenewTick(c) \/ RenewWrite(c) \/ RenewReadBack(c) \/ RenewExit(c)

Releasing(c) ==
  ReleaseJoin(c) \/ ReleaseGet(c) \/ ReleaseDelete(c)

Environment(c) ==
  CallFails(c) \/ RenewCallFails(c) \/ Crash(c) \/ LateLands(c)

Next ==
  \/ \E c \in Clients :
       TryAcquire(c) \/ Attempt(c) \/ Renewer(c) \/ Release(c) \/ Releasing(c)
         \/ Environment(c)
  \/ Tick

Spec == Init /\ [][Next]_vars

-----------------------------------------------------------------------------
(* Safety.                                                                 *)

\* c was handed a Lock, has not released it, and its Done channel is open.
Holds(c) == pc[c] = "held" /\ err[c] = "open"

\* Mutual exclusion within the lease: no two clients hold open locks whose own
\* deadlines have both not passed.  This is what Acquire's CAS on an absent or
\* expired record, the renewer's CAS on the cached version and its deadline
\* check are for (locker.go:214-245, 444-490).
MutualExclusion ==
  \A c, d \in Clients :
    (Holds(c) /\ ~Expired(leaseUntil[c]) /\ Holds(d) /\ ~Expired(leaseUntil[d]))
      => c = d

\* The record backs every claim: a client that still trusts its own deadline is
\* the recorded owner, and the recorded deadline is not earlier than its own
\* (so no contender can judge the lease expired before the holder does).
ClaimIsRecorded ==
  \A c \in Clients :
    Holds(c) /\ ~Expired(leaseUntil[c])
      => record.owner = c /\ record.until >= leaseUntil[c]

\* The version read back after a write is one's own as long as the lease just
\* written has not run out: "the read cannot observe a foreign write within the
\* lease" (locker.go:274-277), for acquisition and renewal.
ReadBackIsOwn ==
  \A c \in Clients :
    (pc[c] = "readback" \/ rpc[c] = "readback") /\ ~Expired(newUntil[c])
      => record.owner = c /\ record.until >= newUntil[c]

\* A live record is never overwritten or deleted by anyone but its owner, and
\* its deadline is never moved forward in time by another client: Release
\* deletes only what is still its own, takeover only what has expired.
LiveRecordIsOwners ==
  [][ ~Absent(record) /\ ~Expired(record.until) /\ record'.owner # record.owner
        => \E c \in Clients :
             /\ c = record.owner
             /\ Absent(record')
             /\ \/ pc[c] = "reldelete" /\ pc'[c] = "idle"
                \/ late[c].kind = "delete" /\ late'[c] = NoRequest ]_vars

\* "A transient error is not fatal on its own" (locker.go:471-472): a lock is
\* declared lost only when its deadline has passed or the record is not its own.
LostOnlyIfLost ==
  [][ \A c \in Clients :
        err[c] = "open" /\ err'[c] = "lost"
          => Expired(leaseUntil[c]) \/ Absent(record) \/ record.owner # c ]_vars

\* The abstract lock: its holder is the recorded owner, and a client claims the
\* lock while its Done channel is open and its own deadline has not passed.
Claims == [c \in Clients |-> IF Holds(c) THEN leaseUntil[c] ELSE 0]
Promise == INSTANCE LeaseLock WITH
  holder <- record.owner,
  left <- record.until,
  claim <- Claims

\* The lock implements the lease lock of module LeaseLock: leases are given out
\* only when free or expired, extended and given back only by their holder, and
\* claims stay within the lease, whatever fails and whatever arrives late.
KeepsPromise == Promise!Spec

-----------------------------------------------------------------------------
(* Liveness.  Goroutines and calls that return are scheduled, the clock    *)
(* runs, a blocked Acquire polls again; a holder need never release.       *)
(* The renewer's select chooses at random between a tick and the cancelled *)
(* context when both are ready, so it does not prefer the tick for ever.   *)

Fairness ==
  /\ WF_vars(Tick)
  /\ \A c \in Clients :
       /\ WF_vars(TryAcquire(c))
       /\ WF_vars(Attempt(c))
       /\ WF_vars(Renewer(c))
       /\ SF_vars(RenewExit(c))
       /\ WF_vars(Releasing(c))

FairSpec == Spec /\ Fairness

\* The lock heals: whatever crashed holders, failed calls and late requests
\* leave behind, an attempt is followed by somebody holding the lock, with its Done
\* channel open.
EventuallyHeld ==
  \A c \in Clients : pc[c] = "get" ~> \E d \in Clients : Holds(d)

\* A holder whose record was taken over hears of it: its handle is finished (or
\* its process is gone) in the end, because the renewer's CAS fails or its
\* deadline passes.
TakeoverIsNoticed ==
  \A c \in Clients :
    Holds(c) /\ record.owner # c ~> ~Holds(c)
=============================================================================
