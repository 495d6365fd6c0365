---------------------------- MODULE LockerProofs ----------------------------
(***************************************************************************)
(* Proofs about the lease lock: for every set of clients, every lease      *)
(* length, and every pattern of failures and late requests, provided that  *)
(* each write gives the object a fresh version token.                      *)
(***************************************************************************)
EXTENDS Locker, TLAPS

\* A leaf goes to Zenon unless it names another prover.
USE ZenonT(30)

\* Which threads of a client exist together, and what their tokens are worth.
Threads(c) ==
  /\ rpc[c] = "none" <=> pc[c] \notin {"held", "stopping", "relget", "reldelete"}
  /\ pc[c] \in {"relget", "reldelete"} => rpc[c] = "exited"
  /\ pc[c] = "held" /\ rpc[c] = "exited" => err[c] # "open"
  /\ rpc[c] \in {"wait", "write", "readback"} => version[c] # NoVersion

\* A remembered record whose token still matches is the record; a takeover was
\* decided on an expired one, a release on one's own.
Remembered(c) ==
  /\ Absent(seen[c]) => seen[c] = NoRecord
  /\ seen[c].version = record.version => seen[c] = record
  /\ pc[c] = "write" => Absent(seen[c]) \/ Expired(seen[c].until)
  /\ pc[c] = "reldelete" => seen[c].owner = c /\ ~Absent(seen[c])

\* A write just made still stands while its lease runs.
JustWritten(c) ==
  (pc[c] = "readback" \/ rpc[c] = "readback") /\ ~Expired(newUntil[c])
    => /\ record.owner = c
       /\ record.until >= newUntil[c]
       /\ late[c].kind # "none" => late[c].expect # record.version

\* The renewer's token is one's own as long as it can be used.
Renewing(c) ==
  /\ rpc[c] = "wait" /\ ~Expired(leaseUntil[c]) /\ version[c] = record.version
       => record.owner = c
  /\ rpc[c] \in {"write", "readback"} /\ version[c] = record.version => record.owner = c
  /\ rpc[c] \in {"write", "readback"} => newUntil[c] >= leaseUntil[c]

\* A claim is backed by the record, and a late request does not cut it short.
Claiming(c) ==
  Holds(c) /\ ~Expired(leaseUntil[c])
    => /\ record.owner = c
       /\ record.until >= leaseUntil[c]
       /\ late[c].kind # "none" /\ late[c].expect = record.version
            => late[c].kind = "put" /\ late[c].until >= leaseUntil[c]

\* A late request that can still take effect harms nobody's live lease.
Late(c) ==
  /\ late[c].kind = "put" /\ late[c].expect = record.version
       => record.owner = c \/ Expired(record.until)
  /\ late[c].kind = "delete"
       => /\ late[c].expect # NoVersion
          /\ late[c].expect = record.version => record.owner = c

ClientInv(c) ==
  Threads(c) /\ Remembered(c) /\ JustWritten(c) /\ Renewing(c) /\ Claiming(c) /\ Late(c)

\* The inductive invariant: every client's view is right, whenever its token
\* still matches that of the record (locker.go:214-294, 409-490).
LockInv ==
  /\ TypeOK
  /\ Absent(record) => record = NoRecord
  /\ \A c \in Clients : ClientInv(c)

-----------------------------------------------------------------------------
(* Type correctness, with any kind of version token.                       *)

LEMMA NewVersionType ==
  ASSUME VersionsLeft
  PROVE  NewVersion \in Versions
BY VersionAssumption DEF VersionsLeft, NewVersion, ETag

LEMMA NoRecordFields ==
  NoRecord.owner = NoOwner /\ NoRecord.until = 0 /\ NoRecord.version = NoVersion
BY DEF NoRecord

LEMMA NoRequestFields == NoRequest.kind = "none"
BY DEF NoRequest

LEMMA NoRecordType == NoRecord \in Record
BY LeaseAssumption, SMTT(30) DEF NoRecord, Record, Tokens, Durations

LEMMA PutType ==
  ASSUME NEW c \in Clients, NEW u \in Durations, Put(c, u)
  PROVE  record' \in Record
BY NewVersionType DEF Put, Record, Tokens

LEMMA ToIdleType ==
  ASSUME TypeOK, NEW c \in Clients, ToIdle(c)
  PROVE  /\ pc' \in [Clients -> CallerPC]
         /\ rpc' \in [Clients -> RenewerPC]
         /\ seen' \in [Clients -> Record]
         /\ newUntil' \in [Clients -> Durations]
         /\ version' \in [Clients -> Tokens]
         /\ leaseUntil' \in [Clients -> Durations]
         /\ err' \in [Clients -> {"open", "lost", "clean"}]
BY LeaseAssumption, SMTT(30)
DEF TypeOK, ToIdle, NoRecord, Record, Tokens, Durations, CallerPC, RenewerPC

LEMMA PendingType ==
  ASSUME TypeOK, NEW c \in Clients, MayLandLater(c)
  PROVE  late' \in [Clients -> Request]
<1>1. Pending(c) \in Request
  BY LeaseAssumption, SMTT(30) DEF TypeOK, Pending, NoRequest, Request, Record, Durations, Tokens
<1>2. QED
  BY <1>1 DEF TypeOK, MayLandLater

LEMMA LessType ==
  ASSUME NEW n \in Durations
  PROVE  Less(n) \in Durations
BY LeaseAssumption, SMTT(30) DEF Less, Durations

LEMMA TypeStep == TypeOK /\ [Next]_vars => TypeOK'
<1> SUFFICES ASSUME TypeOK, [Next]_vars PROVE TypeOK'
  OBVIOUS
<1> USE LeaseAssumption
<1>1. ASSUME NEW c \in Clients, TryAcquire(c) PROVE TypeOK'
  BY <1>1 DEF TypeOK, TryAcquire, handle, CallerPC
<1>2. ASSUME NEW c \in Clients, GetRecord(c) PROVE TypeOK'
  BY <1>2 DEF TypeOK, GetRecord, handle, CallerPC
<1>3. ASSUME NEW c \in Clients, Decide(c) PROVE TypeOK'
  BY <1>3, ToIdleType, SMTT(30) DEF TypeOK, Decide, handle, CallerPC, Durations
<1>4. ASSUME NEW c \in Clients, WriteRecord(c) PROVE TypeOK'
  <2>1. CASE Passes(seen[c].version)
    <3>1. record' \in Record
      BY <1>4, <2>1, PutType DEF TypeOK, WriteRecord
    <3>2. QED
      BY <1>4, <2>1, <3>1, NoRecordType, SMTT(30) DEF TypeOK, WriteRecord, handle, CallerPC
  <2>2. CASE ~Passes(seen[c].version)
    BY <1>4, <2>2, ToIdleType DEF TypeOK, WriteRecord
  <2>3. QED
    BY <2>1, <2>2
<1>5. ASSUME NEW c \in Clients, ReadBack(c) PROVE TypeOK'
  BY <1>5, ToIdleType, SMTT(30) DEF TypeOK, ReadBack, CallerPC, RenewerPC, Record, Durations
<1>6. ASSUME NEW c \in Clients, RenewTick(c) PROVE TypeOK'
  BY <1>6, SMTT(30) DEF TypeOK, RenewTick, Finish, RenewerPC, Durations
<1>7. ASSUME NEW c \in Clients, RenewWrite(c) PROVE TypeOK'
  BY <1>7, PutType, SMTT(30) DEF TypeOK, RenewWrite, RenewLost, Finish, RenewerPC, Durations
<1>8. ASSUME NEW c \in Clients, RenewReadBack(c) PROVE TypeOK'
  BY <1>8, SMTT(30) DEF TypeOK, RenewReadBack, RenewLost, Finish, RenewerPC, Record, Durations
<1>9. ASSUME NEW c \in Clients, RenewExit(c) PROVE TypeOK'
  BY <1>9 DEF TypeOK, RenewExit, RenewerPC
<1>10. ASSUME NEW c \in Clients, Release(c) PROVE TypeOK'
  BY <1>10 DEF TypeOK, Release, handle, CallerPC
<1>11. ASSUME NEW c \in Clients, ReleaseJoin(c) PROVE TypeOK'
  BY <1>11 DEF TypeOK, ReleaseJoin, Finish, CallerPC
<1>12. ASSUME NEW c \in Clients, ReleaseGet(c) PROVE TypeOK'
  BY <1>12, ToIdleType, SMTT(30) DEF TypeOK, ReleaseGet, handle, CallerPC
<1>13. ASSUME NEW c \in Clients, ReleaseDelete(c) PROVE TypeOK'
  BY <1>13, ToIdleType, SMTT(30) DEF TypeOK, ReleaseDelete, NoRecord, Record, Tokens, Durations
<1>14. ASSUME NEW c \in Clients, CallFails(c) \/ Crash(c) PROVE TypeOK'
  <2>1. late' \in [Clients -> Request] /\ failures' \in 0 .. MaxFailures
    BY <1>14, PendingType, ConfigAssumption, SMTT(30) DEF TypeOK, CallFails, Crash, Fail
  <2>2. QED
    BY <1>14, <2>1, ToIdleType DEF TypeOK, CallFails, Crash
<1>15. ASSUME NEW c \in Clients, RenewCallFails(c) PROVE TypeOK'
  <2>1. late' \in [Clients -> Request] /\ failures' \in 0 .. MaxFailures
    BY <1>15, PendingType, ConfigAssumption, SMTT(30) DEF TypeOK, RenewCallFails, Fail
  <2>2. rpc' \in [Clients -> RenewerPC] /\ newUntil' \in [Clients -> Durations]
    BY <1>15, SMTT(30) DEF TypeOK, RenewCallFails, RenewerPC, Durations
  <2>3. QED
    BY <1>15, <2>1, <2>2 DEF TypeOK, RenewCallFails
<1>16. ASSUME NEW c \in Clients, LateLands(c) PROVE TypeOK'
  <2>1. late[c].until \in Durations
    BY DEF TypeOK, Request
  <2>2. record' \in Record
    BY <1>16, <2>1, PutType, SMTT(30) DEF TypeOK, LateLands, NoRecord, Record, Tokens, Durations
  <2>3. QED
    BY <1>16, <2>2, SMTT(30) DEF TypeOK, LateLands, handle, NoRequest, Request, Tokens, Durations
<1>17. CASE Tick
  <2>1. record' \in Record
    BY <1>17, LessType DEF TypeOK, Tick, Record
  <2>2. seen' \in [Clients -> Record]
    BY <1>17, LessType DEF TypeOK, Tick, Record
  <2>3. late' \in [Clients -> Request]
    BY <1>17, LessType DEF TypeOK, Tick, Request
  <2>4. QED
    BY <1>17, <2>1, <2>2, <2>3, LessType DEF TypeOK, Tick
<1>18. CASE UNCHANGED vars
  BY <1>18 DEF TypeOK, vars, handle
<1>19. QED
  BY <1>1, <1>2, <1>3, <1>4, <1>5, <1>6, <1>7, <1>8, <1>9, <1>10, <1>11, <1>12,
     <1>13, <1>14, <1>15, <1>16, <1>17, <1>18
  DEF Next, Attempt, Renewer, Releasing, Environment

LEMMA InitType == Init => TypeOK
BY LeaseAssumption, VersionAssumption, ConfigAssumption, SMTT(30)
DEF Init, TypeOK, NoRecord, Record, NoRequest, Request, ETag, Tokens, Durations,
    CallerPC, RenewerPC

\* Every step keeps every variable in its type.
THEOREM TypeCorrect == Spec => []TypeOK
BY InitType, TypeStep, PTL DEF Spec

-----------------------------------------------------------------------------
(* The inductive invariant, with fresh version tokens.                     *)

\* The token of a write matches nothing that anybody remembers.
LEMMA PutIsFresh ==
  ASSUME TypeOK, ~ContentVersions, NEW c \in Clients, NEW u \in Durations, Put(c, u)
  PROVE  /\ record'.owner = c /\ record'.until = u
         /\ record'.version # NoVersion /\ record'.version # record.version
         /\ \A d \in Clients :
              /\ record'.version # seen[d].version
              /\ record'.version # version[d]
              /\ record'.version # late[d].expect
<1>1. NewVersion \in Versions \ InUse
  BY DEF Put, VersionsLeft, NewVersion
<1>2. QED
  BY <1>1, VersionAssumption DEF Put, InUse

\* What a client knows and does is its own.
Same(d) ==
  /\ pc'[d] = pc[d] /\ rpc'[d] = rpc[d] /\ seen'[d] = seen[d]
  /\ newUntil'[d] = newUntil[d] /\ version'[d] = version[d]
  /\ leaseUntil'[d] = leaseUntil[d] /\ err'[d] = err[d] /\ late'[d] = late[d]

\* The record is left alone, replaced while expired or not d's, or deleted while
\* not d's.
Harmless(d) ==
  \/ record' = record
  \/ /\ record'.version \notin {NoVersion, seen[d].version, version[d], late[d].expect}
     /\ record.owner # d \/ Expired(record.until)
  \/ record' = NoRecord /\ record.owner # d

\* A client that does not move keeps its part of the invariant.
LEMMA Bystander ==
  ASSUME LockInv, NEW d \in Clients, Same(d), Harmless(d), TypeOK'
  PROVE  ClientInv(d)'
<1> USE DEF Expired, Absent, LockInv, ClientInv, Same, Harmless
<1>1. Threads(d)'
  BY DEF Threads
<1>2. Remembered(d)'
  BY SMTT(30) DEF Remembered, NoRecord
<1>3. JustWritten(d)'
  BY LeaseAssumption, SMTT(30) DEF JustWritten, NoRecord, TypeOK, Durations, Record
<1>4. Renewing(d)'
  BY SMTT(30) DEF Renewing, Threads, NoRecord
<1>5. Claiming(d)'
  <2>1. leaseUntil[d] \in Nat /\ record.until \in Nat
    BY SMTT(30) DEF TypeOK, Durations, Record
  <2>2. Claiming(d)
    OBVIOUS
  <2>3. SUFFICES ASSUME Holds(d), leaseUntil[d] # 0
                 PROVE  record' = record
    BY <2>2 DEF Claiming, Holds
  <2>4. record.owner = d /\ record.until >= leaseUntil[d]
    BY <2>2, <2>3 DEF Claiming
  <2>5. record.until # 0
    BY <2>1, <2>3, <2>4, SMTT(30)
  <2>6. QED
    BY <2>4, <2>5
<1>6. Late(d)'
  BY SMTT(30) DEF Late, NoRecord
<1>7. QED
  BY <1>1, <1>2, <1>3, <1>4, <1>5, <1>6

LEMMA OneMoves ==
  ASSUME LockInv, NEW c \in Clients, TypeOK',
         Absent(record') => record' = NoRecord,
         ClientInv(c)',
         \A d \in Clients \ {c} : Same(d) /\ Harmless(d)
  PROVE  LockInv'
<1>1. \A d \in Clients : ClientInv(d)'
  BY Bystander
<1>2. QED
  BY <1>1 DEF LockInv, Absent

\* A write of a client whose lease it is, or over an expired lease.
LEMMA PutIsHarmless ==
  ASSUME LockInv, ~ContentVersions, NEW c \in Clients, NEW u \in Durations, Put(c, u),
         record.owner = c \/ Expired(record.until)
  PROVE  \A d \in Clients \ {c} : Harmless(d)
BY PutIsFresh DEF LockInv, Harmless

LEMMA Idle ==
  ASSUME LockInv, NEW c \in Clients, ToIdle(c), TypeOK',
         Absent(record') => record' = NoRecord,
         Late(c)'
  PROVE  ClientInv(c)'
<1>1. /\ pc'[c] = "idle" /\ rpc'[c] = "none" /\ seen'[c] = NoRecord
      /\ newUntil'[c] = 0 /\ leaseUntil'[c] = 0
  BY DEF ToIdle, LockInv, TypeOK
<1>2. Threads(c)' /\ JustWritten(c)' /\ Renewing(c)' /\ Claiming(c)'
  BY <1>1 DEF Threads, JustWritten, Renewing, Claiming, Holds, Expired
<1>3. Remembered(c)'
  BY <1>1, SMTT(30) DEF Remembered, Absent, NoRecord
<1>4. QED
  BY <1>2, <1>3 DEF ClientInv

LEMMA OthersSame ==
  ASSUME TypeOK, NEW c \in Clients, NEW d \in Clients \ {c}, ToIdle(c), late'[d] = late[d]
  PROVE  Same(d)
BY DEF TypeOK, ToIdle, Same

-----------------------------------------------------------------------------
(* One lemma per kind of step.                                             *)

LEMMA AttemptStep ==
  ASSUME LockInv, ~ContentVersions, TypeOK', NEW c \in Clients,
         TryAcquire(c) \/ GetRecord(c) \/ Decide(c) \/ ReadBack(c)
  PROVE  LockInv'
<1> USE DEF LockInv
<1>1. record' = record /\ late' = late
  BY DEF TryAcquire, GetRecord, Decide, ReadBack
<1>2. \A d \in Clients \ {c} : Same(d) /\ Harmless(d)
  BY <1>1, OthersSame, SMTT(30) DEF TryAcquire, GetRecord, Decide, ReadBack, handle, TypeOK, Same, Harmless
<1>3. ASSUME ToIdle(c) PROVE ClientInv(c)'
  BY <1>1, <1>3, Idle DEF ClientInv, Late
<1>4. ASSUME pc[c] \in {"idle", "get", "decide"}, pc'[c] \in {"get", "decide", "write"},
             rpc' = rpc, version' = version, leaseUntil' = leaseUntil, err' = err, Remembered(c)'
      PROVE  ClientInv(c)'
  <2>1. rpc[c] = "none"
    BY <1>4 DEF ClientInv, Threads
  <2>2. Threads(c)'
    BY <1>4, <2>1 DEF Threads
  <2>3. JustWritten(c)' /\ Renewing(c)' /\ Claiming(c)'
    BY <1>4, <2>1 DEF JustWritten, Renewing, Claiming, Holds
  <2>4. Late(c)'
    BY <1>1 DEF Late, ClientInv
  <2>5. QED
    BY <1>4, <2>2, <2>3, <2>4 DEF ClientInv
<1>5. ASSUME TryAcquire(c) \/ GetRecord(c) PROVE ClientInv(c)'
  <2>1. /\ pc[c] \in {"idle", "get"} /\ pc'[c] \in {"get", "decide"}
        /\ rpc' = rpc /\ version' = version /\ leaseUntil' = leaseUntil /\ err' = err
        /\ seen'[c] = seen[c] \/ seen'[c] = record
    BY <1>5 DEF TryAcquire, GetRecord, handle, TypeOK
  <2>2. Remembered(c)'
    BY <1>1, <2>1 DEF Remembered, ClientInv, Absent
  <2>3. QED
    BY <1>4, <2>1, <2>2
<1>6. ASSUME Decide(c), ~ToIdle(c) PROVE ClientInv(c)'
  <2>1. /\ pc[c] = "decide" /\ pc'[c] = "write" /\ seen' = seen
        /\ rpc' = rpc /\ version' = version /\ leaseUntil' = leaseUntil /\ err' = err
        /\ Absent(seen[c]) \/ Expired(seen[c].until)
    BY <1>6 DEF Decide, handle, TypeOK
  <2>2. Remembered(c)'
    BY <1>1, <2>1 DEF Remembered, ClientInv, Absent
  <2>3. QED
    BY <1>4, <2>1, <2>2
<1>7. ASSUME ReadBack(c), ~ToIdle(c) PROVE ClientInv(c)'
  <2>1. ~Absent(record) /\ rpc[c] = "none"
    BY <1>7 DEF ReadBack, ClientInv, Threads
  <2>2. /\ pc'[c] = "held" /\ rpc'[c] = "wait" /\ version'[c] = record.version
        /\ leaseUntil'[c] = newUntil[c] /\ seen' = seen
    BY <1>7, SMTT(30) DEF ReadBack, TypeOK
  <2>3. Threads(c)' /\ Remembered(c)' /\ Late(c)'
    BY <1>1, <2>1, <2>2 DEF Threads, Remembered, Late, ClientInv, Absent
  <2>4. JustWritten(c)' /\ Renewing(c)' /\ Claiming(c)'
    BY <1>1, <1>7, <2>2, SMTT(30) DEF ReadBack, JustWritten, Renewing, Claiming, ClientInv
  <2>5. QED
    BY <2>3, <2>4 DEF ClientInv
<1>8. QED
  BY <1>1, <1>2, <1>3, <1>5, <1>6, <1>7, OneMoves

\* The write of TryAcquire passes only over a record that is gone or expired.
LEMMA WritesOverExpired ==
  ASSUME LockInv, NEW c \in Clients, pc[c] = "write", Passes(seen[c].version)
  PROVE  Expired(record.until)
<1>1. Remembered(c)
  BY DEF LockInv, ClientInv
<1>2. seen[c] = record /\ (seen[c] = NoRecord \/ Expired(seen[c].until))
  BY <1>1 DEF Passes, Remembered
<1>3. QED
  BY <1>2, SMTT(30) DEF NoRecord, Expired

LEMMA WriteRecordStep ==
  ASSUME LockInv, ~ContentVersions, TypeOK', NEW c \in Clients, WriteRecord(c)
  PROVE  LockInv'
<1> USE DEF LockInv
<1>1. CASE ~Passes(seen[c].version)
  <2>1. ToIdle(c) /\ record' = record /\ late' = late
    BY <1>1 DEF WriteRecord
  <2>2. ClientInv(c)'
    BY <2>1, Idle DEF ClientInv, Late
  <2>3. QED
    BY <2>1, <2>2, OthersSame, OneMoves DEF Harmless
<1>2. CASE Passes(seen[c].version)
  <2>1. Put(c, newUntil[c]) /\ newUntil[c] \in Durations
    BY <1>2 DEF WriteRecord, TypeOK
  <2>2. Expired(record.until)
    BY <1>2, WritesOverExpired DEF WriteRecord
  <2>3. \A d \in Clients \ {c} : Same(d) /\ Harmless(d)
    BY <1>2, <2>1, <2>2, PutIsHarmless, SMTT(30) DEF WriteRecord, handle, TypeOK, Same
  <2>4. /\ pc[c] = "write" /\ pc'[c] = "readback" /\ seen'[c] = NoRecord
        /\ UNCHANGED <<newUntil, rpc, version, leaseUntil, err, late>>
    BY <1>2 DEF WriteRecord, handle, TypeOK
  <2>5. rpc[c] = "none"
    BY <2>4 DEF ClientInv, Threads
  <2>6. Threads(c)' /\ Remembered(c)' /\ Renewing(c)' /\ Claiming(c)' /\ Late(c)'
    <3>1. record'.version # NoVersion /\ record'.version # late[c].expect
      BY <2>1, PutIsFresh
    <3>2. Threads(c)' /\ Renewing(c)' /\ Claiming(c)'
      BY <2>4, <2>5 DEF Threads, Renewing, Claiming, Holds
    <3>3. Remembered(c)'
      BY <2>4, <3>1, NoRecordFields DEF Remembered
    <3>4. Late(c)'
      BY <2>4, <3>1 DEF Late, ClientInv
    <3>5. QED
      BY <3>2, <3>3, <3>4
  <2>7. JustWritten(c)'
    BY <2>1, <2>4, PutIsFresh, SMTT(30) DEF JustWritten, TypeOK, Durations
  <2>8. QED
    BY <2>1, <2>3, <2>6, <2>7, PutIsFresh, OneMoves DEF ClientInv, Absent
<1>3. QED
  BY <1>1, <1>2

LEMMA RenewWriteStep ==
  ASSUME LockInv, ~ContentVersions, TypeOK', NEW c \in Clients, RenewWrite(c)
  PROVE  LockInv'
<1> USE DEF LockInv
<1>1. rpc[c] = "write" /\ late' = late /\ pc' = pc /\ seen' = seen
  BY DEF RenewWrite
<1>2. CASE ~Passes(version[c])
  <2>1. /\ record' = record /\ rpc'[c] = "exited" /\ err'[c] # "open"
        /\ version' = version /\ leaseUntil' = leaseUntil
    BY <1>2, SMTT(30) DEF RenewWrite, RenewLost, Finish, TypeOK
  <2>2. \A d \in Clients \ {c} : Same(d) /\ Harmless(d)
    BY <1>1, <1>2, <2>1, SMTT(30) DEF RenewWrite, RenewLost, Finish, TypeOK, Same, Harmless
  <2>3. ClientInv(c)'
    BY <1>1, <2>1 DEF ClientInv, Threads, Remembered, JustWritten, Renewing, Claiming, Holds, Late
  <2>4. QED
    BY <2>1, <2>2, <2>3, OneMoves
<1>3. CASE Passes(version[c])
  <2>1. /\ Put(c, newUntil[c]) /\ newUntil[c] \in Durations /\ record.owner = c
        /\ newUntil[c] >= leaseUntil[c]
    BY <1>1, <1>3 DEF RenewWrite, Passes, ClientInv, Renewing, TypeOK
  <2>2. \A d \in Clients \ {c} : Same(d) /\ Harmless(d)
    BY <1>1, <1>3, <2>1, PutIsHarmless DEF RenewWrite, TypeOK, Same
  <2>3. /\ rpc'[c] = "readback"
        /\ UNCHANGED <<newUntil, version, leaseUntil, err>>
    BY <1>3 DEF RenewWrite, TypeOK
  <2>4. Threads(c)' /\ Remembered(c)' /\ Late(c)'
    BY <1>1, <2>1, <2>3, PutIsFresh DEF Threads, Remembered, Late, ClientInv, Absent
  <2>5. Renewing(c)' /\ JustWritten(c)' /\ Claiming(c)'
    <3>1. /\ record'.owner = c /\ record'.until = newUntil[c]
          /\ late[c].expect # record'.version
      BY <2>1, PutIsFresh
    <3>2. newUntil[c] \in Nat
      BY <2>1, SMTT(30) DEF Durations
    <3>3. Renewing(c)'
      BY <2>1, <2>3, <3>1 DEF Renewing
    <3>4. JustWritten(c)' /\ Claiming(c)'
      BY <1>1, <2>1, <2>3, <3>1, <3>2, SMTT(30) DEF JustWritten, Claiming
    <3>5. QED
      BY <3>3, <3>4
  <2>6. QED
    BY <2>1, <2>2, <2>4, <2>5, PutIsFresh, OneMoves DEF ClientInv, Absent
<1>4. QED
  BY <1>2, <1>3

LEMMA RenewerStep ==
  ASSUME LockInv, ~ContentVersions, TypeOK', NEW c \in Clients,
         RenewTick(c) \/ RenewReadBack(c) \/ RenewExit(c)
  PROVE  LockInv'
<1> USE DEF LockInv
<1>1. record' = record /\ late' = late /\ pc' = pc /\ seen' = seen
  BY DEF RenewTick, RenewReadBack, RenewExit
<1>2. \A d \in Clients \ {c} : Same(d) /\ Harmless(d)
  BY <1>1, SMTT(30) DEF RenewTick, RenewReadBack, RenewExit, RenewLost, Finish, TypeOK, Same, Harmless
<1>3. Remembered(c)' /\ Late(c)'
  BY <1>1 DEF Remembered, Late, ClientInv
<1>4. ASSUME RenewTick(c) PROVE ClientInv(c)'
  <2>1. leaseUntil[c] \in Durations /\ Lease \in Durations
    BY LeaseAssumption, SMTT(30) DEF TypeOK, Durations
  <2>2. CASE Expired(leaseUntil[c])
    <3>1. rpc[c] = "wait" /\ rpc'[c] = "exited" /\ err'[c] # "open"
      BY <1>4, <2>2, SMTT(30) DEF RenewTick, Finish, TypeOK
    <3>2. Threads(c)' /\ JustWritten(c)' /\ Renewing(c)' /\ Claiming(c)'
      BY <1>1, <3>1 DEF Threads, JustWritten, Renewing, Claiming, Holds, ClientInv
    <3>3. QED
      BY <1>3, <3>2 DEF ClientInv
  <2>3. CASE ~Expired(leaseUntil[c])
    <3>1. /\ rpc[c] = "wait" /\ rpc'[c] = "write" /\ newUntil'[c] = Lease
          /\ UNCHANGED <<version, leaseUntil, err>>
      BY <1>4, <2>3, SMTT(30) DEF RenewTick, TypeOK
    <3>2. Threads(c)' /\ Claiming(c)'
      BY <1>1, <3>1 DEF Threads, Claiming, Holds, ClientInv
    <3>3. JustWritten(c)'
      BY <1>1, <3>1 DEF Threads, JustWritten, ClientInv
    <3>4. Renewing(c)'
      <4>1. newUntil'[c] >= leaseUntil'[c]
        BY <2>1, <3>1, LeaseAssumption, SMTT(30) DEF Durations
      <4>2. version[c] = record.version => record.owner = c
        BY <2>3, <3>1 DEF ClientInv, Renewing
      <4>3. QED
        BY <1>1, <3>1, <4>1, <4>2 DEF Renewing
    <3>5. QED
      BY <1>3, <3>2, <3>3, <3>4 DEF ClientInv
  <2>4. QED
    BY <2>2, <2>3
<1>5. ASSUME RenewReadBack(c) PROVE ClientInv(c)'
  <2>1. CASE Absent(record)
    <3>1. rpc[c] = "readback" /\ rpc'[c] = "exited" /\ err'[c] # "open"
      BY <1>5, <2>1, SMTT(30) DEF RenewReadBack, RenewLost, Finish, TypeOK
    <3>2. Threads(c)'
      BY <1>1, <3>1 DEF Threads, ClientInv
    <3>3. pc[c] # "readback"
      BY <3>1 DEF Threads, ClientInv
    <3>4. JustWritten(c)' /\ Renewing(c)' /\ Claiming(c)'
      BY <1>1, <3>1, <3>3 DEF JustWritten, Renewing, Claiming, Holds
    <3>5. QED
      BY <1>3, <3>2, <3>4 DEF ClientInv
  <2>2. CASE ~Absent(record)
    <3>1. /\ rpc[c] = "readback" /\ rpc'[c] = "wait" /\ version'[c] = record.version
          /\ leaseUntil'[c] = newUntil[c] /\ err' = err
      BY <1>5, <2>2, SMTT(30) DEF RenewReadBack, TypeOK
    <3>2. Threads(c)'
      BY <1>1, <2>2, <3>1 DEF Threads, ClientInv, Absent
    <3>3. JustWritten(c)' /\ Renewing(c)' /\ Claiming(c)'
      BY <1>1, <3>1 DEF JustWritten, Renewing, Claiming, ClientInv, Threads
    <3>4. QED
      BY <1>3, <3>2, <3>3, SMTT(30) DEF ClientInv
  <2>3. QED
    BY <2>1, <2>2
<1>6. ASSUME RenewExit(c) PROVE ClientInv(c)'
  BY <1>1, <1>3, <1>6, SMTT(30)
  DEF RenewExit, TypeOK, Threads, JustWritten, Renewing, Claiming, Holds, ClientInv
<1>7. QED
  BY <1>1, <1>2, <1>4, <1>5, <1>6, OneMoves

LEMMA ReleaseStep ==
  ASSUME LockInv, ~ContentVersions, TypeOK', NEW c \in Clients,
         Release(c) \/ ReleaseJoin(c) \/ ReleaseGet(c) \/ ReleaseDelete(c)
  PROVE  LockInv'
<1> USE DEF LockInv
<1>1. late' = late
  BY DEF Release, ReleaseJoin, ReleaseGet, ReleaseDelete
<1>2. ASSUME Release(c) \/ ReleaseJoin(c) PROVE LockInv'
  <2>1. \A d \in Clients \ {c} : Same(d) /\ Harmless(d)
    BY <1>2, SMTT(30) DEF Release, ReleaseJoin, Finish, handle, TypeOK, Same, Harmless
  <2>2. ClientInv(c)'
    <3>1. /\ UNCHANGED <<record, seen, newUntil, rpc, version, leaseUntil, late>>
          /\ pc'[c] \in {"stopping", "relget"} /\ pc[c] \in {"held", "stopping"}
          /\ pc'[c] = "relget" => rpc[c] = "exited"
      BY <1>2 DEF Release, ReleaseJoin, handle, TypeOK
    <3>2. Threads(c)' /\ Remembered(c)' /\ Late(c)'
      BY <3>1 DEF ClientInv, Threads, Remembered, Late
    <3>3. JustWritten(c)' /\ Renewing(c)' /\ Claiming(c)'
      BY <3>1 DEF ClientInv, JustWritten, Renewing, Claiming, Holds
    <3>4. QED
      BY <3>2, <3>3, SMTT(30) DEF ClientInv
  <2>3. QED
    BY <1>2, <2>1, <2>2, OneMoves DEF Release, ReleaseJoin
<1>3. ASSUME ReleaseGet(c) PROVE LockInv'
  <2>1. record' = record
    BY <1>3 DEF ReleaseGet
  <2>2. \A d \in Clients \ {c} : Same(d) /\ Harmless(d)
    BY <1>1, <1>3, OthersSame, SMTT(30) DEF ReleaseGet, handle, TypeOK, Same, Harmless
  <2>3. ASSUME ToIdle(c) PROVE ClientInv(c)'
    BY <1>1, <2>1, <2>3, Idle DEF ClientInv, Late
  <2>4. ASSUME ~ToIdle(c) PROVE ClientInv(c)'
    BY <1>3, <2>1, <2>4, SMTT(30) DEF ReleaseGet, handle, TypeOK, ClientInv, Threads, Remembered,
       JustWritten, Renewing, Claiming, Holds, Late
  <2>5. QED
    BY <2>1, <2>2, <2>3, <2>4, OneMoves
<1>4. ASSUME ReleaseDelete(c) PROVE LockInv'
  <2>1. \/ record' = record
        \/ record' = NoRecord /\ record.owner = c
    BY <1>4 DEF ReleaseDelete, Passes, ClientInv, Remembered
  <2>2. \A d \in Clients \ {c} : Same(d) /\ Harmless(d)
    BY <1>1, <1>4, <2>1, OthersSame DEF ReleaseDelete, Harmless
  <2>3. Late(c)'
    BY <1>1, <2>1, NoRecordFields DEF Late, ClientInv, Expired
  <2>4. ToIdle(c) /\ (Absent(record') => record' = NoRecord)
    BY <1>4, <2>1 DEF ReleaseDelete
  <2>5. QED
    BY <2>2, <2>3, <2>4, Idle, OneMoves
<1>5. QED
  BY <1>2, <1>3, <1>4

\* The request of a call that failed or whose caller died is still a safe one.
LEMMA PendingIsSafe ==
  ASSUME LockInv, NEW c \in Clients, MayLandLater(c), record' = record
  PROVE  Late(c)' /\ \A d \in Clients \ {c} : late'[d] = late[d]
<1> USE DEF LockInv
<1>1. late'[c] = late[c] \/ late'[c] = Pending(c)
  BY DEF MayLandLater, TypeOK
<1>2. \A d \in Clients \ {c} : late'[d] = late[d]
  BY DEF MayLandLater, TypeOK
<1>3. CASE late'[c] = late[c]
  BY <1>2, <1>3 DEF Late, ClientInv
<1>4. CASE late'[c] = Pending(c)
  <2>1. CASE pc[c] = "write"
    <3>1. late'[c].kind = "put" /\ late'[c].expect = seen[c].version
      BY <1>4, <2>1, SMTT(30) DEF Pending
    <3>2. Passes(seen[c].version) => Expired(record.until)
      BY <2>1, WritesOverExpired
    <3>3. QED
      BY <1>2, <3>1, <3>2 DEF Late, Passes
  <2>2. CASE pc[c] = "reldelete"
    <3>1. late'[c].kind = "delete" /\ late'[c].expect = seen[c].version
      BY <1>4, <2>2, SMTT(30) DEF Pending
    <3>2. Remembered(c)
      BY DEF ClientInv
    <3>3. QED
      BY <1>2, <2>2, <3>1, <3>2 DEF Late, Remembered, Absent
  <2>3. CASE pc[c] \notin {"write", "reldelete"} /\ rpc[c] = "write"
    <3>1. late'[c].kind = "put" /\ late'[c].expect = version[c]
      BY <1>4, <2>3, SMTT(30) DEF Pending
    <3>2. version[c] = record.version => record.owner = c
      BY <2>3 DEF ClientInv, Renewing
    <3>3. QED
      BY <1>2, <3>1, <3>2 DEF Late
  <2>4. CASE pc[c] \notin {"write", "reldelete"} /\ rpc[c] # "write"
    <3>1. late'[c].kind = "none"
      BY <1>4, <2>4, NoRequestFields DEF Pending
    <3>2. QED
      BY <1>2, <3>1 DEF Late
  <2>5. QED
    BY <2>1, <2>2, <2>3, <2>4
<1>5. QED
  BY <1>1, <1>3, <1>4

LEMMA FailureStep ==
  ASSUME LockInv, ~ContentVersions, TypeOK', NEW c \in Clients, CallFails(c) \/ Crash(c)
  PROVE  LockInv'
<1>1. ToIdle(c) /\ MayLandLater(c) /\ record' = record
  BY DEF CallFails, Crash
<1>2. \A d \in Clients \ {c} : Same(d) /\ Harmless(d)
  BY <1>1, PendingIsSafe, OthersSame DEF LockInv, Harmless
<1>3. ClientInv(c)'
  BY <1>1, PendingIsSafe, Idle DEF LockInv
<1>4. QED
  BY <1>1, <1>2, <1>3, OneMoves DEF LockInv

LEMMA RenewCallFailsStep ==
  ASSUME LockInv, ~ContentVersions, TypeOK', NEW c \in Clients, RenewCallFails(c)
  PROVE  LockInv'
<1> USE DEF LockInv
<1>1. /\ rpc[c] \in {"write", "readback"} /\ rpc'[c] = "wait" /\ MayLandLater(c)
      /\ UNCHANGED <<record, pc, seen, version, leaseUntil, err>>
  BY DEF RenewCallFails, TypeOK
<1>2. \A d \in Clients \ {c} : Same(d) /\ Harmless(d)
  BY <1>1, PendingIsSafe, SMTT(30) DEF RenewCallFails, TypeOK, Same, Harmless
<1>3. pc[c] \in {"held", "stopping"}
  BY <1>1 DEF ClientInv, Threads
<1>4. Threads(c)' /\ Remembered(c)' /\ JustWritten(c)' /\ Renewing(c)' /\ Late(c)'
  BY <1>1, <1>3, PendingIsSafe
  DEF ClientInv, Threads, Remembered, JustWritten, Renewing, Absent
<1>5. \/ late'[c] = late[c]
      \/ late'[c] = [kind |-> "put", expect |-> version[c], until |-> newUntil[c]]
         /\ rpc[c] = "write"
  BY <1>1, <1>3 DEF MayLandLater, Pending, TypeOK
<1>6. Claiming(c)'
  <2>1. Claiming(c) /\ Renewing(c)
    BY DEF ClientInv
  <2>2. Holds(c)' <=> Holds(c)
    BY <1>1 DEF Holds
  <2>3. CASE late'[c] = late[c]
    BY <1>1, <2>1, <2>2, <2>3 DEF Claiming
  <2>4. CASE late'[c] = [kind |-> "put", expect |-> version[c], until |-> newUntil[c]]
             /\ rpc[c] = "write"
    <3>1. late'[c].kind = "put" /\ late'[c].until >= leaseUntil[c]
      BY <2>1, <2>4, SMTT(30) DEF Renewing
    <3>2. QED
      BY <1>1, <2>1, <2>2, <3>1 DEF Claiming
  <2>5. QED
    BY <1>5, <2>3, <2>4
<1>7. QED
  BY <1>1, <1>2, <1>4, <1>6, OneMoves DEF ClientInv

LEMMA LateLandsStep ==
  ASSUME LockInv, ~ContentVersions, TypeOK', NEW c \in Clients, LateLands(c)
  PROVE  LockInv'
<1> USE DEF LockInv
<1>1. /\ late'[c] = NoRequest /\ UNCHANGED <<pc, seen, newUntil, rpc, version, leaseUntil, err>>
      /\ \A d \in Clients \ {c} : Same(d)
  BY DEF LateLands, handle, TypeOK, Same
<1>2. Late(c)'
  BY <1>1, NoRequestFields DEF Late
<1>3. CASE record' = record
  <2>1. ClientInv(c)'
    <3>1. Threads(c)' /\ Remembered(c)' /\ Renewing(c)'
      BY <1>1, <1>3 DEF ClientInv, Threads, Remembered, Renewing
    <3>2. late'[c].kind = "none"
      BY <1>1, NoRequestFields, SMTT(30)
    <3>3. JustWritten(c)'
      BY <1>1, <1>3, <3>2 DEF ClientInv, JustWritten
    <3>4. Claiming(c)'
      BY <1>1, <1>3, <3>2 DEF ClientInv, Claiming, Holds
    <3>5. QED
      BY <1>2, <3>1, <3>3, <3>4 DEF ClientInv
  <2>2. QED
    BY <1>1, <1>3, <2>1, OneMoves DEF Harmless
<1>4. CASE late[c].kind = "put" /\ late[c].expect = record.version /\ Put(c, late[c].until)
  <2>1. late[c].until \in Durations /\ (record.owner = c \/ Expired(record.until))
    BY <1>4 DEF TypeOK, Request, ClientInv, Late
  <2>2. Threads(c)' /\ Remembered(c)' /\ Renewing(c)'
    BY <1>1, <1>4, <2>1, PutIsFresh, SMTT(30) DEF ClientInv, Threads, Remembered, Renewing, Absent
  <2>3. JustWritten(c)' /\ Claiming(c)'
    <3>1. JustWritten(c) /\ Claiming(c) /\ Late(c)
      BY DEF ClientInv
    <3>2. record'.owner = c /\ record'.until = late[c].until /\ late'[c].kind = "none"
      BY <1>1, <1>4, <2>1, PutIsFresh, NoRequestFields
    <3>3. JustWritten(c)'
      <4>1. (pc[c] = "readback" \/ rpc[c] = "readback") => Expired(newUntil[c])
        BY <1>4, <3>1 DEF JustWritten
      <4>2. QED
        BY <1>1, <4>1 DEF JustWritten
    <3>4. Claiming(c)'
      <4>1. Holds(c) /\ ~Expired(leaseUntil[c]) => late[c].until >= leaseUntil[c]
        BY <1>4, <3>1, SMTT(30) DEF Claiming
      <4>2. Holds(c)' <=> Holds(c)
        BY <1>1 DEF Holds
      <4>3. QED
        BY <1>1, <3>2, <4>1, <4>2 DEF Claiming
    <3>5. QED
      BY <3>3, <3>4
  <2>4. QED
    BY <1>1, <1>2, <1>4, <2>1, <2>2, <2>3, PutIsFresh, PutIsHarmless, OneMoves
    DEF ClientInv, Absent
<1>5. CASE late[c].kind = "delete" /\ late[c].expect = record.version /\ record' = NoRecord
  <2>1. record.owner = c
    BY <1>5 DEF ClientInv, Late
  <2>2. Threads(c)' /\ Remembered(c)' /\ Renewing(c)'
    BY <1>1, <1>5 DEF ClientInv, Threads, Remembered, Renewing, Absent, NoRecord
  <2>3. JustWritten(c)' /\ Claiming(c)'
    BY <1>1, <1>5 DEF ClientInv, JustWritten, Claiming, Holds
  <2>4. QED
    BY <1>1, <1>2, <1>5, <2>1, <2>2, <2>3, OneMoves DEF ClientInv, Harmless
<1>6. QED
  BY <1>3, <1>4, <1>5 DEF LateLands, Passes

LEMMA LessIsMonotone ==
  ASSUME NEW m \in Nat, NEW n \in Nat
  PROVE  /\ Less(n) \in Nat
         /\ m <= n => Less(m) <= Less(n)
         /\ n = 0 => Less(n) = 0
BY SMTT(30) DEF Less

LEMMA TickStep ==
  ASSUME LockInv, TypeOK', Tick
  PROVE  LockInv'
<1> USE DEF LockInv
<1>1. /\ record'.owner = record.owner /\ record'.version = record.version
      /\ record'.until = Less(record.until) /\ record.until \in Nat
  BY SMTT(30) DEF Tick, TypeOK, Record, Durations
<1>2. Absent(record') => record' = NoRecord
  BY <1>1, SMTT(30) DEF Tick, TypeOK, Record, Absent, NoRecord, Less
<1>3. SUFFICES ASSUME NEW c \in Clients PROVE ClientInv(c)'
  BY <1>2 DEF Absent
<1>4. /\ newUntil'[c] = Less(newUntil[c]) /\ newUntil[c] \in Nat
      /\ leaseUntil'[c] = Less(leaseUntil[c]) /\ leaseUntil[c] \in Nat
      /\ UNCHANGED <<pc, rpc, version, err>>
  BY SMTT(30) DEF Tick, TypeOK, Durations
<1>5. /\ seen'[c] = [seen[c] EXCEPT !.until = Less(seen[c].until)]
      /\ seen[c] \in Record
  BY DEF Tick, TypeOK
<1>6. /\ late'[c].kind = late[c].kind /\ late'[c].expect = late[c].expect
      /\ late'[c].until = Less(late[c].until) /\ late[c].until \in Nat
  BY SMTT(30) DEF Tick, TypeOK, Request, Durations
<1>7. Threads(c)'
  BY <1>4 DEF ClientInv, Threads
<1>8. Remembered(c)'
  <2>1. /\ seen'[c].owner = seen[c].owner /\ seen'[c].version = seen[c].version
        /\ seen'[c].until = Less(seen[c].until) /\ seen[c].until \in Nat
    BY <1>5, SMTT(30) DEF Record, Durations
  <2>2. Absent(seen[c]) => seen'[c] = NoRecord
    BY <1>5, SMTT(30) DEF ClientInv, Remembered, NoRecord, Record, Less
  <2>3. seen[c].version = record.version => seen'[c] = record'
    BY <1>5 DEF ClientInv, Remembered, Tick
  <2>4. QED
    BY <1>1, <1>4, <2>1, <2>2, <2>3, LessIsMonotone DEF ClientInv, Remembered, Absent, Expired
<1>9. JustWritten(c)'
  BY <1>1, <1>4, <1>6, LessIsMonotone, SMTT(30) DEF ClientInv, JustWritten, Expired
<1>10. Renewing(c)'
  BY <1>1, <1>4, LessIsMonotone DEF ClientInv, Renewing, Expired
<1>11. Claiming(c)'
  BY <1>1, <1>4, <1>6, LessIsMonotone, SMTT(30) DEF ClientInv, Claiming, Holds, Expired
<1>12. Late(c)'
  BY <1>1, <1>6, LessIsMonotone DEF ClientInv, Late, Expired
<1>13. QED
  BY <1>7, <1>8, <1>9, <1>10, <1>11, <1>12 DEF ClientInv

LEMMA LockStep ==
  ASSUME ~ContentVersions, LockInv, [Next]_vars
  PROVE  LockInv'
<1>1. TypeOK'
  BY TypeStep DEF LockInv
<1>2. CASE UNCHANGED vars
  <2>1. \A d \in Clients : Same(d) /\ Harmless(d)
    BY <1>2 DEF vars, handle, Same, Harmless
  <2>2. \A d \in Clients : ClientInv(d)'
    BY <1>1, <2>1, Bystander
  <2>3. QED
    BY <1>1, <1>2, <2>2 DEF vars, LockInv, Absent
<1>3. CASE Next
  BY <1>1, <1>3, AttemptStep, WriteRecordStep, RenewWriteStep, RenewerStep, ReleaseStep,
     FailureStep, RenewCallFailsStep, LateLandsStep, TickStep
  DEF Next, Attempt, Renewer, Releasing, Environment
<1>4. QED
  BY <1>2, <1>3

LEMMA LockInit == Init => LockInv
<1> SUFFICES ASSUME Init PROVE LockInv
  OBVIOUS
<1>1. TypeOK
  BY InitType
<1>2. Absent(record) => record = NoRecord
  BY VersionAssumption, SMTT(30) DEF Init, Absent, ETag
<1>3. ASSUME NEW c \in Clients PROVE ClientInv(c)
  <2>1. /\ pc[c] = "idle" /\ rpc[c] = "none" /\ seen[c] = NoRecord /\ late[c] = NoRequest
    BY DEF Init
  <2>2. Threads(c) /\ JustWritten(c) /\ Renewing(c) /\ Claiming(c)
    BY <2>1 DEF Threads, JustWritten, Renewing, Claiming, Holds
  <2>3. Remembered(c)
    BY <1>2, <2>1, NoRecordFields DEF Remembered, Absent
  <2>4. Late(c)
    BY <2>1, NoRequestFields DEF Late
  <2>5. QED
    BY <2>2, <2>3, <2>4, SMTT(30) DEF ClientInv
<1>4. QED
  BY <1>1, <1>2, <1>3 DEF LockInv

\* With fresh version tokens the inductive invariant always holds.
THEOREM LockInvariant ==
  ASSUME ~ContentVersions
  PROVE  Spec => []LockInv
<1>1. LockInv /\ [Next]_vars => LockInv'
  BY LockStep
<1>2. QED
  BY <1>1, LockInit, PTL DEF Spec

-----------------------------------------------------------------------------
(* What the lock guarantees.                                               *)

LEMMA LockInvImplies ==
  ASSUME LockInv
  PROVE  ClaimIsRecorded /\ ReadBackIsOwn /\ MutualExclusion
<1>1. ClaimIsRecorded /\ ReadBackIsOwn
  BY DEF LockInv, ClientInv, Claiming, JustWritten, ClaimIsRecorded, ReadBackIsOwn
<1>2. QED
  BY <1>1 DEF ClaimIsRecorded, MutualExclusion

\* The compare-and-swap, the renewer's deadline check and the takeover rule make
\* the lock exclusive, for any number of clients, any failures and any requests
\* that land late (locker.go:214-245, 444-490).
THEOREM LockIsExclusive ==
  ASSUME ~ContentVersions
  PROVE  Spec => []MutualExclusion
<1>1. LockInv => MutualExclusion
  BY LockInvImplies
<1>2. QED
  BY <1>1, LockInvariant, PTL

\* A claim is always backed by the record (locker.go:214-245, 476-490).
THEOREM ClaimsAreRecorded ==
  ASSUME ~ContentVersions
  PROVE  Spec => []ClaimIsRecorded
<1>1. LockInv => ClaimIsRecorded
  BY LockInvImplies
<1>2. QED
  BY <1>1, LockInvariant, PTL

\* The version read back is the client's own within its lease (locker.go:274-283).
THEOREM ReadsBackItsOwn ==
  ASSUME ~ContentVersions
  PROVE  Spec => []ReadBackIsOwn
<1>1. LockInv => ReadBackIsOwn
  BY LockInvImplies, SMTT(30)
<1>2. QED
  BY <1>1, LockInvariant, PTL

LEMMA LiveRecordStep ==
  ASSUME ~ContentVersions, LockInv, Next,
         ~Absent(record), ~Expired(record.until), record'.owner # record.owner
  PROVE  \E c \in Clients :
           /\ c = record.owner
           /\ Absent(record')
           /\ \/ pc[c] = "reldelete" /\ pc'[c] = "idle"
              \/ late[c].kind = "delete" /\ late'[c] = NoRequest
<1> USE DEF LockInv
<1>1. ASSUME NEW c \in Clients, WriteRecord(c) PROVE FALSE
  BY <1>1, WritesOverExpired DEF WriteRecord
<1>2. ASSUME NEW c \in Clients, RenewWrite(c) PROVE FALSE
  <2>1. Passes(version[c]) /\ Put(c, newUntil[c]) /\ rpc[c] = "write"
    BY <1>2, SMTT(30) DEF RenewWrite
  <2>2. record'.owner = c
    BY <2>1 DEF Put
  <2>3. record.owner = c
    BY <2>1 DEF Passes, ClientInv, Renewing
  <2>4. QED
    BY <2>2, <2>3
<1>3. ASSUME NEW c \in Clients, ReleaseDelete(c)
      PROVE  /\ c = record.owner /\ Absent(record')
             /\ pc[c] = "reldelete" /\ pc'[c] = "idle"
  BY <1>3, SMTT(30) DEF ReleaseDelete, Passes, ToIdle, TypeOK, ClientInv, Remembered, Absent, NoRecord
<1>4. ASSUME NEW c \in Clients, LateLands(c)
      PROVE  /\ c = record.owner /\ Absent(record')
             /\ late[c].kind = "delete" /\ late'[c] = NoRequest
  <2>1. late[c].expect = record.version /\ late'[c] = NoRequest
    BY <1>4 DEF LateLands, Passes, TypeOK
  <2>2. CASE late[c].kind = "put"
    BY <1>4, <2>1, <2>2, SMTT(30) DEF LateLands, Put, ClientInv, Late
  <2>3. CASE late[c].kind = "delete"
    <3>1. record' = NoRecord /\ record.owner = c
      BY <1>4, <2>1, <2>3 DEF LateLands, ClientInv, Late
    <3>2. QED
      BY <2>1, <2>3, <3>1, NoRecordFields DEF Absent
  <2>4. QED
    BY <1>4, <2>2, <2>3 DEF LateLands
<1>5. \E c \in Clients : WriteRecord(c) \/ RenewWrite(c) \/ ReleaseDelete(c) \/ LateLands(c)
  <2>1. ~Tick
    BY DEF Tick, TypeOK, Record
  <2>2. QED
    BY <2>1, SMTT(30) DEF Next, Attempt, Renewer, Releasing, Environment, TryAcquire, GetRecord, Decide,
       ReadBack, RenewTick, RenewReadBack, RenewExit, Release, ReleaseJoin, ReleaseGet, CallFails,
       RenewCallFails, Crash
<1>6. QED
  BY <1>1, <1>2, <1>3, <1>4, <1>5

\* Nobody but its owner ends a live lease, and the owner only by releasing it
\* (locker.go:409-442).
THEOREM LiveRecordsAreKept ==
  ASSUME ~ContentVersions
  PROVE  Spec => LiveRecordIsOwners
<1>1. LockInv /\ [Next]_vars =>
        [ ~Absent(record) /\ ~Expired(record.until) /\ record'.owner # record.owner
            => \E c \in Clients :
                 /\ c = record.owner
                 /\ Absent(record')
                 /\ \/ pc[c] = "reldelete" /\ pc'[c] = "idle"
                    \/ late[c].kind = "delete" /\ late'[c] = NoRequest ]_vars
  BY LiveRecordStep
<1>2. QED
  BY <1>1, LockInvariant, PTL DEF Spec, LiveRecordIsOwners

-----------------------------------------------------------------------------
(* The lock implements LeaseLock.                                          *)

\* A step of one client that leaves the record alone only changes its claim.
LEMMA ClaimStep ==
  ASSUME LockInv, LockInv', NEW c \in Clients, record' = record,
         \A d \in Clients \ {c} : Same(d)
  PROVE  Promise!Claim(c)
<1>1. Claims'[c] \in 0 .. Lease
  BY LeaseAssumption, SMTT(30) DEF Claims, LockInv, TypeOK, Durations
<1>2. Claims'[c] > 0 => record.owner = c /\ Claims'[c] <= record.until
  BY SMTT(30) DEF Claims, LockInv, ClientInv, Claiming, Expired, TypeOK, Record, Durations
<1>3. Claims' = [Claims EXCEPT ![c] = Claims'[c]]
  BY DEF Claims, Holds, Same
<1>4. QED
  BY <1>1, <1>2, <1>3 DEF Promise!Claim

LEMMA WriteImplements ==
  ASSUME ~ContentVersions, LockInv, NEW c \in Clients, NEW u \in Durations, Put(c, u),
         Claims' = Claims,
         \/ Expired(record.until)
         \/ record.owner = c /\ u >= Claims[c]
  PROVE  Promise!Grant(c) \/ Promise!Extend(c)
<1>1. record'.owner = c /\ record'.until = u /\ u \in 0 .. Lease
  BY DEF Put, Durations
<1>2. Claims[c] \in 0 .. Lease
  <2>1. leaseUntil[c] \in 0 .. Lease
    BY DEF LockInv, TypeOK, Durations
  <2>2. Claims[c] = leaseUntil[c] \/ Claims[c] = 0
    BY DEF Claims
  <2>3. QED
    BY <2>1, <2>2, LeaseAssumption, SMTT(30)
<1>3. CASE Expired(record.until)
  BY <1>1, <1>3 DEF Promise!Grant, Expired
<1>4. CASE record.owner = c /\ u >= Claims[c]
  BY <1>1, <1>2, <1>4, LeaseAssumption, SMTT(30) DEF Promise!Extend
<1>5. QED
  BY <1>3, <1>4

\* The steps that write or delete the record.
LEMMA RecordStepImplements ==
  ASSUME ~ContentVersions, LockInv, LockInv', NEW c \in Clients, record' # record,
         WriteRecord(c) \/ RenewWrite(c) \/ ReleaseDelete(c) \/ LateLands(c)
  PROVE  Promise!Grant(c) \/ Promise!Extend(c) \/ Promise!Yield(c)
<1> USE DEF LockInv
<1>1. CASE WriteRecord(c)
  <2>1. Put(c, newUntil[c]) /\ newUntil[c] \in Durations
    BY <1>1 DEF WriteRecord, TypeOK
  <2>2. Expired(record.until)
    BY <1>1, WritesOverExpired DEF WriteRecord
  <2>3. Claims' = Claims
    BY <1>1, SMTT(30) DEF WriteRecord, handle, Claims, Holds, TypeOK
  <2>4. QED
    BY <2>1, <2>2, <2>3, WriteImplements
<1>2. CASE RenewWrite(c)
  <2>1. Put(c, newUntil[c]) /\ newUntil[c] \in Durations /\ Claims' = Claims
    BY <1>2 DEF RenewWrite, TypeOK, Claims, Holds
  <2>2. record.owner = c /\ newUntil[c] >= Claims[c]
    <3>1. Renewing(c) /\ rpc[c] = "write"
      BY <1>2 DEF RenewWrite, ClientInv
    <3>2. version[c] = record.version
      BY <1>2 DEF RenewWrite, Passes
    <3>3. record.owner = c /\ newUntil[c] >= leaseUntil[c]
      BY <3>1, <3>2 DEF Renewing
    <3>4. Claims[c] = leaseUntil[c] \/ Claims[c] = 0
      BY DEF Claims
    <3>5. QED
      BY <2>1, <3>3, <3>4, SMTT(30) DEF Durations
  <2>3. QED
    BY <2>1, <2>2, WriteImplements
<1>3. CASE ReleaseDelete(c)
  <2>1. record' = NoRecord /\ record.owner = c
    BY <1>3, SMTT(30) DEF ReleaseDelete, Passes, ClientInv, Remembered
  <2>2. Claims[c] = 0 /\ Claims' = Claims
    BY <1>3, SMTT(30) DEF ReleaseDelete, ToIdle, Claims, Holds, TypeOK
  <2>3. QED
    BY <2>1, <2>2 DEF Promise!Yield, NoRecord
<1>4. CASE LateLands(c)
  <2>1. Claims' = Claims
    BY <1>4 DEF LateLands, handle, Claims, Holds
  <2>2. CASE late[c].kind = "put" /\ Passes(late[c].expect) /\ Put(c, late[c].until)
    <3>1. late[c].until \in Durations
      BY DEF TypeOK, Request
    <3>2. Expired(record.until) \/ (record.owner = c /\ late[c].until >= Claims[c])
      <4>1. late[c].expect = record.version /\ late[c].kind = "put"
        BY <2>2 DEF Passes
      <4>2. Expired(record.until) \/ record.owner = c
        BY <4>1 DEF ClientInv, Late
      <4>3. late[c].until >= 0 /\ (Holds(c) => late[c].until >= leaseUntil[c])
        <5>1. late[c].until \in Nat /\ leaseUntil[c] \in Nat
          BY <3>1, SMTT(30) DEF TypeOK, Durations
        <5>2. Claiming(c)
          BY DEF ClientInv
        <5>3. late[c].kind # "none"
          BY <4>1
        <5>4. Holds(c) /\ leaseUntil[c] # 0 => late[c].until >= leaseUntil[c]
          BY <4>1, <5>2, <5>3 DEF Claiming, Expired
        <5>5. late[c].until >= 0 /\ (leaseUntil[c] = 0 => late[c].until >= leaseUntil[c])
          BY <5>1, SMTT(30)
        <5>6. QED
          BY <5>4, <5>5
      <4>4. Claims[c] = IF Holds(c) THEN leaseUntil[c] ELSE 0
        BY DEF Claims
      <4>5. QED
        BY <4>2, <4>3, <4>4
    <3>3. QED
      BY <2>1, <2>2, <3>1, <3>2, WriteImplements, SMTT(30)
  <2>3. CASE late[c].kind = "delete" /\ Passes(late[c].expect) /\ record' = NoRecord
    <3>1. record.owner = c /\ Claims[c] = 0
      BY <2>3 DEF Passes, ClientInv, Late, Claiming, Claims, Expired
    <3>2. QED
      BY <2>1, <2>3, <3>1 DEF Promise!Yield, NoRecord
  <2>4. QED
    BY <1>4, <2>2, <2>3 DEF LateLands
<1>5. QED
  BY <1>1, <1>2, <1>3, <1>4

LEMMA TickImplements ==
  ASSUME LockInv, Tick
  PROVE  Promise!Tick
<1>1. record'.owner = record.owner /\ record'.until = Less(record.until)
  BY DEF Tick, LockInv, TypeOK, Record
<1>2. Claims' = [c \in Clients |-> Less(Claims[c])]
  BY SMTT(30) DEF Tick, Claims, Holds, Less
<1>3. QED
  BY <1>1, <1>2 DEF Promise!Tick, Promise!Less, Less

\* A step of one client either touches only what that client knows, or is one of
\* the four that write or delete the record.
LEMMA StepsOfOne ==
  ASSUME LockInv, NEW c \in Clients,
         TryAcquire(c) \/ Attempt(c) \/ Renewer(c) \/ Release(c) \/ Releasing(c) \/ Environment(c)
  PROVE  /\ \A d \in Clients \ {c} : Same(d)
         /\ \/ record' = record
            \/ WriteRecord(c) \/ RenewWrite(c) \/ ReleaseDelete(c) \/ LateLands(c)
<1> USE DEF LockInv
<1>1. ASSUME ToIdle(c), late' = late PROVE \A d \in Clients \ {c} : Same(d)
  BY <1>1, OthersSame
<1>2. CASE TryAcquire(c) \/ Attempt(c)
  BY <1>1, <1>2, SMTT(30) DEF TryAcquire, Attempt, GetRecord, Decide, WriteRecord, ReadBack, handle, TypeOK, Same
<1>3. CASE Renewer(c)
  BY <1>3, SMTT(30) DEF Renewer, RenewTick, RenewWrite, RenewReadBack, RenewExit, RenewLost, Finish, TypeOK, Same
<1>4. CASE Release(c) \/ Releasing(c)
  BY <1>1, <1>4, SMTT(30) DEF Release, Releasing, ReleaseJoin, ReleaseGet, ReleaseDelete, Finish, handle,
     TypeOK, Same
<1>5. CASE CallFails(c) \/ Crash(c)
  BY <1>5, PendingIsSafe, OthersSame DEF CallFails, Crash
<1>6. CASE RenewCallFails(c)
  BY <1>6, PendingIsSafe, SMTT(30) DEF RenewCallFails, TypeOK, Same
<1>7. CASE LateLands(c)
  BY <1>7 DEF LateLands, handle, TypeOK, Same
<1>8. QED
  BY <1>2, <1>3, <1>4, <1>5, <1>6, <1>7 DEF Environment

\* The lock of locker.go implements the lease lock of module LeaseLock: the
\* record's owner is the holder, and clients claim the lock only within the
\* lease they hold.
THEOREM LockKeepsPromise ==
  ASSUME ~ContentVersions
  PROVE  Spec => KeepsPromise
<1>1. Init => Promise!Init
  <2> SUFFICES ASSUME Init PROVE Promise!Init
    OBVIOUS
  <2>1. record.owner = NoOwner /\ record.until = 0
    <3>1. record = NoRecord \/ record = [owner |-> NoOwner, until |-> 0, version |-> ETag]
      BY DEF Init
    <3>2. QED
      BY <3>1, NoRecordFields, SMTT(30)
  <2>2. ASSUME NEW c \in Clients PROVE ~Holds(c)
    BY DEF Init, Holds
  <2>3. Claims = [c \in Clients |-> 0]
    BY <2>2 DEF Claims
  <2>4. QED
    BY <2>1, <2>3 DEF Promise!Init
<1>2. LockInv /\ LockInv' /\ [Next]_vars => [Promise!Next]_(Promise!vars)
  <2> SUFFICES ASSUME LockInv, LockInv', [Next]_vars PROVE [Promise!Next]_(Promise!vars)
    OBVIOUS
  <2>1. CASE UNCHANGED vars
    BY <2>1 DEF vars, handle, Promise!vars, Claims, Holds
  <2>2. CASE Tick
    BY <2>2, TickImplements DEF Promise!Next
  <2>3. ASSUME NEW c \in Clients,
               TryAcquire(c) \/ Attempt(c) \/ Renewer(c) \/ Release(c) \/ Releasing(c)
                 \/ Environment(c)
        PROVE  Promise!Next
    BY <2>3, StepsOfOne, ClaimStep, RecordStepImplements DEF Promise!Next
  <2>4. QED
    BY <2>1, <2>2, <2>3 DEF Next
<1>3. QED
  BY <1>1, <1>2, LockInvariant, PTL DEF Spec, KeepsPromise, Promise!Spec
=============================================================================
