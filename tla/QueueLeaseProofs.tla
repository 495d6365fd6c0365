-------------------------- MODULE QueueLeaseProofs --------------------------
(***************************************************************************)
(* More about the work queue: who holds a message within its lease, how    *)
(* its deliveries are counted, and the inductive invariant of the queue.   *)
(***************************************************************************)
EXTENDS QueueProofs, FiniteSetTheorems

\* A leaf goes to Zenon unless it names another prover.
USE ZenonT(30)

-----------------------------------------------------------------------------
(* The rest of the inductive invariant.                                    *)

\* A handler's lease runs, or is about to run again.
Running(w) ==
  LET me == worker[w] IN
  /\ me.pc = "held"
  /\ \/ me.leaseUntil # 0
     \/ me.rpc = "write" /\ me.newUntil # 0 /\ Passes(me.id, me.version)
     \/ me.rpc = "readback" /\ me.newUntil # 0

HandlerInv ==
  \A v, w \in Workers : Running(v) /\ Running(w) /\ worker[v].id = worker[w].id => v = w

\* The record counts every delivery, and every one that is under way.
Pending(i) == {w \in Workers : worker[w].id = i /\ worker[w].pc \in {"readback", "verify"}}
Counted ==
  \A i \in Ids :
    payload[i] # 0 /\ <<i, 1>> \notin acked
      => delivered[i] + Cardinality(Pending(i)) <= lease[i].receives
Limited ==
  MaxReceives > 0 =>
    /\ \A i \in Ids : lease[i].receives <= MaxReceives
    /\ \A w \in Workers :
         worker[w].receives <= MaxReceives /\ worker[w].seen.receives <= MaxReceives
CountInv == Counted /\ Limited /\ DeliveryCap

\* The inductive invariant of the queue (queue.go:404-730, queuemessage.go:60-290).
QueueInv ==
  /\ TypeInv /\ StoreInv /\ RemovalInv /\ TrimInv
  /\ \A w \in Workers : WorkerInv(w)
  /\ HandlerInv /\ CountInv

-----------------------------------------------------------------------------
(* Handlers.                                                               *)

\* A worker that does not move does not begin to run.
LEMMA StillRunning ==
  ASSUME TypeInv, NEW v \in Workers, WorkerInv(v), worker'[v] = worker[v], Running(v)',
         \A i \in Ids : lease'[i] = lease[i] \/ lease'[i] = NoLease \/ Fresh(i)
  PROVE  Running(v)
<1>1. worker[v].pc = "held" /\ worker[v].id \in Ids /\ worker[v].version # NoVersion
  BY DEF Running, TypeInv, Started, WorkerInv, Threads, Holding
<1>2. Passes(worker[v].id, worker[v].version)' => Passes(worker[v].id, worker[v].version)
  BY <1>1, NoLeaseFields DEF Passes, Fresh
<1>3. QED
  BY <1>2 DEF Running

\* The steps of a worker are those of one that runs already, but for the handing
\* out of a message.
LEMMA BeginsToRun ==
  ASSUME TypeInv, NEW w \in Workers, WorkerInv(w), WorkerStep(w), Running(w)'
  PROVE  /\ worker'[w].id = worker[w].id
         /\ \/ Running(w)
            \/ /\ worker[w].pc = "verify" /\ worker[w].leaseUntil # 0
               /\ payload[worker[w].id] # 0
<1> DEFINE i == worker[w].id
<1>1. worker[w] \in Local /\ worker'[w].pc = "held"
  BY Numeric DEF Running
<1>2. CASE Verify(w)
  BY <1>1, <1>2, SMTT(30) DEF Verify, Running, TypeInv, TypeOK, Local
<1>3. CASE Renewer(w) \/ RenewCallFails(w)
  <2>1. worker'[w].id = i /\ worker[w].pc = "held"
    BY <1>1, <1>3, SMTT(30)
    DEF Renewer, RenewTick, RenewWrite, RenewReadBack, RenewExit, RenewLost, RenewCallFails,
        TypeInv, TypeOK, Local
  <2>2. CASE RenewTick(w)
    <3>1. worker'[w].leaseUntil = worker[w].leaseUntil /\ worker'[w].rpc \in {"exited", "write"}
      BY <1>1, <2>2, SMTT(30) DEF RenewTick, TypeInv, TypeOK, Local
    <3>2. worker[w].leaseUntil = 0 => worker'[w].rpc = "exited"
      BY <1>1, <2>2, SMTT(30) DEF RenewTick, TypeInv, TypeOK, Local, Expired
    <3>3. QED
      BY <2>1, <3>1, <3>2 DEF Running
  <2>3. CASE RenewWrite(w)
    <3>1. /\ worker'[w].leaseUntil = worker[w].leaseUntil
          /\ \/ worker'[w].rpc = "exited"
             \/ /\ worker'[w].rpc = "readback" /\ worker'[w].newUntil = worker[w].newUntil
                /\ Passes(i, worker[w].version) /\ worker[w].rpc = "write"
      BY <1>1, <2>3, SMTT(30) DEF RenewWrite, RenewLost, TypeInv, TypeOK, Local
    <3>2. QED
      BY <2>1, <3>1 DEF Running
  <2>4. CASE RenewReadBack(w)
    <3>1. \/ worker'[w].leaseUntil = worker[w].leaseUntil /\ worker'[w].rpc = "exited"
          \/ /\ worker'[w].leaseUntil = worker[w].newUntil /\ worker'[w].rpc = "wait"
             /\ worker[w].rpc = "readback"
      BY <1>1, <2>4, SMTT(30) DEF RenewReadBack, RenewLost, TypeInv, TypeOK, Local
    <3>2. QED
      BY <2>1, <3>1 DEF Running
  <2>5. CASE RenewExit(w) \/ RenewCallFails(w)
    <3>1. worker'[w].leaseUntil = worker[w].leaseUntil /\ worker'[w].rpc \in {"exited", "wait"}
      BY <1>1, <2>5, SMTT(30) DEF RenewExit, RenewCallFails, TypeInv, TypeOK, Local
    <3>2. QED
      BY <2>1, <3>1 DEF Running
  <2>6. QED
    BY <1>3, <2>2, <2>3, <2>4, <2>5 DEF Renewer
<1>4. CASE Stop(w) \/ NextCandidate(w)
  BY <1>1, <1>4, StopPC, NextPC
<1>5. CASE ~Stop(w) /\ ~NextCandidate(w) /\ (Ack(w) \/ Nack(w) \/ Settle(w) \/ DeadLetter(w))
  BY <1>1, <1>5, SMTT(30)
  DEF Ack, Nack, Settle, SettleJoin, SettleGet, AckDeleteLease, AckDeletePayload, NackWrite,
      DeadLetter, DeadAttributes, DeadRead, DeadWrite, DeadDeletePayload, DeadDeleteLease,
      TypeInv, TypeOK, Local
<1>6. CASE ~NextCandidate(w) /\ ~Stop(w) /\ (GetLease(w) \/ WriteLease(w) \/ ReadBack(w))
  BY <1>1, <1>6, SMTT(30) DEF GetLease, WriteLease, ReadBack, TypeInv, TypeOK, Local
<1>7. CASE ~NextCandidate(w) /\ Decide(w)
  <2>1. worker[w].seen.receives \in Nat
    BY Numeric
  <2>2. worker'[w].pc \in {"write", "hold"}
    BY <1>7, <2>1, ClaimMoves, SMTT(30) DEF Decide
  <2>3. QED
    BY <1>1, <2>2
<1>8. QED
  BY <1>2, <1>3, <1>4, <1>5, <1>6, <1>7 DEF WorkerStep, Receive, Drop, Abandon

\* A claim that runs on a message that is there is the claim of the record.
LEMMA RunningIsMine ==
  ASSUME NEW v \in Workers, WorkerInv(v), Running(v), payload[worker[v].id] # 0
  PROVE  Mine(v)
BY DEF WorkerInv, Claimed, Running, Backs, Holding

LEMMA HandlerStep ==
  ASSUME TypeInv, \A v \in Workers : WorkerInv(v), HandlerInv, [Next]_vars
  PROVE  HandlerInv'
<1>1. ASSUME worker' = worker, \A i \in Ids : lease'[i] = lease[i] \/ lease'[i] = NoLease
      PROVE  HandlerInv'
  <2>1. \A v \in Workers : Running(v)' => Running(v)
    BY <1>1, StillRunning
  <2>2. QED
    BY <1>1, <2>1 DEF HandlerInv
<1>2. ASSUME NEW w \in Workers, WorkerStep(w) PROVE HandlerInv'
  <2>1. Shape(w) /\ worker[w].id \in Ids
    BY <1>2, StepShape, StepBusy
  <2>2. \A i \in Ids : lease'[i] = lease[i] \/ lease'[i] = NoLease \/ Fresh(i)
    BY <2>1 DEF Shape
  <2>3. \A v \in Workers \ {w} : worker'[v] = worker[v] /\ (Running(v)' => Running(v))
    BY <2>1, <2>2, StillRunning DEF Shape, Moves
  <2>4. ASSUME NEW v \in Workers \ {w}, Running(v)', Running(w)', worker'[v].id = worker'[w].id
        PROVE  FALSE
    <3>1. Running(v) /\ worker[v].id = worker'[w].id
      BY <2>3, <2>4
    <3>2. worker'[w].id = worker[w].id /\ WorkerInv(v) /\ WorkerInv(w)
      BY <1>2, <2>4, BeginsToRun
    <3>3. ~Running(w)
      BY <3>1, <3>2 DEF HandlerInv
    <3>4. worker[w].pc = "verify" /\ worker[w].leaseUntil # 0 /\ payload[worker[w].id] # 0
      BY <1>2, <2>4, <3>3, BeginsToRun
    <3>5. Mine(v) /\ Mine(w)
      <4>1. Mine(v)
        BY <3>1, <3>2, <3>4, RunningIsMine
      <4>2. Mine(w)
        BY <3>2, <3>4 DEF WorkerInv, Claimed, Backs
      <4>3. QED
        BY <4>1, <4>2
    <3>6. QED
      BY <3>1, <3>2, <3>5 DEF Mine
  <2>5. QED
    <3>1. ASSUME NEW u \in Workers, NEW v \in Workers, Running(u)', Running(v)',
                 worker'[u].id = worker'[v].id
          PROVE  u = v
      <4>1. CASE u = w \/ v = w
        BY <2>4, <3>1, <4>1
      <4>2. CASE u # w /\ v # w
        BY <2>3, <3>1, <4>2 DEF HandlerInv
      <4>3. QED
        BY <4>1, <4>2
    <3>2. QED
      BY <3>1 DEF HandlerInv
<1>3. ASSUME NEW w \in Workers, TryReceive(w) PROVE HandlerInv'
  <2>1. PICK i \in Window : Try(w, i, Window \ {i})
    BY <1>3 DEF TryReceive
  <2>2. i \in Ids /\ Window \ {i} \in SUBSET Ids
    BY DEF Window
  <2>3. Moves(w) /\ worker'[w].pc = "get"
    BY <2>1, <2>2, TryMoves, StartFields, SMTT(30)
  <2>4. ~Running(w)' /\ lease' = lease
    BY <1>3, <2>3 DEF Running, TryReceive, store
  <2>5. \A v \in Workers \ {w} : worker'[v] = worker[v] /\ (Running(v)' => Running(v))
    BY <2>3, <2>4, StillRunning DEF Moves
  <2>6. QED
    BY <2>4, <2>5 DEF HandlerInv
<1>4. CASE Trim
  <2>1. worker' = worker
    BY <1>4 DEF Trim, TrimStart, TrimDeletePayload, TrimDeleteLease, TrimListLeases, TrimEnd
  <2>2. \A i \in Ids : lease'[i] = lease[i] \/ lease'[i] = NoLease
    BY <1>4, OldestIsThere, DeleteLeaseEffect
    DEF Trim, TrimStart, TrimDeletePayload, TrimDeleteLease, TrimListLeases, TrimEnd, store,
        TypeInv
  <2>3. QED
    BY <1>1, <2>1, <2>2
<1>5. CASE \/ \E i \in Ids : Enqueue(i) \/ EnqueueWithID(i)
           \/ TrimFails \/ Age \/ UNCHANGED vars
  <2>1. UNCHANGED <<worker, lease>>
    BY <1>5 DEF Enqueue, EnqueueWithID, WritePayload, TrimFails, Age, vars, store
  <2>2. QED
    BY <1>1, <2>1
<1>6. CASE Tick
  <2>1. ASSUME NEW v \in Workers, Running(v)' PROVE Running(v)
    <3>1. worker[v].id \in Ids
      BY <1>6, <2>1, TickWorker DEF Running, TypeInv, Started
    <3>2. Passes(worker[v].id, worker[v].version)' => Passes(worker[v].id, worker[v].version)
      <4>1. lease'[worker[v].id].version = lease[worker[v].id].version
        BY <1>6, <3>1, TickLease
      <4>2. worker'[v].id = worker[v].id /\ worker'[v].version = worker[v].version
        BY <1>6, TickWorker
      <4>3. QED
        BY <4>1, <4>2 DEF Passes
    <3>3. /\ worker'[v].newUntil # 0 => worker[v].newUntil # 0
          /\ worker'[v].leaseUntil # 0 => worker[v].leaseUntil # 0
      BY <1>6, TickWorker DEF Less
    <3>4. QED
      BY <1>6, <2>1, <3>2, <3>3, TickWorker DEF Running
  <2>2. QED
    BY <1>6, <2>1, TickWorker DEF HandlerInv
<1>7. QED
  BY <1>2, <1>3, <1>4, <1>5, <1>6 DEF Next, WorkerStep

-----------------------------------------------------------------------------
(* The theorems about leases.                                              *)

\* All of the invariant but the counts.
LeaseInv ==
  /\ TypeInv /\ StoreInv /\ RemovalInv /\ TrimInv
  /\ \A w \in Workers : WorkerInv(w)
  /\ HandlerInv

LEMMA InitLease == Init => LeaseInv
<1> SUFFICES ASSUME Init PROVE LeaseInv
  OBVIOUS
<1>1. TypeInv /\ StoreInv /\ RemovalInv
  BY InitType, InitRemoval
<1>2. \A w \in Workers : worker[w].pc = "idle" /\ worker[w].rpc = "none"
  BY IdleFields DEF Init
<1>3. \A w \in Workers : WorkerInv(w)
  BY <1>2 DEF WorkerInv, Remembered, Threads, Claimed, Holding, Moving
<1>4. HandlerInv
  BY <1>2 DEF HandlerInv, Running
<1>5. TrimInv
  BY DEF Init, TrimInv, NoTrim
<1>6. QED
  BY <1>1, <1>3, <1>4, <1>5 DEF LeaseInv

LEMMA LeaseStep == ASSUME NoReuse, NoLateIds, LeaseInv, [Next]_vars PROVE LeaseInv'
BY TypeStep, StoreStep, RemovalStep, TrimStep, ClaimStep, HandlerStep DEF LeaseInv

LEMMA LeaseInvariant == NoReuse /\ NoLateIds /\ Spec => []LeaseInv
<1> SUFFICES ASSUME NoReuse, NoLateIds PROVE Spec => []LeaseInv
  OBVIOUS
<1>1. LeaseInv /\ [Next]_vars => LeaseInv'
  BY LeaseStep
<1>2. QED
  BY <1>1, InitLease, PTL DEF Spec

\* While there is a message, whoever relies on its lease is named by the record.
LEMMA ReliesIsMine ==
  ASSUME LeaseInv, NEW w \in Workers, Relies(w), payload[worker[w].id] # 0
  PROVE  Mine(w) /\ lease[worker[w].id].until >= worker[w].leaseUntil
<1>1. worker[w].pc \in Moving \cup Holding /\ worker[w].pc # "idle" /\ worker[w].leaseUntil # 0
  BY DEF Relies, Holds, Holding, Moving, Expired
<1>2. QED
  BY <1>1 DEF LeaseInv, WorkerInv, Claimed, Backs

\* The record names the worker, runs as long as the worker believes and counts
\* this delivery, through claims, renewals, takeovers, moves to the dead records,
\* Nack and Trim (queue.go:583-730, queuemessage.go:120-220).
THEOREM LeasesBackHolders == NoReuse /\ NoLateIds /\ Spec => []LeaseBacksHolder
<1>1. LeaseInv => LeaseBacksHolder
  BY ReliesIsMine DEF LeaseBacksHolder, Mine
<1>2. QED
  BY <1>1, LeaseInvariant, PTL

\* Visibility (queue.go:583-650): while its lease runs a message is with one
\* worker only, however many workers there are and wherever they crash.
THEOREM OneHolder == NoReuse /\ NoLateIds /\ Spec => []OneLiveHolder
<1>1. LeaseInv => OneLiveHolder
  <2> SUFFICES ASSUME LeaseInv, NEW v \in Workers, NEW w \in Workers, Relies(v), Relies(w),
                      worker[v].id = worker[w].id
               PROVE  v = w
    BY DEF OneLiveHolder
  <2>1. CASE payload[worker[v].id] # 0
    BY <2>1, ReliesIsMine, SMTT(30) DEF Mine
  <2>2. CASE payload[worker[v].id] = 0
    <3>1. Running(v) /\ Running(w)
      BY <2>2 DEF Relies, Holds, Running, Expired
    <3>2. QED
      BY <3>1 DEF LeaseInv, HandlerInv
  <2>3. QED
    BY <2>1, <2>2
<1>2. QED
  BY <1>1, LeaseInvariant, PTL

-----------------------------------------------------------------------------
(* Receive counts.                                                         *)

\* What the step of a worker does to the count of a message that is there.
LEMMA LeaseCount ==
  ASSUME TypeInv, RemovalInv, NEW w \in Workers, WorkerInv(w), WorkerStep(w), lease' # lease,
         payload[worker[w].id] # 0
  PROVE  LET i == worker[w].id IN
         \/ AckDeleteLease(w) /\ lease'[i] = NoLease
         \/ lease'[i].receives = lease[i].receives
         \/ /\ WriteLease(w) /\ worker[w].pc = "write"
            /\ lease'[i].receives = lease[i].receives + 1
<1> DEFINE i == worker[w].id
<1>1. TypeOK /\ i \in Ids /\ worker[w] \in Local /\ worker[w].pc # "idle"
  BY StepBusy, Numeric DEF TypeInv
<1>2. worker[w].newUntil \in Durations /\ worker[w].receives \in Nat /\ 0 \in Durations
      /\ worker[w].seen.receives \in Nat
  BY <1>1, Numeric, Numbers, SMTT(30) DEF Local, Durations
<1>3. Remembered(w) /\ Claimed(w) /\ Reason(w)
  BY DEF WorkerInv, RemovalInv
<1>4. \/ WriteLease(w) \/ Drop(w) \/ DeadDeleteLease(w) \/ RenewWrite(w)
      \/ AckDeleteLease(w) \/ NackWrite(w)
  BY DEF WorkerStep, Receive, GetLease, Decide, ReadBack, Verify, DeadLetter, DeadAttributes,
     DeadRead, DeadWrite, DeadDeletePayload, Renewer, RenewTick, RenewReadBack, RenewExit,
     RenewCallFails, Abandon, Ack, Nack, Settle, SettleJoin, SettleGet, AckDeletePayload, store
<1>5. CASE WriteLease(w)
  <2>1. /\ Passes(i, worker[w].seen.version) /\ worker[w].pc \in {"write", "hold"}
        /\ PutLease(i, w, worker[w].newUntil, worker[w].receives)
    BY <1>5 DEF WriteLease
  <2>2. lease'[i].receives = worker[w].receives
    BY <1>1, <1>2, <2>1, PutLeaseEffect, SMTT(30)
  <2>3. worker[w].seen = lease[i]
    BY <1>3, <2>1 DEF Passes, Remembered
  <2>4. QED
    BY <1>3, <1>5, <2>1, <2>2, <2>3 DEF Remembered
<1>6. CASE Drop(w) \/ DeadDeleteLease(w)
  BY <1>3, <1>6 DEF Reason, Drop, DeadDeleteLease
<1>7. CASE RenewWrite(w)
  <2>1. /\ Passes(i, worker[w].version) /\ worker[w].rpc = "write"
        /\ PutLease(i, w, worker[w].newUntil, worker[w].receives)
    BY <1>7 DEF RenewWrite
  <2>2. lease'[i].receives = worker[w].receives
    BY <1>1, <1>2, <2>1, PutLeaseEffect, SMTT(30)
  <2>3. lease[i].receives = worker[w].receives
    BY <1>1, <1>3, <2>1 DEF Claimed, Mine
  <2>4. QED
    BY <2>2, <2>3
<1>8. CASE AckDeleteLease(w)
  BY <1>1, <1>8, DeleteLeaseEffect DEF AckDeleteLease
<1>9. CASE NackWrite(w)
  <2>1. /\ Passes(i, worker[w].seen.version) /\ worker[w].pc = "nackwrite"
        /\ PutLease(i, w, 0, worker[w].seen.receives)
    BY <1>9 DEF NackWrite
  <2>2. lease'[i].receives = worker[w].seen.receives
    BY <1>1, <1>2, <2>1, PutLeaseEffect, SMTT(30)
  <2>3. worker[w].seen = lease[i]
    BY <1>3, <2>1 DEF Passes, Remembered
  <2>4. QED
    BY <2>2, <2>3
<1>10. QED
  BY <1>4, <1>5, <1>6, <1>7, <1>8, <1>9

\* While a message is there, its record is replaced by one that counts as much.
LEMMA CountKept ==
  ASSUME LeaseInv, [Next]_vars, NEW i \in Ids, payload[i] # 0, ~Absent(lease'[i])
  PROVE  lease'[i].receives >= lease[i].receives
<1>1. TypeInv /\ RemovalInv /\ TrimInv /\ lease[i].receives \in Nat
  BY DEF LeaseInv, TypeInv, TypeOK, LeaseRecord
<1>2. ASSUME NEW w \in Workers, WorkerStep(w) PROVE lease'[i].receives >= lease[i].receives
  <2>1. Shape(w) /\ WorkerInv(w)
    BY <1>1, <1>2, StepShape DEF LeaseInv
  <2>2. CASE i = worker[w].id /\ lease' # lease
    BY <1>1, <1>2, <2>1, <2>2, LeaseCount, NoLeaseFields, SMTT(30)
  <2>3. CASE i # worker[w].id \/ lease' = lease
    BY <1>1, <2>1, <2>3, SMTT(30) DEF Shape
  <2>4. QED
    BY <2>2, <2>3
<1>3. CASE TrimDeleteLease
  BY <1>1, <1>3, TrimSparesMessages, SMTT(30)
<1>4. CASE Tick
  BY <1>1, <1>4, TickLease, SMTT(30)
<1>5. CASE ~TrimDeleteLease /\ ~Tick /\ ~(\E w \in Workers : WorkerStep(w))
  <2>1. lease' = lease
    BY <1>5
    DEF Next, WorkerStep, Enqueue, EnqueueWithID, WritePayload, TryReceive, Trim, TrimStart,
        TrimDeletePayload, TrimListLeases, TrimEnd, TrimFails, Age, vars, store
  <2>2. QED
    BY <1>1, <2>1, SMTT(30)
<1>6. QED
  BY <1>2, <1>3, <1>4, <1>5

\* A renewal, a takeover, a move to the dead records and Nack all carry the count
\* on (queuemessage.go:65-69, 139-180; queue.go:583-640).
THEOREM CountsNeverDrop == NoReuse /\ NoLateIds /\ Spec => CountNeverDrops
<1>1. LeaseInv /\ [Next]_vars =>
        [\A i \in Ids : payload[i] # 0 /\ ~Absent(lease[i]) /\ ~Absent(lease'[i])
                          => lease'[i].receives >= lease[i].receives]_vars
  BY CountKept
<1>2. QED
  BY <1>1, LeaseInvariant, PTL DEF Spec, CountNeverDrops

\* Who is between its claim and the hand-out, before and after a step.
LEMMA BeginsPending ==
  ASSUME TypeInv, NEW w \in Workers, WorkerStep(w), worker'[w].pc \in {"readback", "verify"}
  PROVE  /\ worker'[w].id = worker[w].id /\ delivered' = delivered
         /\ \/ WriteLease(w) /\ worker[w].pc = "write" /\ lease' # lease
            \/ worker[w].pc \in {"readback", "verify"}
<1>1. worker[w] \in Local
  BY Numeric
<1>2. CASE Stop(w) \/ NextCandidate(w)
  BY <1>2, StopPC, NextPC
<1>3. CASE ~Stop(w) /\ ~NextCandidate(w) /\ (Ack(w) \/ Nack(w) \/ Settle(w) \/ DeadLetter(w))
  <2>1. CASE Ack(w) \/ Nack(w)
    BY <1>1, <2>1, SMTT(30) DEF Ack, Nack, TypeInv, TypeOK, Local, ghosts
  <2>2. CASE SettleJoin(w) \/ (SettleGet(w) /\ ~Stop(w))
    BY <1>1, <2>2, SMTT(30) DEF SettleJoin, SettleGet, TypeInv, TypeOK, Local, ghosts
  <2>3. CASE ~Stop(w) /\ (AckDeleteLease(w) \/ AckDeletePayload(w) \/ NackWrite(w))
    BY <1>1, <2>3, SMTT(30)
    DEF AckDeleteLease, AckDeletePayload, NackWrite, TypeInv, TypeOK, Local, ghosts
  <2>4. CASE ~NextCandidate(w) /\ DeadLetter(w)
    BY <1>1, <2>4, SMTT(30)
    DEF DeadLetter, DeadAttributes, DeadRead, DeadWrite, DeadDeletePayload, DeadDeleteLease,
        TypeInv, TypeOK, Local, ghosts
  <2> QED
    BY <1>3, <2>1, <2>2, <2>3, <2>4 DEF Settle
<1>4. CASE Renewer(w) \/ RenewCallFails(w)
  <2>1. CASE RenewTick(w) \/ RenewWrite(w)
    BY <1>1, <2>1, SMTT(30) DEF RenewTick, RenewWrite, RenewLost, TypeInv, TypeOK, Local, ghosts
  <2>2. CASE RenewReadBack(w)
    BY <1>1, <2>2, SMTT(30) DEF RenewReadBack, RenewLost, TypeInv, TypeOK, Local, ghosts
  <2>3. CASE RenewExit(w) \/ RenewCallFails(w)
    BY <1>1, <2>3, SMTT(30) DEF RenewExit, RenewCallFails, TypeInv, TypeOK, Local, ghosts
  <2> QED
    BY <1>4, <2>1, <2>2, <2>3 DEF Renewer
<1>5. CASE GetLease(w) \/ Verify(w) \/ (ReadBack(w) /\ ~NextCandidate(w) /\ ~Stop(w))
  BY <1>1, <1>5, SMTT(30) DEF GetLease, Verify, ReadBack, TypeInv, TypeOK, Local, ghosts
<1>6. CASE WriteLease(w) /\ ~NextCandidate(w)
  <2>1. worker'[w].id = worker[w].id /\ worker[w].pc = "write" /\ delivered' = delivered
    BY <1>1, <1>6, SMTT(30) DEF WriteLease, TypeInv, TypeOK, Local, ghosts
  <2>2. /\ worker[w].id \in Ids /\ worker[w].newUntil \in Durations /\ worker[w].receives \in Nat
        /\ PutLease(worker[w].id, w, worker[w].newUntil, worker[w].receives)
    BY <1>1, <1>6, StepBusy DEF WriteLease, Local
  <2>3. lease'[worker[w].id].version # lease[worker[w].id].version
    BY <2>2 DEF PutLease, InUse, TypeInv, TypeOK
  <2>4. QED
    BY <1>6, <2>1, <2>3
<1>7. CASE ~NextCandidate(w) /\ Decide(w)
  <2>1. worker[w].seen.receives \in Nat
    BY Numeric
  <2>2. worker'[w].pc \in {"write", "hold"}
    BY <1>7, <2>1, ClaimMoves, SMTT(30) DEF Decide
  <2>3. QED
    BY <2>2
<1>8. QED
  BY <1>2, <1>3, <1>4, <1>5, <1>6, <1>7 DEF WorkerStep, Receive, Drop, Abandon

LEMMA FinitePending == ASSUME NEW i PROVE IsFiniteSet(Pending(i)) /\ Cardinality(Pending(i)) \in Nat
BY QueueAssumption, FS_Subset, FS_CardinalityType DEF Pending

\* Hand-outs.
LEMMA DeliveredStep ==
  ASSUME TypeInv, NEW w \in Workers, WorkerStep(w), delivered' # delivered
  PROVE  /\ Verify(w) /\ payload[worker[w].id] # 0 /\ worker[w].id \in Ids
         /\ delivered' = [delivered EXCEPT ![worker[w].id] = @ + 1]
         /\ worker'[w].pc = "held" /\ UNCHANGED <<payload, lease, acked>>
<1>1. worker[w] \in Local /\ worker[w].id \in Ids
  BY Numeric, StepBusy, SMTT(30)
<1>2. Verify(w)
  BY DEF WorkerStep, Receive, GetLease, Decide, WriteLease, ReadBack, Drop,
     DeadLetter, DeadAttributes, DeadRead, DeadWrite, DeadDeletePayload, DeadDeleteLease,
     Renewer, RenewTick, RenewWrite, RenewReadBack, RenewExit, RenewCallFails, Abandon,
     Ack, Nack, Settle, SettleJoin, SettleGet, AckDeleteLease, AckDeletePayload, NackWrite, ghosts
<1>3. QED
  BY <1>1, <1>2, SMTT(30) DEF Verify, TypeInv, TypeOK, Local, store

LEMMA CountedWorker ==
  ASSUME LeaseInv, NoReuse, Counted, NEW w \in Workers, WorkerStep(w)
  PROVE  Counted'
<1> DEFINE i == worker[w].id
<1>1. TypeInv /\ TypeOK /\ RemovalInv /\ WorkerInv(w) /\ Reason(w)
  BY DEF LeaseInv, RemovalInv, TypeInv
<1>2. Shape(w) /\ i \in Ids
  BY <1>1, StepShape, StepBusy
<1>3. acked \subseteq acked'
  BY AckedGrows
<1>4. \A v \in Workers \ {w} : worker'[v] = worker[v]
  BY <1>2 DEF Shape, Moves
<1> SUFFICES ASSUME NEW j \in Ids, payload'[j] # 0, <<j, 1>> \notin acked'
             PROVE  delivered'[j] + Cardinality(Pending(j)') <= lease'[j].receives
  BY DEF Counted
<1>5. /\ payload[j] # 0 /\ <<j, 1>> \notin acked
      /\ delivered[j] + Cardinality(Pending(j)) <= lease[j].receives
  BY <1>2, <1>3 DEF Shape, Counted
<1>6. /\ delivered[j] \in Nat /\ lease[j].receives \in Nat
      /\ IsFiniteSet(Pending(j)) /\ Cardinality(Pending(j)) \in Nat
  BY <1>1, FinitePending, SMTT(30) DEF TypeInv, TypeOK, LeaseRecord
<1>7. CASE WriteLease(w) /\ worker[w].pc = "write" /\ lease' # lease /\ j = i
  <2>1. Pending(j)' \subseteq Pending(j) \cup {w} /\ w \notin Pending(j)
    BY <1>4, <1>7 DEF Pending
  <2>2. Cardinality(Pending(j) \cup {w}) = Cardinality(Pending(j)) + 1
        /\ IsFiniteSet(Pending(j) \cup {w})
    BY <1>6, <2>1, FS_AddElement, SMTT(30)
  <2>3. Cardinality(Pending(j)') <= Cardinality(Pending(j)) + 1 /\ Cardinality(Pending(j)') \in Nat
    BY <2>1, <2>2, FS_Subset, FS_CardinalityType
  <2>4. lease'[j].receives = lease[j].receives + 1
    <3>1. PutLease(i, w, worker[w].newUntil, worker[w].receives)
          /\ worker[w].newUntil \in Durations /\ worker[w].receives \in Nat
      BY <1>1, <1>7, Numeric DEF WriteLease, Local
    <3>2. worker[w].seen = lease[i] /\ worker[w].receives = worker[w].seen.receives + 1
      BY <1>1, <1>7 DEF WriteLease, WorkerInv, Remembered, Passes
    <3>3. QED
      BY <1>1, <1>2, <1>7, <3>1, <3>2, PutLeaseEffect, SMTT(30)
  <2>5. delivered' = delivered
    BY <1>7 DEF WriteLease, ghosts
  <2>6. QED
    BY <1>5, <1>6, <2>3, <2>4, <2>5, SMTT(30)
<1>8. CASE ~(WriteLease(w) /\ worker[w].pc = "write" /\ lease' # lease /\ j = i)
  <2>1. Pending(j)' \subseteq Pending(j)
    <3>1. w \in Pending(j)' => w \in Pending(j)
      BY <1>1, <1>8, BeginsPending DEF Pending
    <3>2. QED
      BY <1>4, <3>1 DEF Pending
  <2>2. /\ Cardinality(Pending(j)') <= Cardinality(Pending(j))
        /\ Cardinality(Pending(j)') \in Nat /\ IsFiniteSet(Pending(j)')
    BY <1>6, <2>1, FS_Subset, FS_CardinalityType
  <2>3. lease'[j].receives >= lease[j].receives /\ lease'[j].receives \in Nat
    <3>1. [Next]_vars
      BY DEF Next, WorkerStep
    <3>2. lease'[j].receives \in Nat
      BY <1>1, <3>1, TypeStep, SMTT(30) DEF TypeInv, TypeOK, LeaseRecord
    <3>3. CASE lease' = lease \/ j # i
      BY <1>2, <1>6, <3>2, <3>3, SMTT(30) DEF Shape
    <3>4. CASE lease' # lease /\ j = i
      <4>1. ~AckDeleteLease(w)
        BY <1>1, <1>5, <3>4 DEF AckDeleteLease, Reason
      <4>2. QED
        BY <1>1, <1>5, <1>6, <3>2, <3>4, <4>1, LeaseCount, SMTT(30)
    <3>5. QED
      BY <3>3, <3>4
  <2>4. CASE delivered'[j] = delivered[j]
    BY <1>5, <1>6, <2>2, <2>3, <2>4, SMTT(30)
  <2>5. CASE delivered'[j] # delivered[j]
    <3>1. /\ Verify(w) /\ j = i /\ delivered'[j] = delivered[j] + 1 /\ worker'[w].pc = "held"
      BY <1>1, <1>6, <2>5, DeliveredStep DEF TypeInv, TypeOK
    <3>2. w \in Pending(j) /\ w \notin Pending(j)'
      BY <3>1 DEF Verify, Pending
    <3>3. /\ Cardinality(Pending(j) \ {w}) = Cardinality(Pending(j)) - 1
          /\ IsFiniteSet(Pending(j) \ {w})
      BY <1>6, <3>2, FS_RemoveElement
    <3>4. Cardinality(Pending(j)') <= Cardinality(Pending(j)) - 1
      BY <2>1, <3>2, <3>3, FS_Subset, SMTT(30)
    <3>5. QED
      BY <1>5, <1>6, <2>2, <2>3, <3>1, <3>4, SMTT(30)
  <2>6. QED
    BY <2>4, <2>5
<1>9. QED
  BY <1>7, <1>8

\* Steps that leave the workers alone, and the records of messages that are there.
LEMMA CountedFrame ==
  ASSUME Counted, acked' = acked, delivered' = delivered,
         \A w \in Workers : worker'[w].id = worker[w].id /\ worker'[w].pc = worker[w].pc,
         \A i \in Ids : payload'[i] # 0 => /\ payload[i] # 0
                                           /\ lease'[i].receives = lease[i].receives
  PROVE  Counted'
<1> SUFFICES ASSUME NEW j \in Ids, payload'[j] # 0, <<j, 1>> \notin acked'
             PROVE  delivered'[j] + Cardinality(Pending(j)') <= lease'[j].receives
  BY DEF Counted
<1>1. Pending(j)' = Pending(j)
  BY DEF Pending
<1>2. QED
  BY <1>1 DEF Counted

LEMMA CountedStep ==
  ASSUME LeaseInv, NoReuse, Counted, [Next]_vars
  PROVE  Counted'
<1>1. TypeInv /\ StoreInv /\ RemovalInv /\ TrimInv
  BY DEF LeaseInv
<1>2. ASSUME NEW i \in Ids, Enqueue(i) \/ EnqueueWithID(i) PROVE Counted'
  <2>1. /\ worker' = worker /\ lease' = lease /\ acked' = acked /\ enqueued[i] = 0
        /\ delivered'[i] = 0
        /\ \A j \in Ids \ {i} : payload'[j] = payload[j] /\ delivered'[j] = delivered[j]
    BY <1>1, <1>2, OneEnqueue, SMTT(30) DEF Enqueue, EnqueueWithID, WritePayload, NoReuse, TypeInv, TypeOK
  <2>2. \A j \in Ids : Pending(j)' = Pending(j)
    BY <2>1 DEF Pending
  <2>3. Pending(i) = {}
    BY <1>1, <2>1, SMTT(30) DEF Pending, StoreInv
  <2>4. Cardinality(Pending(i)) = 0 /\ lease[i].receives \in Nat
    BY <1>1, <2>3, FS_EmptySet DEF TypeInv, TypeOK, LeaseRecord
  <2>5. ASSUME NEW j \in Ids, payload'[j] # 0, <<j, 1>> \notin acked'
        PROVE  delivered'[j] + Cardinality(Pending(j)') <= lease'[j].receives
    <3>1. CASE j = i
      BY <2>1, <2>2, <2>4, <3>1, SMTT(30)
    <3>2. CASE j # i
      BY <2>1, <2>2, <2>5, <3>2 DEF Counted
    <3>3. QED
      BY <3>1, <3>2, SMTT(30)
  <2>6. QED
    BY <2>5 DEF Counted
<1>3. ASSUME NEW w \in Workers, TryReceive(w) PROVE Counted'
  <2>1. PICK i \in Window : Try(w, i, Window \ {i})
    BY <1>3 DEF TryReceive
  <2>2. i \in Ids /\ Window \ {i} \in SUBSET Ids
    BY DEF Window
  <2>3. Moves(w) /\ worker'[w].pc = "get" /\ worker[w].pc = "idle"
    BY <1>1, <1>3, <2>1, <2>2, TryMoves, StartFields, SMTT(30) DEF TryReceive
  <2>4. \A j \in Ids : Pending(j)' = Pending(j)
    BY <2>3, SMTT(30) DEF Pending, Moves
  <2>5. UNCHANGED <<payload, lease, delivered, acked>>
    BY <1>3, SMTT(30) DEF TryReceive, store, ghosts
  <2>6. QED
    BY <2>4, <2>5 DEF Counted
<1>4. CASE Tick
  BY <1>1, <1>4, TickWorker, TickLease, CountedFrame DEF Tick, ghosts
<1>5. CASE TrimDeleteLease
  <2>1. UNCHANGED <<worker, payload, acked, delivered>>
    BY <1>5, SMTT(30) DEF TrimDeleteLease, ghosts
  <2>2. QED
    BY <1>1, <1>5, <2>1, TrimSparesMessages, CountedFrame, SMTT(30)
<1>6. CASE TrimDeletePayload
  <2>1. UNCHANGED <<worker, lease, acked, delivered>>
    BY <1>6 DEF TrimDeletePayload, ghosts
  <2>2. \A i \in Ids : payload'[i] \in {payload[i], 0}
    BY <1>1, <1>6, OldestIsThere, DeletePayloadEffect DEF TrimDeletePayload, TypeInv
  <2>3. QED
    BY <2>1, <2>2, CountedFrame
<1>7. CASE TrimStart \/ TrimListLeases \/ TrimEnd \/ TrimFails \/ Age \/ UNCHANGED vars
  <2>1. UNCHANGED <<worker, payload, lease, acked, delivered>>
    BY <1>7 DEF TrimStart, TrimListLeases, TrimEnd, TrimFails, Age, vars, store, ghosts
  <2>2. QED
    BY <2>1, CountedFrame
<1>8. QED
  BY <1>2, <1>3, <1>4, <1>5, <1>6, <1>7, CountedWorker DEF Next, WorkerStep, Trim

\* No record, and no worker, counts further than the limit.
LEMMA LimitedWorker ==
  ASSUME TypeInv, Limited, MaxReceives > 0, NEW w \in Workers, WorkerStep(w)
  PROVE  /\ \A i \in Ids : lease'[i].receives <= MaxReceives
         /\ worker'[w].receives <= MaxReceives /\ worker'[w].seen.receives <= MaxReceives
<1> DEFINE i == worker[w].id
<1>1. i \in Ids /\ worker[w] \in Local /\ Shape(w)
  BY StepBusy, Numeric, StepShape
<1>2. /\ worker[w].newUntil \in Durations /\ worker[w].receives \in Nat /\ 0 \in Durations
      /\ worker[w].seen.receives \in Nat /\ MaxReceives \in Nat
  BY <1>1, Numeric, Numbers, SMTT(30) DEF Local, Durations
<1>3. /\ worker[w].receives <= MaxReceives /\ worker[w].seen.receives <= MaxReceives
      /\ \A j \in Ids : lease[j].receives <= MaxReceives
  BY DEF Limited
<1>4. \A j \in Ids : lease'[j].receives <= MaxReceives
  <2>1. CASE lease' = lease \/ lease'[i] = NoLease
    BY <1>1, <1>2, <1>3, <2>1, NoLeaseFields, SMTT(30) DEF Shape
  <2>2. CASE lease' # lease /\ lease'[i] # NoLease
    <3>1. ~DeleteLease(i)
      BY <1>1, <2>2, DeleteLeaseEffect DEF TypeInv
    <3>2. \/ PutLease(i, w, worker[w].newUntil, worker[w].receives)
          \/ PutLease(i, w, 0, worker[w].seen.receives)
      BY <2>2, <3>1
      DEF WorkerStep, Receive, GetLease, Decide, WriteLease, ReadBack, Verify, Drop,
          DeadLetter, DeadAttributes, DeadRead, DeadWrite, DeadDeletePayload, DeadDeleteLease,
          Renewer, RenewTick, RenewWrite, RenewReadBack, RenewExit, RenewCallFails, Abandon,
          Ack, Nack, Settle, SettleJoin, SettleGet, AckDeleteLease, AckDeletePayload, NackWrite,
          store
    <3>3. lease'[i].receives \in {worker[w].receives, worker[w].seen.receives}
      BY <1>1, <1>2, <3>2, PutLeaseEffect, SMTT(30) DEF TypeInv
    <3>4. QED
      BY <1>1, <1>3, <3>3 DEF Shape
  <2>3. QED
    BY <2>1, <2>2
<1>5. worker'[w].receives <= MaxReceives /\ worker'[w].seen.receives <= MaxReceives
  <2>1. CASE Stop(w) \/ NextCandidate(w)
    BY <1>2, <2>1, StopPC, NextPC, NoLeaseFields, SMTT(30)
  <2>2. CASE ~NextCandidate(w) /\ Decide(w)
    <3>1. \/ Claim(w, "write", 1) \/ Claim(w, "hold", worker[w].seen.receives)
          \/ /\ Claim(w, "write", worker[w].seen.receives + 1)
             /\ ~(worker[w].seen.receives >= MaxReceives)
      BY <2>2 DEF Decide
    <3>2. /\ worker'[w].seen = worker[w].seen
          /\ \/ worker'[w].receives = 1 \/ worker'[w].receives = worker[w].seen.receives
             \/ /\ worker'[w].receives = worker[w].seen.receives + 1
                /\ ~(worker[w].seen.receives >= MaxReceives)
      BY <1>2, <3>1, ClaimMoves, SMTT(30)
    <3>3. QED
      BY <1>2, <1>3, <3>2, SMTT(30)
  <2>3. CASE GetLease(w) \/ (~Stop(w) /\ SettleGet(w))
    BY <1>1, <1>3, <2>3, SMTT(30) DEF GetLease, SettleGet, TypeInv, TypeOK, Local
  <2>4. CASE ~NextCandidate(w) /\ ~Stop(w) /\ ReadBack(w)
    <3>1. worker'[w].seen = NoLease /\ worker'[w].receives = worker[w].receives
      BY <1>1, <2>4, SMTT(30) DEF ReadBack, TypeInv, TypeOK, Local
    <3>2. QED
      BY <1>2, <1>3, <3>1, NoLeaseFields, SMTT(30)
  <2>5. CASE ~Stop(w) /\ ~NextCandidate(w) /\ ~Decide(w) /\ ~GetLease(w) /\ ~SettleGet(w)
             /\ ~ReadBack(w)
    <3>1. worker'[w].seen = worker[w].seen /\ worker'[w].receives = worker[w].receives
      <4>1. CASE Receive(w)
        BY <1>1, <2>5, <4>1, SMTT(30) DEF Receive, WriteLease, Verify, Drop, TypeInv, TypeOK, Local
      <4>2. CASE DeadLetter(w)
        BY <1>1, <2>5, <4>2, SMTT(30)
        DEF DeadLetter, DeadAttributes, DeadRead, DeadWrite, DeadDeletePayload, DeadDeleteLease,
            TypeInv, TypeOK, Local
      <4>3. CASE Renewer(w) \/ RenewCallFails(w)
        BY <1>1, <4>3, SMTT(30)
        DEF Renewer, RenewTick, RenewWrite, RenewReadBack, RenewExit, RenewLost, RenewCallFails,
            TypeInv, TypeOK, Local
      <4>4. CASE Ack(w) \/ Nack(w) \/ Settle(w) \/ Abandon(w)
        BY <1>1, <2>5, <4>4, SMTT(30)
        DEF Ack, Nack, Settle, SettleJoin, AckDeleteLease, AckDeletePayload, NackWrite, Abandon,
            TypeInv, TypeOK, Local
      <4>5. QED
        BY <4>1, <4>2, <4>3, <4>4 DEF WorkerStep
    <3>2. QED
      BY <1>3, <3>1
  <2>6. QED
    BY <2>1, <2>2, <2>3, <2>4, <2>5
<1>6. QED
  BY <1>4, <1>5, SMTT(30)

LEMMA LimitedStep ==
  ASSUME TypeInv, Limited, [Next]_vars
  PROVE  Limited'
<1> SUFFICES ASSUME MaxReceives > 0
             PROVE  /\ \A i \in Ids : lease'[i].receives <= MaxReceives
                    /\ \A w \in Workers : /\ worker'[w].receives <= MaxReceives
                                          /\ worker'[w].seen.receives <= MaxReceives
  BY DEF Limited
<1>1. /\ MaxReceives \in Nat /\ \A i \in Ids : lease[i].receives <= MaxReceives
      /\ \A w \in Workers : /\ worker[w].receives <= MaxReceives
                            /\ worker[w].seen.receives <= MaxReceives
  BY Numbers, SMTT(30) DEF Limited
<1>2. ASSUME NEW w \in Workers, WorkerStep(w)
      PROVE  /\ \A i \in Ids : lease'[i].receives <= MaxReceives
             /\ \A v \in Workers : /\ worker'[v].receives <= MaxReceives
                                   /\ worker'[v].seen.receives <= MaxReceives
  <2>1. \A v \in Workers \ {w} : worker'[v] = worker[v]
    BY <1>2, StepShape DEF Shape, Moves
  <2>2. QED
    BY <1>1, <1>2, <2>1, LimitedWorker
<1>3. ASSUME NEW w \in Workers, TryReceive(w)
      PROVE  /\ lease' = lease
             /\ \A v \in Workers : /\ worker'[v].receives <= MaxReceives
                                   /\ worker'[v].seen.receives <= MaxReceives
  <2>1. PICK i \in Window : Try(w, i, Window \ {i})
    BY <1>3 DEF TryReceive
  <2>2. i \in Ids /\ Window \ {i} \in SUBSET Ids
    BY DEF Window
  <2>3. Moves(w) /\ worker'[w].receives = 0 /\ worker'[w].seen = NoLease
    BY <2>1, <2>2, TryMoves, StartFields, SMTT(30)
  <2>4. \A v \in Workers : worker'[v].receives <= MaxReceives /\ worker'[v].seen.receives <= MaxReceives
    BY <1>1, <2>3, NoLeaseFields, SMTT(30) DEF Moves
  <2>5. QED
    BY <1>3, <2>4 DEF TryReceive, store
<1>4. CASE Tick
  <2>1. \A w \in Workers : worker'[w].seen.receives = worker[w].seen.receives
    BY <1>4, TickWorker DEF TypeInv, TypeOK, Local, LeaseRecord
  <2>2. QED
    BY <1>1, <1>4, <2>1, TickWorker, TickLease
<1>5. CASE TrimDeleteLease
  <2>1. worker' = worker /\ \A i \in Ids : lease'[i] \in {lease[i], NoLease}
    BY <1>5, OldestIsThere, DeleteLeaseEffect DEF TrimDeleteLease, TypeInv
  <2>2. QED
    BY <1>1, <2>1, NoLeaseFields, SMTT(30)
<1>6. CASE \/ \E i \in Ids : Enqueue(i) \/ EnqueueWithID(i)
           \/ TrimStart \/ TrimDeletePayload \/ TrimListLeases \/ TrimEnd \/ TrimFails \/ Age
           \/ UNCHANGED vars
  <2>1. UNCHANGED <<worker, lease>>
    BY <1>6
    DEF Enqueue, EnqueueWithID, WritePayload, TrimStart, TrimDeletePayload, TrimListLeases,
        TrimEnd, TrimFails, Age, vars, store
  <2>2. QED
    BY <1>1, <2>1, SMTT(30)
<1>7. QED
  BY <1>1, <1>2, <1>3, <1>4, <1>5, <1>6 DEF Next, WorkerStep, Trim

\* A hand-out is of a message that is there, so it was counted.
LEMMA CapStep ==
  ASSUME TypeInv, NoReuse, StoreInv, DeliveryCap, [Next]_vars, Counted', Limited', TypeInv'
  PROVE  DeliveryCap'
<1> SUFFICES ASSUME NEW i \in Ids, MaxReceives > 0, <<i, enqueued'[i]>> \notin acked'
             PROVE  delivered'[i] <= MaxReceives
  BY DEF DeliveryCap
<1>1. CASE delivered'[i] = delivered[i] /\ enqueued'[i] = enqueued[i]
  <2>1. acked \subseteq acked'
    <3>1. CASE \E w \in Workers : WorkerStep(w)
      BY <3>1, AckedGrows
    <3>2. CASE ~(\E w \in Workers : WorkerStep(w))
      BY <3>2
      DEF Next, WorkerStep, Enqueue, EnqueueWithID, WritePayload, TryReceive, Trim, TrimStart,
          TrimDeletePayload, TrimDeleteLease, TrimListLeases, TrimEnd, TrimFails, Age, Tick, vars,
          ghosts
    <3>3. QED
      BY <3>1, <3>2
  <2>2. QED
    BY <1>1, <2>1 DEF DeliveryCap
<1>2. ASSUME NEW w \in Workers, WorkerStep(w), delivered'[i] # delivered[i]
      PROVE  delivered'[i] <= MaxReceives
  <2>1. i = worker[w].id /\ payload'[i] # 0 /\ payload[i] # 0
    BY <1>2, DeliveredStep, SMTT(30) DEF TypeInv, TypeOK
  <2>2. enqueued'[i] = 1
    BY <1>2, <2>1, StepShape, OneEnqueue DEF Shape, StoreInv
  <2>3. delivered'[i] + Cardinality(Pending(i)') <= lease'[i].receives
    BY <2>1, <2>2 DEF Counted
  <2>4. Cardinality(Pending(i)') \in Nat
    <3>1. Pending(i)' \subseteq Workers
      BY DEF Pending
    <3>2. QED
      BY <3>1, QueueAssumption, FS_Subset, FS_CardinalityType, SMTT(30)
  <2>5. lease'[i].receives <= MaxReceives /\ lease'[i].receives \in Nat /\ MaxReceives \in Nat
        /\ delivered'[i] \in Nat
    BY Numbers, SMTT(30) DEF Limited, TypeInv, TypeOK, LeaseRecord
  <2>6. QED
    BY <2>3, <2>4, <2>5, SMTT(30)
<1>3. ASSUME NEW j \in Ids, Enqueue(j) \/ EnqueueWithID(j), i = j PROVE delivered'[i] <= MaxReceives
  BY <1>3, Numbers, SMTT(30) DEF Enqueue, EnqueueWithID, WritePayload, TypeInv, TypeOK
<1>4. CASE ~(\E w \in Workers : WorkerStep(w)) /\ ~(Enqueue(i) \/ EnqueueWithID(i))
  <2>1. delivered'[i] = delivered[i] /\ enqueued'[i] = enqueued[i]
    BY <1>4
    DEF Next, WorkerStep, Enqueue, EnqueueWithID, WritePayload, TryReceive, Trim, TrimStart,
        TrimDeletePayload, TrimDeleteLease, TrimListLeases, TrimEnd, TrimFails, Age, Tick, vars,
        ghosts, TypeInv, TypeOK
  <2>2. QED
    BY <1>1, <2>1, SMTT(30)
<1>5. ASSUME NEW w \in Workers, WorkerStep(w) PROVE enqueued' = enqueued
  BY <1>5, StepShape DEF Shape
<1>6. QED
  BY <1>1, <1>2, <1>3, <1>4, <1>5, SMTT(30)

LEMMA CountStep == ASSUME NoReuse, LeaseInv, CountInv, [Next]_vars PROVE CountInv'
BY TypeStep, CountedStep, LimitedStep, CapStep, SMTT(30) DEF LeaseInv, CountInv

LEMMA InitCount == Init => CountInv
<1> SUFFICES ASSUME Init PROVE CountInv
  BY SMTT(30)
<1>1. Counted
  BY DEF Init, Counted
<1>2. Limited
  BY Numbers, NoLeaseFields, IdleFields, SMTT(30) DEF Init, Limited
<1>3. DeliveryCap
  BY Numbers, SMTT(30) DEF Init, DeliveryCap
<1>4. QED
  BY <1>1, <1>2, <1>3 DEF CountInv

\* The whole invariant.
THEOREM QueueInvariant == NoReuse /\ NoLateIds /\ Spec => []QueueInv
<1> SUFFICES ASSUME NoReuse, NoLateIds PROVE Spec => []QueueInv
  BY SMTT(30)
<1>1. QueueInv <=> LeaseInv /\ CountInv
  BY DEF QueueInv, LeaseInv
<1>2. Init => QueueInv
  BY <1>1, InitLease, InitCount
<1>3. QueueInv /\ [Next]_vars => QueueInv'
  <2>1. ASSUME LeaseInv, CountInv, [Next]_vars PROVE LeaseInv' /\ CountInv'
    BY <2>1, LeaseStep, CountStep
  <2>2. QED
    BY <2>1 DEF QueueInv, LeaseInv
<1>4. QED
  BY <1>2, <1>3, PTL DEF Spec

\* "A message is delivered at most n times" (queue.go:154-161): no interleaving of
\* claims, takeovers and failures hands a message out more often than the limit
\* says, as long as no handler has asked for its removal.
THEOREM DeliveriesAreCapped == NoReuse /\ NoLateIds /\ Spec => []DeliveryCap
<1>1. QueueInv => DeliveryCap
  BY DEF QueueInv, CountInv
<1>2. QED
  BY <1>1, QueueInvariant, PTL
=============================================================================
