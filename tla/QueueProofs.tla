----------------------------- MODULE QueueProofs -----------------------------
(***************************************************************************)
(* Proofs about the work queue: for every set of workers and messages,     *)
(* every lease length and receive limit, and every pattern of failures.    *)
(* Here: types, that no message is lost, and the claims of the workers.    *)
(***************************************************************************)
EXTENDS Queue, TLAPS, WellFoundedInduction

\* A leaf goes to Zenon unless it names another prover.
USE ZenonT(30)

\* The queue relies on its callers not to enqueue an id twice.
NoReuse == MaxEnqueues = 1

-----------------------------------------------------------------------------
(* Types, and what is stored and removed.                                  *)

\* An idle worker has no renewer, another an id at hand; a running Trim has a budget.
Started(w) ==
  /\ worker[w].pc = "idle" => worker[w].rpc = "none"
  /\ worker[w].pc # "idle" => worker[w].id \in Ids

TypeInv ==
  /\ TypeOK
  /\ \A w \in Workers : Started(w)
  /\ trim.pc # "idle" => trim.budget # 0

\* Only what was enqueued is stored, claimed or tried; so a payload that is gone
\* stays away.
StoreInv ==
  /\ \A i \in Ids :
       /\ payload[i] # 0 => enqueued[i] # 0
       /\ Absent(lease[i]) => lease[i] = NoLease
       /\ ~Absent(lease[i]) => enqueued[i] # 0
  /\ \A w \in Workers :
       /\ worker[w].pc # "idle" => enqueued[worker[w].id] # 0
       /\ \A i \in worker[w].todo : enqueued[i] # 0

\* Whoever is about to delete a payload has a reason: the handler asked for it,
\* a copy is among the dead records, or the message is past the horizon.
Reason(w) ==
  LET me == worker[w] IN
  /\ me.pc \in {"held", "ackstop", "nackstop", "deadwrite"} => me.got = 1
  /\ me.pc \in {"ackstop", "ackget", "ackdellease", "ackdelmsg"} => <<me.id, 1>> \in acked
  /\ me.pc = "deaddelmsg" => payload[me.id] = 0 \/ dead[me.id].payload = 1
  /\ me.pc \in {"deaddellease", "drop"} => payload[me.id] = 0

RemovalInv ==
  /\ NothingLost
  /\ \A w \in Workers : Reason(w)
  /\ trim.horizon <= horizon
  /\ \A i \in trim.todo : i \notin Untimed /\ i < trim.horizon
  /\ trim.pc # "idle" => Retention

-----------------------------------------------------------------------------
(* Type correctness.                                                       *)

LEMMA Numbers ==
  /\ Lease \in Nat /\ Lease # 0 /\ TrimBatch \in Nat /\ TrimBatch # 0
  /\ MaxEnqueues \in Nat /\ MaxEnqueues # 0
  /\ MaxReceives \in Nat /\ MaxFailures \in Nat /\ MaxCount \in Nat
BY QueueAssumption

LEMMA PCs ==
  /\ "idle" \in CallerPC /\ "held" \in CallerPC
  /\ Receiving \subseteq CallerPC /\ DeadLettering \subseteq CallerPC
  /\ Moving \subseteq CallerPC /\ Settling \subseteq CallerPC
BY DEF CallerPC

LEMMA NoLeaseType == NoLease \in LeaseRecord
BY QueueAssumption, SMTT(30) DEF NoLease, LeaseRecord, Durations, Tokens

LEMMA IdleType == Idle \in Local
BY QueueAssumption, NoLeaseType, SMTT(30)
DEF Idle, Local, CallerPC, RenewerPC, Durations, Tokens, Enqueues

\* One worker moves and the others do not.
Moves(w) ==
  /\ worker' = [v \in Workers |-> worker'[v]]
  /\ \A v \in Workers \ {w} : worker'[v] = worker[v]

LEMMA OneMoves ==
  ASSUME TypeInv, NEW w \in Workers, Moves(w), worker'[w] \in Local,
         worker'[w] = Idle \/ (worker'[w].pc # "idle" /\ worker'[w].id \in Ids)
  PROVE  worker' \in [Workers -> Local] /\ \A v \in Workers : Started(v)'
<1>1. \A v \in Workers : worker'[v] \in Local
  BY DEF TypeInv, TypeOK, Moves
<1>2. worker' \in [Workers -> Local]
  BY <1>1 DEF Moves
<1>3. Idle.pc = "idle" /\ Idle.rpc = "none"
  BY DEF Idle
<1>4. QED
  BY <1>2, <1>3 DEF TypeInv, Started, Moves

\* A candidate is tried from nothing.
Start(i, todo) == [Idle EXCEPT !.pc = "get", !.id = i, !.todo = todo]

LEMMA StartFields ==
  ASSUME NEW i \in Ids, NEW todo \in SUBSET Ids
  PROVE  /\ Start(i, todo) \in Local
         /\ Start(i, todo).pc = "get" /\ Start(i, todo).rpc = "none"
         /\ Start(i, todo).id = i /\ Start(i, todo).todo = todo
         /\ Start(i, todo).seen = NoLease /\ Start(i, todo).receives = 0
         /\ Start(i, todo).newUntil = 0 /\ Start(i, todo).leaseUntil = 0
<1>1. Start(i, todo) \in Local
  BY IdleType, PCs DEF Local, Receiving, Start
<1>2. QED
  BY <1>1 DEF Start, Idle

LEMMA IdleFields ==
  /\ Idle.pc = "idle" /\ Idle.rpc = "none" /\ Idle.id = 0 /\ Idle.todo = {}
  /\ Idle.seen = NoLease /\ Idle.receives = 0 /\ Idle.newUntil = 0 /\ Idle.leaseUntil = 0
BY DEF Idle

LEMMA StopMoves ==
  ASSUME TypeInv, NEW w \in Workers, Stop(w)
  PROVE  Moves(w) /\ worker'[w] = Idle /\ worker'[w] \in Local
BY IdleType DEF TypeInv, TypeOK, Stop, Moves

LEMMA TryMoves ==
  ASSUME TypeInv, NEW w \in Workers, NEW i \in Ids, NEW todo \in SUBSET Ids, Try(w, i, todo)
  PROVE  /\ Moves(w) /\ worker'[w] \in Local
         /\ worker'[w] = Start(i, todo)
<1>1. worker' = [worker EXCEPT ![w] = Start(i, todo)]
  BY DEF Try, Start
<1>2. Moves(w) /\ worker'[w] = Start(i, todo)
  BY <1>1 DEF TypeInv, TypeOK, Moves
<1>3. QED
  BY <1>2, StartFields, SMTT(30)

\* The next candidate, if there is one, starts from nothing.
LEMMA NextMoves ==
  ASSUME TypeInv, NEW w \in Workers, NextCandidate(w)
  PROVE  /\ Moves(w) /\ worker'[w] \in Local
         /\ \/ worker'[w] = Idle
            \/ \E i \in worker[w].todo :
                 i \in Ids /\ worker'[w] = Start(i, worker[w].todo \ {i})
<1>1. worker[w].todo \in SUBSET Ids
  BY DEF TypeInv, TypeOK, Local
<1>2. ASSUME NEW i \in worker[w].todo, Try(w, i, worker[w].todo \ {i})
      PROVE  /\ Moves(w) /\ worker'[w] \in Local
             /\ i \in Ids /\ worker'[w] = Start(i, worker[w].todo \ {i})
  BY <1>1, <1>2, TryMoves
<1>3. QED
  BY <1>2, StopMoves DEF NextCandidate

LEMMA NextType ==
  ASSUME TypeInv, NEW w \in Workers, NextCandidate(w)
  PROVE  worker' \in [Workers -> Local] /\ \A v \in Workers : Started(v)'
<1>1. worker[w].todo \in SUBSET Ids
  BY SMTT(30) DEF TypeInv, TypeOK, Local
<1>2. worker'[w] = Idle \/ (worker'[w].pc # "idle" /\ worker'[w].id \in Ids)
  <2>1. CASE worker'[w] = Idle
    BY <2>1
  <2>2. ASSUME NEW i \in worker[w].todo, worker'[w] = Start(i, worker[w].todo \ {i})
        PROVE  worker'[w].pc # "idle" /\ worker'[w].id \in Ids
    <3>1. i \in Ids /\ worker[w].todo \ {i} \in SUBSET Ids
      BY <1>1
    <3>2. QED
      BY <2>2, <3>1, StartFields, SMTT(30)
  <2>3. QED
    BY <2>1, <2>2, NextMoves
<1>3. QED
  BY <1>2, NextMoves, OneMoves

LEMMA StopType ==
  ASSUME TypeInv, NEW w \in Workers, Stop(w)
  PROVE  worker' \in [Workers -> Local] /\ \A v \in Workers : Started(v)'
BY StopMoves, OneMoves

\* A write stores a record whose token nobody knows.
LEMMA PutLeaseEffect ==
  ASSUME TypeOK, NEW i \in Ids, NEW o \in Workers, NEW u \in Durations, NEW r \in Nat,
         PutLease(i, o, u, r)
  PROVE  /\ lease' \in [Ids -> LeaseRecord]
         /\ \A j \in Ids \ {i} : lease'[j] = lease[j]
         /\ lease'[i].owner = o /\ lease'[i].until = u /\ lease'[i].receives = r
         /\ lease'[i].version # NoVersion
         /\ \A w \in Workers :
              lease'[i].version # worker[w].version /\ lease'[i].version # worker[w].seen.version
<1> DEFINE v == CHOOSE v \in Versions \ InUse : TRUE
<1>1. v \in Versions \ InUse
  BY DEF PutLease
<1>2. lease' = [lease EXCEPT ![i] = [owner |-> o, until |-> u, receives |-> r, version |-> v]]
  BY DEF PutLease
<1>3. \A w \in Workers : v # worker[w].version /\ v # worker[w].seen.version
  BY <1>1 DEF InUse
<1>4. v \in Versions /\ v # NoVersion
  BY <1>1, QueueAssumption
<1> HIDE DEF v
<1>5. [owner |-> o, until |-> u, receives |-> r, version |-> v] \in LeaseRecord
  BY <1>4 DEF LeaseRecord, Tokens
<1>6. QED
  BY <1>2, <1>3, <1>4, <1>5 DEF TypeOK

LEMMA DeleteLeaseEffect ==
  ASSUME TypeOK, NEW i \in Ids, DeleteLease(i)
  PROVE  /\ lease' \in [Ids -> LeaseRecord]
         /\ \A j \in Ids \ {i} : lease'[j] = lease[j]
         /\ lease'[i] = NoLease
BY NoLeaseType DEF TypeOK, DeleteLease

LEMMA DeletePayloadEffect ==
  ASSUME TypeOK, NEW i \in Ids, DeletePayload(i)
  PROVE  /\ payload' \in [Ids -> Enqueues]
         /\ \A j \in Ids \ {i} : payload'[j] = payload[j]
         /\ payload'[i] = 0
<1>1. 0 \in Enqueues
  BY Numbers, SMTT(30) DEF Enqueues
<1>2. QED
  BY <1>1 DEF TypeOK, DeletePayload

LEMMA ClaimMoves ==
  ASSUME TypeInv, NEW w \in Workers, NEW pc \in {"write", "hold"}, NEW n \in Nat, Claim(w, pc, n)
  PROVE  /\ Moves(w) /\ worker'[w] \in Local
         /\ worker'[w].pc = pc /\ worker'[w].newUntil = Lease /\ worker'[w].receives = n
         /\ worker'[w].id = worker[w].id /\ worker'[w].todo = worker[w].todo
         /\ worker'[w].seen = worker[w].seen /\ worker'[w].rpc = worker[w].rpc
         /\ worker'[w].leaseUntil = worker[w].leaseUntil
<1>1. pc \in CallerPC /\ Lease \in Durations
  BY PCs, Numbers, SMTT(30) DEF Receiving, DeadLettering, Durations
<1>2. Moves(w) /\ worker'[w] = [worker[w] EXCEPT !.pc = pc, !.newUntil = Lease, !.receives = n]
  BY DEF TypeInv, TypeOK, Claim, Moves
<1>3. worker[w] \in Local
  BY DEF TypeInv, TypeOK
<1>4. QED
  BY <1>1, <1>2, <1>3 DEF Local

LEMMA TypeReceive ==
  ASSUME TypeInv, NEW w \in Workers, TryReceive(w) \/ Receive(w)
  PROVE  TypeInv'
<1> USE DEF TypeInv
<1> DEFINE Typed == worker' \in [Workers -> Local] /\ \A v \in Workers : Started(v)'
<1>1. CASE TryReceive(w)
  <2>1. PICK i \in Window : Try(w, i, Window \ {i})
    BY <1>1 DEF TryReceive
  <2>2. i \in Ids /\ Window \ {i} \in SUBSET Ids
    BY DEF Window
  <2>3. worker'[w].pc # "idle" /\ worker'[w].id = i
    BY <2>1, <2>2, TryMoves, StartFields, SMTT(30)
  <2>4. Typed
    BY <2>1, <2>2, <2>3, TryMoves, OneMoves
  <2>5. QED
    BY <1>1, <2>4 DEF TryReceive, store, ghosts, TypeOK
<1>2. CASE GetLease(w)
  <2>1. worker[w].id \in Ids
    BY <1>2 DEF GetLease, Started
  <2>2. worker'[w] \in Local /\ worker'[w].pc # "idle" /\ worker'[w].id = worker[w].id
    BY <1>2, <2>1, PCs DEF GetLease, TypeOK, Local, Receiving
  <2>3. Moves(w)
    BY <1>2 DEF GetLease, TypeOK, Moves
  <2>4. QED
    BY <1>2, <2>1, <2>2, <2>3, OneMoves DEF GetLease, store, ghosts, TypeOK
<1>3. CASE Decide(w)
  <2>1. worker[w].seen.receives \in Nat /\ worker[w].pc # "idle"
    BY <1>3 DEF Decide, TypeOK, Local, LeaseRecord
  <2>2. ASSUME NEW pc \in {"write", "hold"}, NEW n \in Nat, Claim(w, pc, n) PROVE Typed
    <3>1. Moves(w) /\ worker'[w] \in Local /\ worker'[w].pc = pc /\ worker'[w].id = worker[w].id
      BY <2>2, ClaimMoves
    <3>2. QED
      BY <2>1, <3>1, OneMoves DEF Started
  <2>3. Typed
    BY <1>3, <2>1, <2>2, NextType, SMTT(30) DEF Decide
  <2>4. QED
    BY <1>3, <2>3 DEF Decide, store, ghosts, TypeOK
<1>4. CASE WriteLease(w)
  <2>1. /\ worker[w].id \in Ids /\ worker[w].newUntil \in Durations
        /\ worker[w].receives \in Nat
    BY <1>4 DEF WriteLease, TypeOK, Started, Local
  <2>2. lease' \in [Ids -> LeaseRecord]
    BY <1>4, <2>1, PutLeaseEffect DEF WriteLease, TypeOK
  <2>3. CASE NextCandidate(w)
    BY <1>4, <2>2, <2>3, NextType DEF WriteLease, ghosts, TypeOK
  <2>4. CASE ~NextCandidate(w)
    <3>1. worker'[w] \in Local /\ worker'[w].pc # "idle" /\ worker'[w].id = worker[w].id
      BY <1>4, <2>4, PCs, SMTT(30) DEF WriteLease, TypeOK, Local, Receiving, DeadLettering
    <3>2. Moves(w)
      BY <1>4, <2>4 DEF WriteLease, TypeOK, Moves
    <3>3. QED
      BY <1>4, <2>1, <2>2, <3>1, <3>2, OneMoves DEF WriteLease, ghosts, TypeOK
  <2>5. QED
    BY <2>3, <2>4
<1>5. CASE ReadBack(w)
  <2>1. worker[w].id \in Ids
    BY <1>5 DEF ReadBack, Started
  <2>2. lease[worker[w].id].version \in Tokens /\ 0 \in Durations
    BY <2>1, Numbers, SMTT(30) DEF TypeOK, LeaseRecord, Durations
  <2>3. CASE ~Absent(lease[worker[w].id])
    <3>1. worker'[w] \in Local /\ worker'[w].pc # "idle" /\ worker'[w].id = worker[w].id
      BY <1>5, <2>2, <2>3, PCs, NoLeaseType, SMTT(30) DEF ReadBack, TypeOK, Local, Receiving, Moving
    <3>2. Moves(w)
      BY <1>5, <2>3 DEF ReadBack, TypeOK, Moves
    <3>3. QED
      BY <1>5, <2>1, <3>1, <3>2, OneMoves DEF ReadBack, store, ghosts, TypeOK
  <2>4. CASE Absent(lease[worker[w].id])
    <3>1. Typed
      BY <1>5, <2>4, NextType, StopType DEF ReadBack
    <3>2. QED
      BY <1>5, <3>1 DEF ReadBack, store, ghosts, TypeOK
  <2>5. QED
    BY <2>3, <2>4
<1>6. CASE Verify(w)
  <2>1. worker[w].id \in Ids
    BY <1>6 DEF Verify, Started
  <2>2. worker'[w] \in Local /\ worker'[w].pc # "idle" /\ worker'[w].id = worker[w].id
    BY <1>6, <2>1, PCs, SMTT(30) DEF Verify, TypeOK, Local, Receiving, RenewerPC
  <2>3. Moves(w)
    BY <1>6 DEF Verify, TypeOK, Moves
  <2>4. QED
    BY <1>6, <2>1, <2>2, <2>3, OneMoves, SMTT(30) DEF Verify, store, TypeOK
<1>7. CASE Drop(w)
  <2>1. worker[w].id \in Ids
    BY <1>7 DEF Drop, Started
  <2>2. lease' \in [Ids -> LeaseRecord]
    BY <1>7, <2>1, DeleteLeaseEffect DEF Drop, TypeOK
  <2>3. QED
    BY <1>7, <2>2, NextType DEF Drop, ghosts, TypeOK
<1>8. QED
  BY <1>1, <1>2, <1>3, <1>4, <1>5, <1>6, <1>7 DEF Receive

\* The renewer runs only beside a caller that is not idle.
LEMMA RenewerBusy ==
  ASSUME TypeInv, NEW w \in Workers, worker[w].rpc # "none"
  PROVE  worker[w].pc # "idle" /\ worker[w].id \in Ids
BY IdleFields DEF TypeInv, Started

LEMMA TypeDeadLetter ==
  ASSUME TypeInv, NEW w \in Workers, DeadLetter(w)
  PROVE  TypeInv'
<1> USE DEF TypeInv
<1>1. worker[w].id \in Ids /\ worker[w].pc # "idle"
  BY DEF DeadLetter, DeadAttributes, DeadRead, DeadWrite, DeadDeletePayload, DeadDeleteLease, Started
<1>2. CASE DeadAttributes(w)
  <2>1. worker'[w] \in Local /\ worker'[w].pc # "idle" /\ worker'[w].id = worker[w].id
    BY <1>2, PCs, SMTT(30) DEF DeadAttributes, TypeOK, Local, Moving
  <2>2. Moves(w)
    BY <1>2 DEF DeadAttributes, TypeOK, Moves
  <2>3. QED
    BY <1>1, <1>2, <2>1, <2>2, OneMoves DEF DeadAttributes, store, ghosts, TypeOK
<1>3. CASE DeadRead(w)
  <2>1. worker'[w] \in Local /\ worker'[w].pc # "idle" /\ worker'[w].id = worker[w].id
    BY <1>1, <1>3, PCs DEF DeadRead, TypeOK, Local, Moving
  <2>2. Moves(w)
    BY <1>3 DEF DeadRead, TypeOK, Moves
  <2>3. QED
    BY <1>1, <1>3, <2>1, <2>2, OneMoves DEF DeadRead, store, ghosts, TypeOK
<1>4. CASE DeadWrite(w)
  <2>1. worker'[w] \in Local /\ worker'[w].pc # "idle" /\ worker'[w].id = worker[w].id
    BY <1>4, PCs, SMTT(30) DEF DeadWrite, TypeOK, Local, Moving
  <2>2. Moves(w)
    BY <1>4 DEF DeadWrite, TypeOK, Moves
  <2>3. dead' \in [Ids -> DeadRecord]
    BY <1>4 DEF DeadWrite, TypeOK, DeadRecord, Local
  <2>4. QED
    BY <1>1, <1>4, <2>1, <2>2, <2>3, OneMoves DEF DeadWrite, ghosts, TypeOK
<1>5. CASE DeadDeletePayload(w)
  <2>1. worker'[w] \in Local /\ worker'[w].pc # "idle" /\ worker'[w].id = worker[w].id
    BY <1>5, PCs, SMTT(30) DEF DeadDeletePayload, TypeOK, Local, Moving
  <2>2. Moves(w)
    BY <1>5 DEF DeadDeletePayload, TypeOK, Moves
  <2>3. payload' \in [Ids -> Enqueues]
    BY <1>1, <1>5, DeletePayloadEffect DEF DeadDeletePayload
  <2>4. QED
    BY <1>1, <1>5, <2>1, <2>2, <2>3, OneMoves DEF DeadDeletePayload, ghosts, TypeOK
<1>6. CASE DeadDeleteLease(w)
  <2>1. lease' \in [Ids -> LeaseRecord]
    BY <1>1, <1>6, DeleteLeaseEffect DEF DeadDeleteLease, TypeOK
  <2>2. QED
    BY <1>6, <2>1, NextType DEF DeadDeleteLease, ghosts, TypeOK
<1>7. QED
  BY <1>2, <1>3, <1>4, <1>5, <1>6 DEF DeadLetter

LEMMA FinishType ==
  ASSUME TypeInv, NEW w \in Workers, NEW o \in {"lost", "clean"}
  PROVE  Finish(w, o) \in {"lost", "clean"}
BY DEF TypeInv, TypeOK, Local, Finish

LEMMA TypeRenewer ==
  ASSUME TypeInv, NEW w \in Workers, Renewer(w) \/ RenewCallFails(w)
  PROVE  TypeInv'
<1> USE DEF TypeInv
<1>1. worker[w].id \in Ids /\ worker[w].pc # "idle"
  BY RenewerBusy
  DEF Renewer, RenewTick, RenewWrite, RenewReadBack, RenewExit, RenewCallFails
<1>2. Lease \in Durations /\ 0 \in Durations
  BY Numbers, SMTT(30) DEF Durations
<1>3. Finish(w, "lost") \in {"open", "lost", "clean"}
  BY FinishType
<1>4. CASE RenewTick(w)
  <2>1. worker'[w] \in Local /\ worker'[w].pc # "idle" /\ worker'[w].id = worker[w].id
    BY <1>1, <1>2, <1>3, <1>4, SMTT(30) DEF RenewTick, TypeOK, Local, RenewerPC
  <2>2. Moves(w)
    BY <1>4 DEF RenewTick, TypeOK, Moves
  <2>3. QED
    BY <1>1, <1>4, <2>1, <2>2, OneMoves DEF RenewTick, store, ghosts, TypeOK
<1>5. CASE RenewWrite(w)
  <2>1. worker[w].newUntil \in Durations /\ worker[w].receives \in Nat
    BY DEF TypeOK, Local
  <2>2. lease' \in [Ids -> LeaseRecord]
    BY <1>1, <1>5, <2>1, PutLeaseEffect DEF RenewWrite, TypeOK
  <2>3. worker'[w] \in Local /\ worker'[w].pc # "idle" /\ worker'[w].id = worker[w].id
    BY <1>1, <1>2, <1>3, <1>5, SMTT(30) DEF RenewWrite, RenewLost, TypeOK, Local, RenewerPC
  <2>4. Moves(w)
    BY <1>5 DEF RenewWrite, RenewLost, TypeOK, Moves
  <2>5. QED
    BY <1>1, <1>5, <2>2, <2>3, <2>4, OneMoves DEF RenewWrite, ghosts, TypeOK
<1>6. CASE RenewReadBack(w)
  <2>1. lease[worker[w].id].version \in Tokens
    BY <1>1 DEF TypeOK, LeaseRecord
  <2>2. worker'[w] \in Local /\ worker'[w].pc # "idle" /\ worker'[w].id = worker[w].id
    BY <1>1, <1>2, <1>3, <1>6, <2>1, SMTT(30) DEF RenewReadBack, RenewLost, TypeOK, Local, RenewerPC
  <2>3. Moves(w)
    BY <1>6 DEF RenewReadBack, RenewLost, TypeOK, Moves
  <2>4. QED
    BY <1>1, <1>6, <2>2, <2>3, OneMoves DEF RenewReadBack, store, ghosts, TypeOK
<1>7. CASE RenewExit(w)
  <2>1. worker'[w] \in Local /\ worker'[w].pc # "idle" /\ worker'[w].id = worker[w].id
    BY <1>1, <1>7 DEF RenewExit, TypeOK, Local, RenewerPC
  <2>2. Moves(w)
    BY <1>7 DEF RenewExit, TypeOK, Moves
  <2>3. QED
    BY <1>1, <1>7, <2>1, <2>2, OneMoves DEF RenewExit, store, ghosts, TypeOK
<1>8. CASE RenewCallFails(w)
  <2>1. worker'[w] \in Local /\ worker'[w].pc # "idle" /\ worker'[w].id = worker[w].id
    BY <1>1, <1>2, <1>8 DEF RenewCallFails, TypeOK, Local, RenewerPC
  <2>2. Moves(w)
    BY <1>8 DEF RenewCallFails, TypeOK, Moves
  <2>3. failures' \in 0 .. MaxFailures
    BY <1>8, Numbers, SMTT(30) DEF RenewCallFails, Fail, TypeOK
  <2>4. QED
    BY <1>1, <1>8, <2>1, <2>2, <2>3, OneMoves DEF RenewCallFails, store, ghosts, TypeOK
<1>9. QED
  BY <1>4, <1>5, <1>6, <1>7, <1>8 DEF Renewer

LEMMA TypeSettle ==
  ASSUME TypeInv, NEW w \in Workers, Ack(w) \/ Nack(w) \/ Settle(w)
  PROVE  TypeInv'
<1> USE DEF TypeInv
<1>1. worker[w].id \in Ids /\ worker[w].pc # "idle"
  BY DEF Started, Ack, Nack, Settle, SettleJoin, SettleGet, AckDeleteLease, AckDeletePayload,
         NackWrite
<1>2. CASE Ack(w)
  <2>1. worker'[w] \in Local /\ worker'[w].pc # "idle" /\ worker'[w].id = worker[w].id
    BY <1>2, PCs DEF Ack, TypeOK, Local, Settling
  <2>2. Moves(w)
    BY <1>2 DEF Ack, TypeOK, Moves
  <2>3. acked' \subseteq Ids \X Enqueues
    BY <1>1, <1>2, SMTT(30) DEF Ack, TypeOK, Local
  <2>4. QED
    BY <1>1, <1>2, <2>1, <2>2, <2>3, OneMoves DEF Ack, store, TypeOK
<1>3. CASE Nack(w)
  <2>1. worker'[w] \in Local /\ worker'[w].pc # "idle" /\ worker'[w].id = worker[w].id
    BY <1>3, PCs, SMTT(30) DEF Nack, TypeOK, Local, Settling
  <2>2. Moves(w)
    BY <1>3 DEF Nack, TypeOK, Moves
  <2>3. QED
    BY <1>1, <1>3, <2>1, <2>2, OneMoves DEF Nack, store, ghosts, TypeOK
<1>4. CASE SettleJoin(w)
  <2>1. Finish(w, "clean") \in {"open", "lost", "clean"}
    BY FinishType
  <2>2. worker'[w] \in Local /\ worker'[w].pc # "idle" /\ worker'[w].id = worker[w].id
    BY <1>4, <2>1, PCs DEF SettleJoin, TypeOK, Local, Settling
  <2>3. Moves(w)
    BY <1>4 DEF SettleJoin, TypeOK, Moves
  <2>4. QED
    BY <1>1, <1>4, <2>2, <2>3, OneMoves DEF SettleJoin, store, ghosts, TypeOK
<1>5. CASE SettleGet(w)
  <2>1. CASE Stop(w)
    BY <1>5, <2>1, StopType DEF SettleGet, store, ghosts, TypeOK
  <2>2. CASE ~Stop(w)
    <3>1. worker'[w] \in Local /\ worker'[w].pc # "idle" /\ worker'[w].id = worker[w].id
      BY <1>1, <1>5, <2>2, PCs, SMTT(30) DEF SettleGet, TypeOK, Local, Settling
    <3>2. Moves(w)
      BY <1>5, <2>2 DEF SettleGet, TypeOK, Moves
    <3>3. QED
      BY <1>1, <1>5, <3>1, <3>2, OneMoves DEF SettleGet, store, ghosts, TypeOK
  <2>3. QED
    BY <2>1, <2>2
<1>6. CASE AckDeleteLease(w)
  <2>1. lease' \in [Ids -> LeaseRecord]
    BY <1>1, <1>6, DeleteLeaseEffect DEF AckDeleteLease, TypeOK
  <2>2. CASE Stop(w)
    BY <1>6, <2>1, <2>2, StopType DEF AckDeleteLease, ghosts, TypeOK
  <2>3. CASE ~Stop(w)
    <3>1. worker'[w] \in Local /\ worker'[w].pc # "idle" /\ worker'[w].id = worker[w].id
      BY <1>6, <2>3, PCs, SMTT(30) DEF AckDeleteLease, TypeOK, Local, Settling
    <3>2. Moves(w)
      BY <1>6, <2>3 DEF AckDeleteLease, TypeOK, Moves
    <3>3. QED
      BY <1>1, <1>6, <2>1, <3>1, <3>2, OneMoves DEF AckDeleteLease, ghosts, TypeOK
  <2>4. QED
    BY <2>2, <2>3, SMTT(30)
<1>7. CASE AckDeletePayload(w)
  BY <1>1, <1>7, StopType, DeletePayloadEffect DEF AckDeletePayload, ghosts, TypeOK
<1>8. CASE NackWrite(w)
  <2>1. worker[w].seen.receives \in Nat /\ 0 \in Durations
    BY Numbers, SMTT(30) DEF TypeOK, Local, LeaseRecord, Durations
  <2>2. lease' \in [Ids -> LeaseRecord]
    BY <1>1, <1>8, <2>1, PutLeaseEffect DEF NackWrite, TypeOK
  <2>3. QED
    BY <1>8, <2>2, StopType DEF NackWrite, ghosts, TypeOK
<1>9. QED
  BY <1>2, <1>3, <1>4, <1>5, <1>6, <1>7, <1>8 DEF Settle

\* Every set of numbers that is not empty has a least member.
LEMMA Least ==
  ASSUME NEW S \in SUBSET Nat, S # {}
  PROVE  \E x \in S : \A y \in S : x <= y
<1>1. PICK x \in S : \A y \in S : ~ (<<y, x>> \in OpToRel(<, Nat))
  BY NatLessThanWellFounded, WFMin
<1>2. \A y \in S : ~ (y < x)
  BY <1>1 DEF OpToRel
<1>3. QED
  BY <1>2, SMTT(30)

LEMMA OldestIsThere ==
  ASSUME TypeOK, trim.todo # {}
  PROVE  Oldest \in trim.todo /\ Oldest \in Ids
<1>1. trim.todo \in SUBSET Ids /\ Ids \subseteq Nat
  BY QueueAssumption DEF TypeOK, TrimState
<1>2. \E i \in trim.todo : \A j \in trim.todo : i <= j
  BY <1>1, Least
<1>3. QED
  BY <1>1, <1>2 DEF Oldest

LEMMA TypeTrim ==
  ASSUME TypeInv, Trim \/ TrimFails \/ Age
  PROVE  TypeInv'
<1> USE DEF TypeInv
<1>1. NoTrim \in TrimState /\ NoTrim.pc = "idle"
  BY Numbers, SMTT(30) DEF NoTrim, TrimState
<1>2. worker' = worker /\ \A v \in Workers : Started(v)'
  BY DEF Trim, TrimStart, TrimDeletePayload, TrimDeleteLease, TrimListLeases, TrimEnd, TrimFails,
         Age, Started
<1>3. CASE TrimStart
  BY <1>2, <1>3, Numbers, SMTT(30) DEF TrimStart, Old, TrimState, store, ghosts, TypeOK
<1>4. CASE TrimDeletePayload
  <2>1. payload' \in [Ids -> Enqueues]
    BY <1>4, OldestIsThere, DeletePayloadEffect DEF TrimDeletePayload
  <2>2. trim' \in TrimState /\ trim'.budget = trim.budget /\ trim.pc # "idle"
    BY <1>4 DEF TrimDeletePayload, TypeOK, TrimState
  <2>3. QED
    BY <1>2, <1>4, <2>1, <2>2 DEF TrimDeletePayload, ghosts, TypeOK
<1>5. CASE TrimDeleteLease
  <2>1. lease' \in [Ids -> LeaseRecord]
    BY <1>5, NoLeaseType DEF TrimDeleteLease, DeleteLease, TypeOK
  <2>2. trim' \in TrimState /\ (trim'.pc # "idle" => trim'.budget # 0)
    <3>1. CASE trim.budget = 1
      BY <1>1, <1>5, <3>1 DEF TrimDeleteLease
    <3>2. CASE trim.budget # 1
      <4>1. trim \in TrimState /\ trim.budget \in 0 .. TrimBatch /\ trim.budget # 0
        BY <1>5 DEF TrimDeleteLease, TypeOK, TrimState
      <4>2. trim.budget - 1 \in 0 .. TrimBatch /\ trim.budget - 1 # 0
        BY <3>2, <4>1, Numbers, SMTT(30)
      <4>3. QED
        BY <1>5, <3>2, <4>1, <4>2 DEF TrimDeleteLease, TrimState
    <3>3. QED
      BY <3>1, <3>2
  <2>3. QED
    BY <1>2, <1>5, <2>1, <2>2 DEF TrimDeleteLease, ghosts, TypeOK
<1>6. CASE TrimListLeases
  <2>1. Old({i \in Ids : ~Absent(lease[i])}, trim.horizon) \subseteq Ids
    BY DEF Old
  <2>2. trim' \in TrimState /\ trim'.budget = trim.budget /\ trim.pc # "idle"
    BY <1>6, <2>1 DEF TrimListLeases, TypeOK, TrimState
  <2>3. QED
    BY <1>2, <1>6, <2>2 DEF TrimListLeases, store, ghosts, TypeOK
<1>7. CASE TrimEnd
  BY <1>1, <1>2, <1>7 DEF TrimEnd, store, ghosts, TypeOK
<1>8. CASE TrimFails
  <2>1. failures' \in 0 .. MaxFailures
    BY <1>8, Numbers, SMTT(30) DEF TrimFails, Fail, TypeOK
  <2>2. QED
    BY <1>1, <1>2, <1>8, <2>1 DEF TrimFails, store, ghosts, TypeOK
<1>9. CASE Age
  BY <1>2, <1>9, SMTT(30) DEF Age, store, ghosts, TypeOK
<1>10. QED
  BY <1>3, <1>4, <1>5, <1>6, <1>7, <1>8, <1>9 DEF Trim

LEMMA TypeEnqueue ==
  ASSUME TypeInv, NEW i \in Ids, Enqueue(i) \/ EnqueueWithID(i)
  PROVE  TypeInv'
<1> USE DEF TypeInv
<1>1. WritePayload(i) /\ enqueued[i] < MaxEnqueues
  BY Numbers, SMTT(30) DEF Enqueue, EnqueueWithID
<1>2. enqueued[i] + 1 \in Enqueues
  BY <1>1, Numbers, SMTT(30) DEF TypeOK, Enqueues
<1>3. /\ payload' \in [Ids -> Enqueues] /\ enqueued' \in [Ids -> Enqueues]
      /\ delivered' \in [Ids -> Nat]
  BY <1>1, <1>2 DEF WritePayload, TypeOK
<1>4. QED
  BY <1>1, <1>3 DEF WritePayload, TypeOK, Started

LEMMA LessType ==
  ASSUME NEW n \in Durations
  PROVE  Less(n) \in Durations /\ n \in Nat
BY Numbers, SMTT(30) DEF Less, Durations

\* What a tick does to a lease record and to a worker.
LEMMA TickLease ==
  ASSUME TypeInv, Tick, NEW i \in Ids
  PROVE  /\ lease'[i] \in LeaseRecord
         /\ lease'[i].owner = lease[i].owner /\ lease'[i].version = lease[i].version
         /\ lease'[i].receives = lease[i].receives /\ lease'[i].until = Less(lease[i].until)
<1>1. lease[i] \in LeaseRecord /\ lease[i].until \in Durations
  BY DEF TypeInv, TypeOK, LeaseRecord
<1>2. lease'[i] = [lease[i] EXCEPT !.until = Less(lease[i].until)]
  BY DEF Tick
<1>3. QED
  BY <1>1, <1>2, LessType DEF LeaseRecord

LEMMA TickWorker ==
  ASSUME TypeInv, Tick, NEW w \in Workers
  PROVE  /\ worker'[w] \in Local
         /\ worker'[w].newUntil = Less(worker[w].newUntil)
         /\ worker'[w].leaseUntil = Less(worker[w].leaseUntil)
         /\ worker'[w].seen = [worker[w].seen EXCEPT !.until = Less(worker[w].seen.until)]
         /\ worker'[w].pc = worker[w].pc /\ worker'[w].rpc = worker[w].rpc
         /\ worker'[w].id = worker[w].id /\ worker'[w].todo = worker[w].todo
         /\ worker'[w].receives = worker[w].receives /\ worker'[w].version = worker[w].version
         /\ worker'[w].err = worker[w].err /\ worker'[w].got = worker[w].got
<1> DEFINE me == worker[w]
           seen == [me.seen EXCEPT !.until = Less(me.seen.until)]
<1>1. me \in Local /\ me.seen \in LeaseRecord
  BY DEF TypeInv, TypeOK, Local
<1>2. me.seen.until \in Durations /\ me.newUntil \in Durations /\ me.leaseUntil \in Durations
  BY <1>1 DEF Local, LeaseRecord
<1>3. seen \in LeaseRecord
  BY <1>1, <1>2, LessType DEF LeaseRecord
<1>4. worker'[w] = [me EXCEPT !.seen = seen, !.newUntil = Less(me.newUntil),
                              !.leaseUntil = Less(me.leaseUntil)]
  BY <1>1 DEF Tick, Local
<1> HIDE DEF me, seen
<1>5. QED
  BY <1>1, <1>2, <1>3, <1>4, LessType DEF Local, me, seen

LEMMA TypeTick == ASSUME TypeInv, Tick PROVE TypeInv'
<1>1. lease' \in [Ids -> LeaseRecord]
  BY TickLease DEF Tick
<1>2. worker' \in [Workers -> Local]
  BY TickWorker DEF Tick
<1>3. \A w \in Workers : Started(w)'
  BY TickWorker DEF TypeInv, Started
<1>4. QED
  BY <1>1, <1>2, <1>3 DEF Tick, ghosts, TypeInv, TypeOK

LEMMA TypeStep == ASSUME TypeInv, [Next]_vars PROVE TypeInv'
<1>1. ASSUME NEW w \in Workers, Abandon(w) PROVE TypeInv'
  <2>1. failures' \in 0 .. MaxFailures
    BY <1>1, Numbers, SMTT(30) DEF Abandon, Fail, TypeInv, TypeOK
  <2>2. QED
    BY <1>1, <2>1, StopType DEF Abandon, store, ghosts, TypeInv, TypeOK
<1>2. CASE UNCHANGED vars
  BY <1>2 DEF vars, store, ghosts, TypeInv, TypeOK, Started
<1>3. QED
  BY <1>1, <1>2, TypeEnqueue, TypeReceive, TypeDeadLetter, TypeRenewer, TypeSettle, TypeTrim,
     TypeTick
  DEF Next

LEMMA InitType == Init => TypeInv
<1> SUFFICES ASSUME Init PROVE TypeInv
  OBVIOUS
<1>1. NoTrim \in TrimState /\ NoTrim.pc = "idle" /\ NoDead \in DeadRecord /\ 0 \in Enqueues
  BY Numbers, SMTT(30) DEF NoTrim, TrimState, NoDead, DeadRecord, Enqueues
<1>2. QED
  BY <1>1, Numbers, IdleType, IdleFields, NoLeaseType, SMTT(30) DEF Init, TypeInv, TypeOK, Started

\* Every step of every worker and of Trim keeps every variable in its type.
THEOREM TypeCorrect == Spec => []TypeOK
<1>1. Spec => []TypeInv
  BY InitType, TypeStep, PTL DEF Spec
<1>2. TypeInv => TypeOK
  BY DEF TypeInv
<1>3. QED
  BY <1>1, <1>2, PTL

-----------------------------------------------------------------------------
(* What the step of a worker can do at all.                                *)

WorkerStep(w) ==
  \/ Receive(w) \/ DeadLetter(w) \/ Renewer(w) \/ Ack(w) \/ Nack(w) \/ Settle(w)
  \/ Abandon(w) \/ RenewCallFails(w)

\* The token of a new record is known to nobody.
Fresh(i) ==
  /\ lease'[i].version # NoVersion
  /\ \A v \in Workers :
       lease'[i].version # worker[v].version /\ lease'[i].version # worker[v].seen.version

\* Its own variables, and the payload and the lease of its message.
Shape(w) ==
  /\ Moves(w)
  /\ \/ worker'[w] = Idle
     \/ worker'[w].id = worker[w].id /\ worker'[w].todo \subseteq worker[w].todo
     \/ \E i \in worker[w].todo : i \in Ids /\ worker'[w] = Start(i, worker[w].todo \ {i})
  /\ enqueued' = enqueued /\ horizon' = horizon /\ trim' = trim
  /\ \A i \in Ids \ {worker[w].id} : lease'[i] = lease[i] /\ payload'[i] = payload[i]
  /\ payload'[worker[w].id] \in {payload[worker[w].id], 0}
  /\ \/ lease' = lease
     \/ lease'[worker[w].id] = NoLease
     \/ Fresh(worker[w].id)

LEMMA ShapeReceive ==
  ASSUME TypeInv, NEW w \in Workers, Receive(w)
  PROVE  Shape(w)
<1> USE DEF TypeInv, store, ghosts
<1>1. worker[w].id \in Ids
  BY DEF Receive, GetLease, Decide, WriteLease, ReadBack, Verify, Drop, Started
<1>2. worker[w] \in Local
  BY DEF TypeOK
<1>3. CASE GetLease(w)
  <2>1. Moves(w)
    BY <1>3 DEF GetLease, TypeOK, Moves
  <2>2. worker'[w].id = worker[w].id /\ worker'[w].todo = worker[w].todo
    BY <1>2, <1>3 DEF GetLease, TypeOK, Local
  <2>3. QED
    BY <1>3, <2>1, <2>2 DEF GetLease, Shape
<1>4. CASE Decide(w)
  <2>1. worker[w].seen.receives \in Nat
    BY <1>2 DEF Local, LeaseRecord
  <2>2. CASE NextCandidate(w)
    BY <1>4, <2>2, NextMoves DEF Decide, Shape
  <2>3. CASE ~NextCandidate(w)
    <3>1. PICK p \in {"write", "hold"}, n \in Nat : Claim(w, p, n)
      BY <1>4, <2>1, <2>3, SMTT(30) DEF Decide
    <3>2. Moves(w) /\ worker'[w].id = worker[w].id /\ worker'[w].todo = worker[w].todo
      BY <3>1, ClaimMoves
    <3>3. QED
      BY <1>4, <3>2 DEF Decide, Shape
  <2>4. QED
    BY <2>2, <2>3
<1>5. CASE WriteLease(w)
  <2>1. worker[w].newUntil \in Durations /\ worker[w].receives \in Nat
    BY <1>2 DEF Local
  <2>2. CASE ~Passes(worker[w].id, worker[w].seen.version)
    BY <1>5, <2>2, NextMoves, SMTT(30) DEF WriteLease, Shape
  <2>3. CASE Passes(worker[w].id, worker[w].seen.version)
    <3>1. PutLease(worker[w].id, w, worker[w].newUntil, worker[w].receives)
      BY <1>5, <2>3 DEF WriteLease
    <3>2. Fresh(worker[w].id) /\ \A i \in Ids \ {worker[w].id} : lease'[i] = lease[i]
      BY <1>1, <2>1, <3>1, PutLeaseEffect, SMTT(30) DEF Fresh
    <3>3. Moves(w)
      BY <1>5, <2>3 DEF WriteLease, TypeOK, Moves
    <3>4. worker'[w].id = worker[w].id /\ worker'[w].todo = worker[w].todo
      BY <1>2, <1>5, <2>3, SMTT(30) DEF WriteLease, TypeOK, Local
    <3>5. QED
      BY <1>5, <3>2, <3>3, <3>4 DEF WriteLease, Shape
  <2>4. QED
    BY <2>2, <2>3
<1>6. CASE ReadBack(w)
  <2>1. CASE Absent(lease[worker[w].id])
    BY <1>6, <2>1, NextMoves, StopMoves DEF ReadBack, Shape
  <2>2. CASE ~Absent(lease[worker[w].id])
    <3>1. Moves(w)
      BY <1>6, <2>2 DEF ReadBack, TypeOK, Moves
    <3>2. worker'[w].id = worker[w].id /\ worker'[w].todo = worker[w].todo
      BY <1>2, <1>6, <2>2, SMTT(30) DEF ReadBack, TypeOK, Local
    <3>3. QED
      BY <1>6, <3>1, <3>2 DEF ReadBack, Shape
  <2>3. QED
    BY <2>1, <2>2
<1>7. CASE Verify(w)
  <2>1. Moves(w)
    BY <1>7 DEF Verify, TypeOK, Moves
  <2>2. worker'[w].id = worker[w].id /\ worker'[w].todo \subseteq worker[w].todo
    BY <1>2, <1>7, SMTT(30) DEF Verify, TypeOK, Local
  <2>3. QED
    BY <1>7, <2>1, <2>2 DEF Verify, Shape
<1>8. CASE Drop(w)
  <2>1. lease' = lease \/ lease'[worker[w].id] = NoLease
    BY <1>1, <1>8, DeleteLeaseEffect DEF Drop
  <2>2. \A i \in Ids \ {worker[w].id} : lease'[i] = lease[i]
    BY <1>1, <1>8, DeleteLeaseEffect DEF Drop
  <2>3. QED
    BY <1>8, <2>1, <2>2, NextMoves DEF Drop, Shape
<1>9. QED
  BY <1>3, <1>4, <1>5, <1>6, <1>7, <1>8 DEF Receive

LEMMA ShapeDeadLetter ==
  ASSUME TypeInv, NEW w \in Workers, DeadLetter(w)
  PROVE  Shape(w)
<1> USE DEF TypeInv, store, ghosts
<1>1. worker[w].id \in Ids /\ worker[w] \in Local
  BY DEF DeadLetter, DeadAttributes, DeadRead, DeadWrite, DeadDeletePayload, DeadDeleteLease,
         Started, TypeOK
<1>2. ASSUME ~DeadDeleteLease(w)
      PROVE  Moves(w) /\ worker'[w].id = worker[w].id /\ worker'[w].todo = worker[w].todo
  <2>1. Moves(w)
    BY <1>2 DEF DeadLetter, DeadAttributes, DeadRead, DeadWrite, DeadDeletePayload, TypeOK, Moves
  <2>2. worker'[w].id = worker[w].id /\ worker'[w].todo = worker[w].todo
    BY <1>1, <1>2, SMTT(30)
    DEF DeadLetter, DeadAttributes, DeadRead, DeadWrite, DeadDeletePayload, TypeOK, Local
  <2>3. QED
    BY <2>1, <2>2, SMTT(30)
<1>3. CASE DeadAttributes(w) \/ DeadRead(w) \/ DeadWrite(w)
  <2>1. ~DeadDeleteLease(w)
    BY <1>3 DEF DeadAttributes, DeadRead, DeadWrite, DeadDeleteLease
  <2>2. QED
    BY <1>2, <1>3, <2>1 DEF DeadAttributes, DeadRead, DeadWrite, Shape
<1>4. CASE DeadDeletePayload(w)
  <2>1. ~DeadDeleteLease(w)
    BY <1>4 DEF DeadDeletePayload, DeadDeleteLease
  <2>2. QED
    BY <1>1, <1>2, <1>4, <2>1, DeletePayloadEffect DEF DeadDeletePayload, Shape
<1>5. CASE DeadDeleteLease(w)
  <2>1. /\ lease' = lease \/ lease'[worker[w].id] = NoLease
        /\ \A i \in Ids \ {worker[w].id} : lease'[i] = lease[i]
    BY <1>1, <1>5, DeleteLeaseEffect, SMTT(30) DEF DeadDeleteLease
  <2>2. QED
    BY <1>5, <2>1, NextMoves DEF DeadDeleteLease, Shape
<1>6. QED
  BY <1>3, <1>4, <1>5 DEF DeadLetter

LEMMA ShapeRenewer ==
  ASSUME TypeInv, NEW w \in Workers, Renewer(w) \/ RenewCallFails(w)
  PROVE  Shape(w)
<1> USE DEF TypeInv, store, ghosts
<1>1. worker[w].id \in Ids /\ worker[w] \in Local
  BY RenewerBusy
  DEF Renewer, RenewTick, RenewWrite, RenewReadBack, RenewExit, RenewCallFails, TypeOK
<1>2. Moves(w)
  BY DEF Renewer, RenewTick, RenewWrite, RenewReadBack, RenewExit, RenewLost, RenewCallFails,
         TypeOK, Moves
<1>3. worker'[w].id = worker[w].id /\ worker'[w].todo = worker[w].todo
  BY <1>1, SMTT(30)
  DEF Renewer, RenewTick, RenewWrite, RenewReadBack, RenewExit, RenewLost, RenewCallFails,
      TypeOK, Local
<1>4. CASE RenewTick(w) \/ RenewReadBack(w) \/ RenewExit(w) \/ RenewCallFails(w)
  BY <1>2, <1>3, <1>4 DEF RenewTick, RenewReadBack, RenewExit, RenewCallFails, Shape
<1>5. CASE RenewWrite(w)
  <2>1. worker[w].newUntil \in Durations /\ worker[w].receives \in Nat
    BY <1>1 DEF Local
  <2>2. /\ lease' = lease \/ Fresh(worker[w].id)
        /\ \A i \in Ids \ {worker[w].id} : lease'[i] = lease[i]
    BY <1>1, <1>5, <2>1, PutLeaseEffect, SMTT(30) DEF RenewWrite, Fresh
  <2>3. QED
    BY <1>2, <1>3, <1>5, <2>2 DEF RenewWrite, Shape
<1>6. QED
  BY <1>4, <1>5 DEF Renewer

LEMMA ShapeSettle ==
  ASSUME TypeInv, NEW w \in Workers, Ack(w) \/ Nack(w) \/ Settle(w)
  PROVE  Shape(w)
<1> USE DEF TypeInv, store, ghosts
<1>1. worker[w].id \in Ids /\ worker[w] \in Local
  BY DEF Started, Ack, Nack, Settle, SettleJoin, SettleGet, AckDeleteLease, AckDeletePayload,
         NackWrite, TypeOK
<1>2. CASE Ack(w) \/ Nack(w) \/ SettleJoin(w)
  <2>1. Moves(w)
    BY <1>2 DEF Ack, Nack, SettleJoin, TypeOK, Moves
  <2>2. worker'[w].id = worker[w].id /\ worker'[w].todo = worker[w].todo
    BY <1>1, <1>2, SMTT(30) DEF Ack, Nack, SettleJoin, TypeOK, Local
  <2>3. QED
    BY <1>2, <2>1, <2>2 DEF Ack, Nack, SettleJoin, Shape
<1>3. CASE SettleGet(w)
  <2>1. CASE Stop(w)
    BY <1>3, <2>1, StopMoves DEF SettleGet, Shape
  <2>2. CASE ~Stop(w)
    <3>1. Moves(w)
      BY <1>3, <2>2 DEF SettleGet, TypeOK, Moves
    <3>2. worker'[w].id = worker[w].id /\ worker'[w].todo = worker[w].todo
      BY <1>1, <1>3, <2>2, SMTT(30) DEF SettleGet, TypeOK, Local
    <3>3. QED
      BY <1>3, <3>1, <3>2 DEF SettleGet, Shape
  <2>3. QED
    BY <2>1, <2>2
<1>4. CASE AckDeleteLease(w)
  <2>1. /\ lease' = lease \/ lease'[worker[w].id] = NoLease
        /\ \A i \in Ids \ {worker[w].id} : lease'[i] = lease[i]
    BY <1>1, <1>4, DeleteLeaseEffect DEF AckDeleteLease
  <2>2. CASE Stop(w)
    BY <1>4, <2>1, <2>2, StopMoves DEF AckDeleteLease, Shape
  <2>3. CASE ~Stop(w)
    <3>1. Moves(w)
      BY <1>4, <2>3 DEF AckDeleteLease, TypeOK, Moves
    <3>2. worker'[w].id = worker[w].id /\ worker'[w].todo = worker[w].todo
      BY <1>1, <1>4, <2>3, SMTT(30) DEF AckDeleteLease, TypeOK, Local
    <3>3. QED
      BY <1>4, <2>1, <3>1, <3>2 DEF AckDeleteLease, Shape
  <2>4. QED
    BY <2>2, <2>3, SMTT(30)
<1>5. CASE AckDeletePayload(w)
  BY <1>1, <1>5, StopMoves, DeletePayloadEffect DEF AckDeletePayload, Shape
<1>6. CASE NackWrite(w)
  <2>1. worker[w].seen.receives \in Nat /\ 0 \in Durations
    BY <1>1, Numbers, SMTT(30) DEF Local, LeaseRecord, Durations
  <2>2. /\ lease' = lease \/ Fresh(worker[w].id)
        /\ \A i \in Ids \ {worker[w].id} : lease'[i] = lease[i]
    BY <1>1, <1>6, <2>1, PutLeaseEffect, SMTT(30) DEF NackWrite, Fresh
  <2>3. QED
    BY <1>6, <2>2, StopMoves DEF NackWrite, Shape
<1>7. QED
  BY <1>2, <1>3, <1>4, <1>5, <1>6 DEF Settle

LEMMA StepShape ==
  ASSUME TypeInv, NEW w \in Workers, WorkerStep(w)
  PROVE  Shape(w)
<1>1. CASE Abandon(w)
  BY <1>1, StopMoves DEF Abandon, store, Shape
<1>2. QED
  BY <1>1, ShapeReceive, ShapeDeadLetter, ShapeRenewer, ShapeSettle DEF WorkerStep

\* Idle workers take no step of their own but TryReceive.
LEMMA StepBusy ==
  ASSUME TypeInv, NEW w \in Workers, WorkerStep(w)
  PROVE  worker[w].pc # "idle" /\ worker[w].id \in Ids
<1>1. worker[w].pc # "idle" \/ worker[w].rpc # "none"
  BY DEF WorkerStep, Receive, GetLease, Decide, WriteLease, ReadBack, Verify, Drop,
     DeadLetter, DeadAttributes, DeadRead, DeadWrite, DeadDeletePayload, DeadDeleteLease,
     Renewer, RenewTick, RenewWrite, RenewReadBack, RenewExit, RenewCallFails, Abandon,
     Ack, Nack, Settle, SettleJoin, SettleGet, AckDeleteLease, AckDeletePayload, NackWrite
<1>2. QED
  BY <1>1, RenewerBusy, SMTT(30) DEF TypeInv, Started

-----------------------------------------------------------------------------
(* What was enqueued.                                                      *)

LEMMA NoLeaseFields ==
  /\ NoLease.owner = NoOwner /\ NoLease.until = 0 /\ NoLease.receives = 0
  /\ NoLease.version = NoVersion /\ Absent(NoLease)
BY DEF NoLease, Absent

LEMMA StoreWorker ==
  ASSUME TypeInv, StoreInv, NEW w \in Workers, WorkerStep(w)
  PROVE  StoreInv'
<1>1. Shape(w) /\ worker[w].pc # "idle" /\ worker[w].id \in Ids
  BY StepShape, StepBusy
<1>2. enqueued' = enqueued /\ enqueued[worker[w].id] # 0
  BY <1>1 DEF Shape, StoreInv
<1>3. ASSUME NEW i \in Ids
      PROVE  /\ payload'[i] # 0 => enqueued[i] # 0
             /\ Absent(lease'[i]) => lease'[i] = NoLease
             /\ ~Absent(lease'[i]) => enqueued[i] # 0
  <2>1. CASE i = worker[w].id
    BY <1>1, <1>2, <2>1 DEF Shape, Fresh, StoreInv, Absent
  <2>2. CASE i # worker[w].id
    BY <1>1, <2>2 DEF Shape, StoreInv
  <2>3. QED
    BY <2>1, <2>2
<1>4. ASSUME NEW v \in Workers
      PROVE  /\ worker'[v].pc # "idle" => enqueued[worker'[v].id] # 0
             /\ \A i \in worker'[v].todo : enqueued[i] # 0
  <2>1. CASE v # w
    BY <1>1, <2>1, SMTT(30) DEF Shape, Moves, StoreInv
  <2>2. CASE v = w /\ worker'[w] = Idle
    BY <2>2, IdleFields
  <2>3. CASE v = w /\ worker'[w].id = worker[w].id /\ worker'[w].todo \subseteq worker[w].todo
    BY <1>2, <2>3 DEF StoreInv
  <2>4. ASSUME v = w, NEW i \in worker[w].todo, i \in Ids,
               worker'[w] = Start(i, worker[w].todo \ {i})
        PROVE  /\ enqueued[worker'[w].id] # 0
               /\ \A j \in worker'[w].todo : enqueued[j] # 0
    <3>1. worker[w].todo \ {i} \in SUBSET Ids
      BY DEF TypeInv, TypeOK, Local
    <3>2. worker'[w].id = i /\ worker'[w].todo = worker[w].todo \ {i}
      BY <2>4, <3>1, StartFields, SMTT(30)
    <3>3. QED
      BY <2>4, <3>2 DEF StoreInv
  <2>5. QED
    BY <1>1, <2>1, <2>2, <2>3, <2>4 DEF Shape
<1>5. QED
  BY <1>2, <1>3, <1>4 DEF StoreInv, Absent

LEMMA StoreStep ==
  ASSUME TypeInv, StoreInv, [Next]_vars
  PROVE  StoreInv'
<1>1. ASSUME NEW i \in Ids, Enqueue(i) \/ EnqueueWithID(i) PROVE StoreInv'
  <2>1. WritePayload(i)
    BY <1>1 DEF Enqueue, EnqueueWithID
  <2>2. \A j \in Ids : enqueued[j] # 0 \/ j = i => enqueued'[j] # 0
    BY <2>1, Numbers, SMTT(30) DEF WritePayload, TypeInv, TypeOK, Enqueues
  <2>3. \A j \in Ids : j # i => payload'[j] = payload[j]
    BY <2>1 DEF WritePayload, TypeInv, TypeOK
  <2>4. \A v \in Workers :
          /\ worker[v].pc # "idle" => worker[v].id \in Ids
          /\ worker[v].todo \subseteq Ids
    BY DEF TypeInv, TypeOK, Started, Local
  <2>5. UNCHANGED <<lease, worker>>
    BY <2>1 DEF WritePayload
  <2>6. ASSUME NEW j \in Ids
        PROVE  /\ payload'[j] # 0 => enqueued'[j] # 0
               /\ Absent(lease'[j]) => lease'[j] = NoLease
               /\ ~Absent(lease'[j]) => enqueued'[j] # 0
    BY <2>2, <2>3, <2>5 DEF StoreInv
  <2>7. ASSUME NEW v \in Workers
        PROVE  /\ worker'[v].pc # "idle" => enqueued'[worker'[v].id] # 0
               /\ \A j \in worker'[v].todo : enqueued'[j] # 0
    BY <2>2, <2>4, <2>5 DEF StoreInv
  <2>8. QED
    BY <2>6, <2>7 DEF StoreInv, Absent
<1>2. ASSUME NEW w \in Workers, TryReceive(w) PROVE StoreInv'
  <2>1. PICK i \in Window : Try(w, i, Window \ {i})
    BY <1>2 DEF TryReceive
  <2>2. /\ i \in Ids /\ Window \ {i} \in SUBSET Ids
        /\ \A j \in Window : payload[j] # 0 /\ j \in Ids
    BY DEF Window
  <2>3. /\ Moves(w) /\ worker'[w].id = i /\ worker'[w].todo = Window \ {i}
    BY <2>1, <2>2, TryMoves, StartFields, SMTT(30)
  <2>4. UNCHANGED <<store, enqueued>>
    BY <1>2 DEF TryReceive
  <2>5. ASSUME NEW v \in Workers
        PROVE  /\ worker'[v].pc # "idle" => enqueued[worker'[v].id] # 0
               /\ \A j \in worker'[v].todo : enqueued[j] # 0
    BY <2>2, <2>3 DEF Moves, StoreInv
  <2>6. QED
    BY <2>4, <2>5 DEF StoreInv, store, Absent
<1>3. CASE Trim \/ TrimFails \/ Age
  <2>1. UNCHANGED <<enqueued, worker>>
    BY <1>3 DEF Trim, TrimStart, TrimDeletePayload, TrimDeleteLease, TrimListLeases, TrimEnd,
       TrimFails, Age
  <2>2. CASE TrimDeletePayload
    <3>1. lease' = lease /\ \A i \in Ids : payload'[i] \in {payload[i], 0}
      BY <2>2, OldestIsThere, DeletePayloadEffect DEF TrimDeletePayload, TypeInv
    <3>2. QED
      BY <2>1, <3>1 DEF StoreInv, Absent
  <2>3. CASE TrimDeleteLease
    <3>1. payload' = payload /\ \A i \in Ids : lease'[i] \in {lease[i], NoLease}
      BY <2>3, OldestIsThere, DeleteLeaseEffect, SMTT(30) DEF TrimDeleteLease, TypeInv
    <3>2. QED
      BY <2>1, <3>1, NoLeaseFields, SMTT(30) DEF StoreInv, Absent
  <2>4. CASE UNCHANGED store
    BY <2>1, <2>4 DEF StoreInv, store, Absent
  <2>5. QED
    BY <1>3, <2>2, <2>3, <2>4
    DEF Trim, TrimStart, TrimListLeases, TrimEnd, TrimFails, Age, store
<1>4. CASE Tick
  <2>1. UNCHANGED <<payload, enqueued>>
    BY <1>4 DEF Tick
  <2>2. ASSUME NEW i \in Ids, Absent(lease'[i]) PROVE lease'[i] = NoLease
    <3>1. lease[i] = NoLease
      BY <1>4, <2>2, TickLease, SMTT(30) DEF Absent, StoreInv
    <3>2. lease'[i] = [lease[i] EXCEPT !.until = Less(lease[i].until)]
      BY <1>4 DEF Tick
    <3>3. QED
      BY <3>1, <3>2, SMTT(30) DEF NoLease, Less
  <2>3. \A i \in Ids : ~Absent(lease'[i]) => ~Absent(lease[i])
    BY <1>4, TickLease, SMTT(30) DEF Absent
  <2>4. QED
    BY <1>4, <2>1, <2>2, <2>3, TickWorker DEF StoreInv, Absent
<1>5. CASE UNCHANGED vars
  BY <1>5, SMTT(30) DEF vars, store, StoreInv, Absent
<1>6. QED
  BY <1>1, <1>2, <1>3, <1>4, <1>5, StoreWorker DEF Next, WorkerStep

-----------------------------------------------------------------------------
(* Nothing is removed without a reason.                                    *)

LEMMA OneEnqueue ==
  ASSUME TypeInv, NoReuse, NEW i \in Ids
  PROVE  payload[i] \in {0, 1} /\ enqueued[i] \in {0, 1}
BY SMTT(30) DEF TypeInv, TypeOK, NoReuse, Enqueues

LEMMA EndFields ==
  ASSUME TypeInv, NEW w \in Workers, NEW i \in worker[w].todo, i \in Ids
  PROVE  /\ Start(i, worker[w].todo \ {i}).pc = "get"
         /\ Start(i, worker[w].todo \ {i}).rpc = "none"
         /\ Start(i, worker[w].todo \ {i}).id = i
         /\ Start(i, worker[w].todo \ {i}).seen = NoLease
         /\ Start(i, worker[w].todo \ {i}).receives = 0
         /\ Start(i, worker[w].todo \ {i}).newUntil = 0
         /\ Start(i, worker[w].todo \ {i}).leaseUntil = 0
<1>1. worker[w].todo \ {i} \in SUBSET Ids
  BY DEF TypeInv, TypeOK, Local
<1>2. QED
  BY <1>1, StartFields, SMTT(30)

\* A worker that gives its candidate up is idle or at the start of the next one.
LEMMA NextPC ==
  ASSUME TypeInv, NEW w \in Workers, NextCandidate(w)
  PROVE  /\ worker'[w].pc \in {"idle", "get"} /\ worker'[w].rpc = "none"
         /\ worker'[w].seen = NoLease /\ worker'[w].receives = 0
         /\ worker'[w].newUntil = 0 /\ worker'[w].leaseUntil = 0
<1>1. CASE worker'[w] = Idle
  BY <1>1, IdleFields, SMTT(30)
<1>2. ASSUME NEW i \in worker[w].todo, i \in Ids, worker'[w] = Start(i, worker[w].todo \ {i})
      PROVE  /\ worker'[w].pc = "get" /\ worker'[w].rpc = "none"
             /\ worker'[w].seen = NoLease /\ worker'[w].receives = 0
             /\ worker'[w].newUntil = 0 /\ worker'[w].leaseUntil = 0
  BY <1>2, EndFields, SMTT(30)
<1>3. QED
  BY <1>1, <1>2, NextMoves

LEMMA StopPC ==
  ASSUME TypeInv, NEW w \in Workers, Stop(w)
  PROVE  /\ worker'[w].pc = "idle" /\ worker'[w].rpc = "none"
         /\ worker'[w].seen = NoLease /\ worker'[w].receives = 0
         /\ worker'[w].newUntil = 0 /\ worker'[w].leaseUntil = 0
BY StopMoves, IdleFields, SMTT(30)

LEMMA ReasonReceive ==
  ASSUME TypeInv, NoReuse, NEW w \in Workers, Receive(w)
  PROVE  Reason(w)'
<1>1. worker[w] \in Local
  BY DEF TypeInv, TypeOK
<1>2. ASSUME worker'[w].pc \in {"idle", "get", "decide", "write", "hold", "readback", "holdback",
                                 "verify", "deadattrs"}
      PROVE  Reason(w)'
  BY <1>2 DEF Reason
<1>3. CASE GetLease(w)
  BY <1>1, <1>2, <1>3 DEF GetLease, TypeInv, TypeOK, Local
<1>4. CASE Decide(w)
  <2>1. worker[w].seen.receives \in Nat
    BY <1>1, SMTT(30) DEF Local, LeaseRecord
  <2>2. QED
    BY <1>2, <1>4, <2>1, NextPC, ClaimMoves, SMTT(30) DEF Decide
<1>5. CASE WriteLease(w)
  <2>1. NextCandidate(w) \/ worker'[w].pc \in {"readback", "holdback"}
    BY <1>1, <1>5, SMTT(30) DEF WriteLease, TypeInv, TypeOK, Local
  <2>2. QED
    BY <1>2, <2>1, NextPC
<1>6. CASE ReadBack(w)
  <2>1. NextCandidate(w) \/ Stop(w) \/ worker'[w].pc \in {"verify", "deadattrs"}
    BY <1>1, <1>6, SMTT(30) DEF ReadBack, TypeInv, TypeOK, Local
  <2>2. QED
    BY <1>2, <2>1, NextPC, StopPC
<1>7. CASE Verify(w)
  <2>1. worker[w].id \in Ids /\ payload' = payload
    BY <1>7 DEF Verify, TypeInv, Started, store
  <2>2. CASE payload[worker[w].id] # 0
    <3>1. worker'[w].pc = "held" /\ worker'[w].got = payload[worker[w].id]
      BY <1>1, <1>7, <2>2, SMTT(30) DEF Verify, TypeInv, TypeOK, Local
    <3>2. QED
      BY <2>1, <2>2, <3>1, OneEnqueue DEF Reason
  <2>3. CASE payload[worker[w].id] = 0
    <3>1. worker'[w].pc = "drop" /\ worker'[w].id = worker[w].id
      BY <1>1, <1>7, <2>3, SMTT(30) DEF Verify, TypeInv, TypeOK, Local
    <3>2. QED
      BY <2>1, <2>3, <3>1 DEF Reason
  <2>4. QED
    BY <2>2, <2>3, SMTT(30)
<1>8. CASE Drop(w)
  BY <1>2, <1>8, NextPC DEF Drop
<1>9. QED
  BY <1>3, <1>4, <1>5, <1>6, <1>7, <1>8 DEF Receive

LEMMA ReasonDeadLetter ==
  ASSUME TypeInv, NoReuse, NEW w \in Workers, Reason(w), DeadLetter(w)
  PROVE  Reason(w)'
<1>1. worker[w] \in Local /\ worker[w].id \in Ids
  BY SMTT(30) DEF DeadLetter, DeadAttributes, DeadRead, DeadWrite, DeadDeletePayload, DeadDeleteLease,
         TypeInv, TypeOK, Started
<1>2. CASE DeadAttributes(w)
  <2>1. /\ worker'[w].id = worker[w].id /\ payload' = payload
        /\ worker'[w].pc = IF payload[worker[w].id] = 0 THEN "deaddelmsg" ELSE "deadread"
    BY <1>1, <1>2 DEF DeadAttributes, TypeInv, TypeOK, Local, store
  <2>2. QED
    BY <2>1 DEF Reason
<1>3. CASE DeadRead(w)
  <2>1. /\ worker'[w].id = worker[w].id /\ payload' = payload
        /\ worker'[w].pc = IF payload[worker[w].id] = 0 THEN "deaddelmsg" ELSE "deadwrite"
        /\ worker'[w].got = payload[worker[w].id]
    BY <1>1, <1>3 DEF DeadRead, TypeInv, TypeOK, Local, store
  <2>2. QED
    BY <1>1, <2>1, OneEnqueue DEF Reason
<1>4. CASE DeadWrite(w)
  <2>1. worker'[w].id = worker[w].id /\ worker'[w].pc = "deaddelmsg"
    BY <1>1, <1>4 DEF DeadWrite, TypeInv, TypeOK, Local
  <2>2. dead'[worker[w].id].payload = 1
    BY <1>1, <1>4, SMTT(30) DEF DeadWrite, TypeInv, TypeOK, Reason
  <2>3. QED
    BY <2>1, <2>2 DEF Reason
<1>5. CASE DeadDeletePayload(w)
  <2>1. worker'[w].id = worker[w].id /\ worker'[w].pc = "deaddellease"
    BY <1>1, <1>5 DEF DeadDeletePayload, TypeInv, TypeOK, Local
  <2>2. payload'[worker[w].id] = 0
    BY <1>1, <1>5, DeletePayloadEffect DEF DeadDeletePayload, TypeInv
  <2>3. QED
    BY <2>1, <2>2 DEF Reason
<1>6. CASE DeadDeleteLease(w)
  BY <1>6, NextPC DEF DeadDeleteLease, Reason
<1>7. QED
  BY <1>2, <1>3, <1>4, <1>5, <1>6 DEF DeadLetter

LEMMA ReasonRenewer ==
  ASSUME TypeInv, NEW w \in Workers, Reason(w), Renewer(w) \/ RenewCallFails(w)
  PROVE  Reason(w)'
<1>1. worker[w] \in Local
  BY DEF TypeInv, TypeOK
<1>2. /\ worker'[w].pc = worker[w].pc /\ worker'[w].id = worker[w].id
      /\ worker'[w].got = worker[w].got
  BY <1>1, SMTT(30)
  DEF Renewer, RenewTick, RenewWrite, RenewReadBack, RenewExit, RenewLost, RenewCallFails,
      TypeInv, TypeOK, Local
<1>3. UNCHANGED <<payload, dead, acked>>
  BY DEF Renewer, RenewTick, RenewWrite, RenewReadBack, RenewExit, RenewCallFails, store, ghosts
<1>4. QED
  BY <1>2, <1>3 DEF Reason

LEMMA ReasonSettle ==
  ASSUME TypeInv, NEW w \in Workers, Reason(w), Ack(w) \/ Nack(w) \/ Settle(w)
  PROVE  Reason(w)'
<1>1. worker[w] \in Local
  BY DEF TypeInv, TypeOK
<1>2. CASE Ack(w)
  <2>1. /\ worker'[w].pc = "ackstop" /\ worker'[w].id = worker[w].id
        /\ worker'[w].got = worker[w].got /\ worker[w].pc = "held"
    BY <1>1, <1>2 DEF Ack, TypeInv, TypeOK, Local
  <2>2. QED
    BY <1>2, <2>1, SMTT(30) DEF Ack, Reason
<1>3. CASE Nack(w)
  <2>1. /\ worker'[w].pc = "nackstop" /\ worker'[w].got = worker[w].got /\ worker[w].pc = "held"
    BY <1>1, <1>3 DEF Nack, TypeInv, TypeOK, Local
  <2>2. QED
    BY <2>1 DEF Reason
<1>4. CASE SettleJoin(w)
  <2>1. /\ worker'[w].pc = IF worker[w].pc = "ackstop" THEN "ackget" ELSE "nackget"
        /\ worker'[w].id = worker[w].id /\ acked' = acked
    BY <1>1, <1>4 DEF SettleJoin, TypeInv, TypeOK, Local, ghosts
  <2>2. QED
    BY <2>1 DEF Reason
<1>5. CASE SettleGet(w)
  <2>1. \/ Stop(w)
        \/ /\ worker'[w].pc = IF worker[w].pc = "ackget" THEN "ackdellease" ELSE "nackwrite"
           /\ worker'[w].id = worker[w].id /\ acked' = acked
    BY <1>1, <1>5, SMTT(30) DEF SettleGet, TypeInv, TypeOK, Local, ghosts
  <2>2. QED
    BY <2>1, StopPC DEF Reason
<1>6. CASE AckDeleteLease(w)
  <2>1. \/ Stop(w)
        \/ /\ worker[w].pc = "ackdellease" /\ worker'[w].pc = "ackdelmsg"
           /\ worker'[w].id = worker[w].id /\ acked' = acked
    BY <1>1, <1>6, SMTT(30) DEF AckDeleteLease, TypeInv, TypeOK, Local, ghosts
  <2>2. QED
    BY <2>1, StopPC DEF Reason
<1>7. CASE AckDeletePayload(w) \/ NackWrite(w)
  BY <1>7, StopPC, SMTT(30) DEF AckDeletePayload, NackWrite, Reason
<1>8. QED
  BY <1>2, <1>3, <1>4, <1>5, <1>6, <1>7 DEF Settle

LEMMA AckedGrows ==
  ASSUME NEW w \in Workers, WorkerStep(w)
  PROVE  acked \subseteq acked'
BY DEF WorkerStep, Receive, GetLease, Decide, WriteLease, ReadBack, Verify, Drop,
     DeadLetter, DeadAttributes, DeadRead, DeadWrite, DeadDeletePayload, DeadDeleteLease,
     Renewer, RenewTick, RenewWrite, RenewReadBack, RenewExit, RenewCallFails, Abandon,
     Ack, Nack, Settle, SettleJoin, SettleGet, AckDeleteLease, AckDeletePayload, NackWrite, ghosts

LEMMA RemovalWorker ==
  ASSUME TypeInv, NoReuse, RemovalInv, NEW w \in Workers, WorkerStep(w)
  PROVE  RemovalInv'
<1>1. Shape(w) /\ worker[w].id \in Ids /\ Reason(w)
  BY StepShape, StepBusy, SMTT(30) DEF RemovalInv
<1>2. acked \subseteq acked'
  BY AckedGrows
<1>3. \A i \in Ids : dead[i].payload = 1 => dead'[i].payload = 1
  <2>1. CASE DeadWrite(w)
    <3>1. worker[w].got = 1
      BY <1>1, <2>1 DEF DeadWrite, Reason
    <3>2. QED
      BY <2>1, <3>1, SMTT(30) DEF DeadWrite, TypeInv, TypeOK
  <2>2. CASE ~DeadWrite(w)
    <3>1. dead' = dead
      BY <2>2
      DEF WorkerStep, Receive, GetLease, Decide, WriteLease, ReadBack, Verify, Drop,
        DeadLetter, DeadAttributes, DeadRead, DeadDeletePayload, DeadDeleteLease,
        Renewer, RenewTick, RenewWrite, RenewReadBack, RenewExit, RenewCallFails, Abandon,
        Ack, Nack, Settle, SettleJoin, SettleGet, AckDeleteLease, AckDeletePayload, NackWrite,
        store
    <3>2. QED
      BY <3>1, SMTT(30)
  <2>3. QED
    BY <2>1, <2>2
<1>4. payload'[worker[w].id] # payload[worker[w].id]
        => <<worker[w].id, 1>> \in acked \/ dead[worker[w].id].payload = 1
  <2>1. CASE DeadDeletePayload(w)
    BY <1>1, <2>1, DeletePayloadEffect DEF DeadDeletePayload, Reason, TypeInv
  <2>2. CASE AckDeletePayload(w)
    BY <1>1, <2>2 DEF AckDeletePayload, Reason
  <2>3. CASE ~DeadDeletePayload(w) /\ ~AckDeletePayload(w)
    <3>1. payload' = payload
      BY <2>3
      DEF WorkerStep, Receive, GetLease, Decide, WriteLease, ReadBack, Verify, Drop,
        DeadLetter, DeadAttributes, DeadRead, DeadWrite, DeadDeleteLease,
        Renewer, RenewTick, RenewWrite, RenewReadBack, RenewExit, RenewCallFails, Abandon,
        Ack, Nack, Settle, SettleJoin, SettleGet, AckDeleteLease, NackWrite, store
    <3>2. QED
      BY <3>1, SMTT(30)
  <2>4. QED
    BY <2>1, <2>2, <2>3, SMTT(30)
<1>5. \A i \in Ids : payload[i] = 0 => payload'[i] = 0
  BY <1>1 DEF Shape
<1>6. NothingLost'
  <2> SUFFICES ASSUME NEW i \in Ids, NEW n \in 1 .. enqueued'[i]
               PROVE  \/ payload'[i] = n
                      \/ <<i, n>> \in acked'
                      \/ dead'[i].payload = n
                      \/ Retention /\ i \notin Untimed /\ i < horizon'
    BY DEF NothingLost
  <2>1. enqueued' = enqueued /\ horizon' = horizon
    BY <1>1 DEF Shape
  <2>2. n = 1 /\ n \in 1 .. enqueued[i]
    BY <2>1, OneEnqueue, SMTT(30)
  <2>3. \/ payload[i] = n
        \/ <<i, n>> \in acked
        \/ dead[i].payload = n
        \/ Retention /\ i \notin Untimed /\ i < horizon
    BY <2>2 DEF RemovalInv, NothingLost
  <2>4. CASE payload[i] = n /\ payload'[i] # n
    <3>1. i = worker[w].id
      BY <1>1, <2>4, SMTT(30) DEF Shape
    <3>2. QED
      BY <1>2, <1>3, <1>4, <2>2, <2>4, <3>1
  <2>5. QED
    BY <1>2, <1>3, <2>1, <2>2, <2>3, <2>4
<1>7. Reason(w)'
  <2>1. CASE Abandon(w)
    BY <2>1, StopPC DEF Abandon, Reason
  <2>2. QED
    BY <1>1, <2>1, ReasonReceive, ReasonDeadLetter, ReasonRenewer, ReasonSettle DEF WorkerStep
<1>8. ASSUME NEW v \in Workers \ {w} PROVE Reason(v)'
  <2>1. worker'[v] = worker[v] /\ Reason(v)
    BY <1>1 DEF Shape, Moves, RemovalInv
  <2>2. worker[v].pc # "idle" => worker[v].id \in Ids
    BY DEF TypeInv, Started
  <2>3. QED
    BY <1>2, <1>3, <1>5, <2>1, <2>2 DEF Reason
<1>9. QED
  BY <1>1, <1>6, <1>7, <1>8 DEF RemovalInv, Shape

LEMMA RemovalStep ==
  ASSUME TypeInv, StoreInv, NoReuse, RemovalInv, [Next]_vars
  PROVE  RemovalInv'
<1>1. ASSUME NEW i \in Ids, Enqueue(i) \/ EnqueueWithID(i) PROVE RemovalInv'
  <2>1. WritePayload(i) /\ enqueued[i] = 0
    BY <1>1, OneEnqueue, SMTT(30) DEF Enqueue, EnqueueWithID, NoReuse
  <2>2. /\ payload'[i] = 1 /\ enqueued'[i] = 1
        /\ \A j \in Ids \ {i} : payload'[j] = payload[j] /\ enqueued'[j] = enqueued[j]
        /\ UNCHANGED <<dead, worker, horizon, trim, acked>>
    BY <2>1, SMTT(30) DEF WritePayload, TypeInv, TypeOK
  <2>3. NothingLost'
    <3> SUFFICES ASSUME NEW j \in Ids, NEW n \in 1 .. enqueued'[j]
                 PROVE  \/ payload'[j] = n
                        \/ <<j, n>> \in acked'
                        \/ dead'[j].payload = n
                        \/ Retention /\ j \notin Untimed /\ j < horizon'
      BY DEF NothingLost
    <3>1. CASE j = i
      BY <2>2, <3>1, SMTT(30)
    <3>2. CASE j # i
      BY <2>2, <3>2 DEF RemovalInv, NothingLost
    <3>3. QED
      BY <3>1, <3>2
  <2>4. ASSUME NEW v \in Workers PROVE Reason(v)'
    <3>1. worker'[v] = worker[v] /\ Reason(v)
      BY <2>2 DEF RemovalInv
    <3>2. worker[v].pc # "idle" => worker[v].id \in Ids /\ worker[v].id # i
      BY <2>1 DEF TypeInv, Started, StoreInv
    <3>3. QED
      BY <2>2, <3>1, <3>2 DEF Reason
  <2>5. QED
    BY <2>2, <2>3, <2>4 DEF RemovalInv
<1>2. ASSUME NEW w \in Workers, TryReceive(w) PROVE RemovalInv'
  <2>1. PICK i \in Window : Try(w, i, Window \ {i})
    BY <1>2 DEF TryReceive
  <2>2. i \in Ids /\ Window \ {i} \in SUBSET Ids
    BY DEF Window
  <2>3. Moves(w) /\ worker'[w].pc = "get"
    BY <2>1, <2>2, TryMoves, StartFields, SMTT(30)
  <2>4. UNCHANGED <<payload, dead, enqueued, horizon, trim, acked>>
    BY <1>2 DEF TryReceive, store, ghosts
  <2>5. \A v \in Workers : Reason(v)'
    BY <2>3, <2>4, SMTT(30) DEF Moves, Reason, RemovalInv
  <2>6. QED
    BY <2>4, <2>5, SMTT(30) DEF RemovalInv, NothingLost
<1>3. CASE Trim \/ TrimFails \/ Age
  <2>1. UNCHANGED <<enqueued, worker, dead, acked>>
    BY <1>3 DEF Trim, TrimStart, TrimDeletePayload, TrimDeleteLease, TrimListLeases, TrimEnd,
       TrimFails, Age, store, ghosts
  <2>2. horizon \in Nat /\ horizon' \in Nat /\ horizon <= horizon' /\ trim.horizon \in Nat
    BY <1>3, SMTT(30) DEF Trim, TrimStart, TrimDeletePayload, TrimDeleteLease, TrimListLeases, TrimEnd,
       TrimFails, Age, TypeInv, TypeOK, TrimState
  <2>3. /\ trim'.horizon <= horizon'
        /\ \A i \in trim'.todo : i \notin Untimed /\ i < trim'.horizon
        /\ trim'.pc # "idle" => Retention
    <3>1. NoTrim.horizon = 0 /\ NoTrim.todo = {} /\ NoTrim.pc = "idle"
      BY DEF NoTrim
    <3>2. CASE TrimStart
      BY <2>2, <3>2 DEF TrimStart, Old
    <3>3. CASE TrimDeletePayload
      <4>1. trim'.horizon = trim.horizon /\ trim'.todo = trim.todo /\ trim.pc # "idle"
        BY <3>3 DEF TrimDeletePayload, TypeInv, TypeOK, TrimState
      <4>2. QED
        BY <2>2, <3>3, <4>1 DEF RemovalInv, TrimDeletePayload
    <3>4. CASE TrimDeleteLease
      <4>1. \/ trim' = NoTrim
            \/ trim'.horizon = trim.horizon /\ trim'.todo \subseteq trim.todo /\ trim.pc # "idle"
        BY <3>4 DEF TrimDeleteLease, TypeInv, TypeOK, TrimState
      <4>2. QED
        BY <2>2, <3>1, <3>4, <4>1, SMTT(30) DEF RemovalInv, TrimDeleteLease
    <3>5. CASE TrimListLeases
      <4>1. /\ trim'.horizon = trim.horizon /\ trim.pc # "idle"
            /\ trim'.todo = Old({i \in Ids : ~Absent(lease[i])}, trim.horizon)
        BY <3>5 DEF TrimListLeases, TypeInv, TypeOK, TrimState
      <4>2. QED
        BY <2>2, <3>5, <4>1 DEF RemovalInv, TrimListLeases, Old
    <3>6. CASE TrimEnd \/ TrimFails
      BY <2>2, <3>1, <3>6, SMTT(30) DEF TrimEnd, TrimFails
    <3>7. CASE Age
      <4>1. trim' = trim /\ trim.horizon <= horizon /\ horizon' = horizon + 1
        BY <3>7 DEF Age, RemovalInv
      <4>2. QED
        BY <2>2, <4>1, SMTT(30) DEF RemovalInv
    <3>8. QED
      BY <1>3, <3>2, <3>3, <3>4, <3>5, <3>6, <3>7 DEF Trim
  <2>4. \A i \in Ids :
          \/ payload'[i] = payload[i]
          \/ payload'[i] = 0 /\ Retention /\ i \notin Untimed /\ i < horizon
    <3>1. CASE TrimDeletePayload
      <4>1. /\ Oldest \in trim.todo /\ Oldest \in Ids /\ payload'[Oldest] = 0
            /\ \A i \in Ids \ {Oldest} : payload'[i] = payload[i]
        BY <3>1, OldestIsThere, DeletePayloadEffect DEF TrimDeletePayload, TypeInv
      <4>2. Retention /\ Oldest \notin Untimed /\ Oldest < trim.horizon /\ trim.horizon <= horizon
        BY <3>1, <4>1 DEF TrimDeletePayload, RemovalInv
      <4>3. Oldest \in Nat
        BY <4>1, QueueAssumption
      <4>4. QED
        BY <2>2, <4>1, <4>2, <4>3, SMTT(30)
    <3>2. CASE payload' = payload
      BY <3>2
    <3>3. QED
      BY <1>3, <3>1, <3>2
      DEF Trim, TrimStart, TrimDeleteLease, TrimListLeases, TrimEnd, TrimFails, Age, store
  <2>5. NothingLost'
    <3> SUFFICES ASSUME NEW i \in Ids, NEW n \in 1 .. enqueued'[i]
                 PROVE  \/ payload'[i] = n
                        \/ <<i, n>> \in acked'
                        \/ dead'[i].payload = n
                        \/ Retention /\ i \notin Untimed /\ i < horizon'
      BY DEF NothingLost
    <3>1. \/ payload[i] = n
          \/ <<i, n>> \in acked
          \/ dead[i].payload = n
          \/ Retention /\ i \notin Untimed /\ i < horizon
      BY <2>1 DEF RemovalInv, NothingLost
    <3>2. i < horizon => i < horizon'
      BY <2>2, QueueAssumption, SMTT(30)
    <3>3. QED
      BY <2>1, <2>4, <3>1, <3>2
  <2>6. ASSUME NEW v \in Workers PROVE Reason(v)'
    <3>1. worker'[v] = worker[v] /\ Reason(v) /\ (worker[v].pc # "idle" => worker[v].id \in Ids)
      BY <2>1 DEF RemovalInv, TypeInv, Started
    <3>2. QED
      BY <2>1, <2>4, <3>1 DEF Reason
  <2>7. QED
    BY <2>3, <2>5, <2>6 DEF RemovalInv
<1>4. CASE Tick
  <2>1. UNCHANGED <<payload, dead, enqueued, horizon, trim, acked>>
    BY <1>4 DEF Tick, ghosts
  <2>2. ASSUME NEW v \in Workers PROVE Reason(v)'
    <3>1. /\ worker'[v].pc = worker[v].pc /\ worker'[v].id = worker[v].id
          /\ worker'[v].got = worker[v].got /\ Reason(v)
      BY <1>4, TickWorker DEF RemovalInv
    <3>2. QED
      BY <2>1, <3>1 DEF Reason
  <2>3. QED
    BY <2>1, <2>2 DEF RemovalInv, NothingLost
<1>5. CASE UNCHANGED vars
  BY <1>5 DEF vars, store, ghosts, RemovalInv, NothingLost, Reason
<1>6. QED
  BY <1>1, <1>2, <1>3, <1>4, <1>5, RemovalWorker DEF Next, WorkerStep

LEMMA InitRemoval == Init => StoreInv /\ RemovalInv
<1> SUFFICES ASSUME Init PROVE StoreInv /\ RemovalInv
  OBVIOUS
<1>1. StoreInv
  BY IdleFields, NoLeaseFields, SMTT(30) DEF Init, StoreInv
<1>2. RemovalInv
  BY IdleFields, SMTT(30) DEF Init, RemovalInv, NothingLost, Reason, NoTrim
<1>3. QED
  BY <1>1, <1>2

\* At-least-once delivery: where no id is used twice, no crash, lost lease, slow
\* handler or late renewal makes a message vanish that was not acked, moved to
\* the dead records or past the retention horizon.
THEOREM NothingIsLost == NoReuse /\ Spec => []NothingLost
<1> SUFFICES ASSUME NoReuse PROVE Spec => []NothingLost
  OBVIOUS
<1>1. Init => TypeInv /\ StoreInv /\ RemovalInv
  BY InitType, InitRemoval
<1>2. TypeInv /\ StoreInv /\ RemovalInv /\ [Next]_vars => (TypeInv /\ StoreInv /\ RemovalInv)'
  BY TypeStep, StoreStep, RemovalStep
<1>3. RemovalInv => NothingLost
  BY DEF RemovalInv
<1>4. QED
  BY <1>1, <1>2, <1>3, PTL DEF Spec

-----------------------------------------------------------------------------
(* Claims: what a worker relies on until it has settled its message.       *)

\* Where there is a retention, no id supplied by a caller embeds a time, which
\* might be past the horizon when it is enqueued.
NoLateIds == Retention => CallerIds \subseteq Untimed

\* Trim comes to the leases of messages that it, or somebody else, has removed.
TrimInv ==
  /\ trim.pc \in {"msg", "lease"} =>
       \A i \in Ids \ Untimed : i < trim.horizon /\ payload[i] # 0 => i \in trim.todo
  /\ trim.pc = "lease" => trim.todo # {} /\ payload[Oldest] = 0
  /\ trim.pc = "sweep" => \A i \in Ids \ Untimed : i < trim.horizon => payload[i] = 0

\* A remembered record whose token still matches is the record; what follows was
\* decided on an expired one, or on one's own.
Remembered(w) ==
  LET me == worker[w] IN
  me.pc \in {"decide", "write", "hold", "ackdellease", "nackwrite"} =>
    /\ Absent(me.seen) => me.seen = NoLease
    /\ me.seen.version = lease[me.id].version => me.seen = lease[me.id]
    /\ me.pc = "write" => /\ Absent(me.seen) \/ Expired(me.seen.until)
                          /\ me.receives = me.seen.receives + 1
    /\ me.pc = "hold" => /\ ~Absent(me.seen) /\ Expired(me.seen.until)
                         /\ me.receives = me.seen.receives
    /\ me.pc \in {"ackdellease", "nackwrite"} => ~Absent(me.seen) /\ me.seen.owner = w

\* The renewer lives with the message; its token is that of some write.
Holding == {"held", "ackstop", "nackstop"}
Threads(w) ==
  LET me == worker[w] IN
  /\ me.rpc \in {"wait", "write", "readback"} => me.pc \in Holding
  /\ me.pc \in Holding \cup {"verify"} => me.version # NoVersion
  /\ me.rpc \in {"write", "readback"} => me.leaseUntil <= me.newUntil

\* The record is that of w's claim.
Mine(w) ==
  LET now == lease[worker[w].id] IN
  ~Absent(now) /\ now.owner = w /\ now.receives = worker[w].receives
Backs(w, until) == until # 0 => Mine(w) /\ lease[worker[w].id].until >= until

\* While there is a message, a claim that still runs is backed by its record.
Claimed(w) ==
  LET me == worker[w] IN
  me.pc # "idle" /\ payload[me.id] # 0 =>
    /\ me.pc \in {"readback", "holdback"} => Backs(w, me.newUntil)
    /\ me.pc \in {"verify"} \cup Moving \cup Holding => Backs(w, me.leaseUntil)
    /\ me.rpc = "write" /\ Passes(me.id, me.version) => Mine(w)
    /\ me.rpc = "readback" => Backs(w, me.newUntil)

WorkerInv(w) == Remembered(w) /\ Threads(w) /\ Claimed(w)

-----------------------------------------------------------------------------
(* Trim deletes the leases of messages that are gone.                      *)

LEMMA TrimFrame ==
  ASSUME TypeInv, TrimInv, trim' = trim,
         \A i \in Ids \ Untimed : i < trim.horizon /\ payload[i] = 0 => payload'[i] = 0,
         \A i \in trim.todo : i \notin Untimed /\ i < trim.horizon
  PROVE  TrimInv'
<1>1. Oldest' = Oldest
  BY DEF Oldest
<1>2. trim.pc = "lease" => Oldest \in trim.todo /\ Oldest \in Ids
  BY OldestIsThere DEF TypeInv, TrimInv
<1>3. trim.pc = "lease" => trim.todo # {} /\ payload'[Oldest] = 0
  BY <1>2 DEF TrimInv
<1>4. QED
  BY <1>1, <1>3, SMTT(30) DEF TrimInv

LEMMA TrimTrim ==
  ASSUME TypeInv, RemovalInv, TrimInv, Trim \/ TrimFails
  PROVE  TrimInv'
<1>1. NoTrim.pc = "idle"
  BY DEF NoTrim
<1>2. CASE TrimStart
  <2>1. payload' = payload /\ trim'.pc = "msg" /\ trim'.horizon = horizon
        /\ trim'.todo = Old({i \in Ids : payload[i] # 0}, horizon)
    BY <1>2 DEF TrimStart, store
  <2>2. QED
    BY <2>1 DEF TrimInv, Old
<1>3. CASE TrimDeletePayload
  <2>1. trim'.pc = "lease" /\ trim'.todo = trim.todo /\ trim'.horizon = trim.horizon
    BY <1>3 DEF TrimDeletePayload, TypeInv, TypeOK, TrimState
  <2>2. Oldest' = Oldest /\ trim.todo # {}
    BY <1>3, <2>1 DEF Oldest, TrimDeletePayload
  <2>3. payload'[Oldest] = 0 /\ \A i \in Ids : payload'[i] # 0 => payload[i] # 0
    BY <1>3, OldestIsThere, DeletePayloadEffect, SMTT(30) DEF TrimDeletePayload, TypeInv
  <2>4. \A i \in Ids \ Untimed : i < trim.horizon /\ payload[i] # 0 => i \in trim.todo
    BY <1>3 DEF TrimDeletePayload, TrimInv
  <2>5. QED
    BY <2>1, <2>2, <2>3, <2>4 DEF TrimInv
<1>4. CASE TrimDeleteLease
  <2>1. CASE trim.budget = 1
    BY <1>1, <1>4, <2>1 DEF TrimDeleteLease, TrimInv
  <2>2. CASE trim.budget # 1
    <3>1. /\ trim'.pc = IF trim.pc = "lease" THEN "msg" ELSE "sweep"
          /\ trim'.todo = trim.todo \ {Oldest} /\ trim'.horizon = trim.horizon
          /\ payload' = payload /\ trim.pc \in {"lease", "sweep"}
      BY <1>4, <2>2 DEF TrimDeleteLease, TypeInv, TypeOK, TrimState
    <3>2. CASE trim.pc = "lease"
      BY <3>1, <3>2, SMTT(30) DEF TrimInv
    <3>3. CASE trim.pc = "sweep"
      BY <3>1, <3>3 DEF TrimInv
    <3>4. QED
      BY <3>1, <3>2, <3>3
  <2>3. QED
    BY <2>1, <2>2
<1>5. CASE TrimListLeases
  <2>1. /\ trim'.pc = "sweep" /\ trim'.horizon = trim.horizon /\ payload' = payload
        /\ trim.pc = "msg" /\ trim.todo = {}
    BY <1>5 DEF TrimListLeases, TypeInv, TypeOK, TrimState, store
  <2>2. QED
    BY <2>1 DEF TrimInv
<1>6. CASE TrimEnd \/ TrimFails
  BY <1>1, <1>6 DEF TrimEnd, TrimFails, TrimInv
<1>7. QED
  BY <1>2, <1>3, <1>4, <1>5, <1>6, SMTT(30) DEF Trim

LEMMA TrimStep ==
  ASSUME TypeInv, NoLateIds, RemovalInv, TrimInv, [Next]_vars
  PROVE  TrimInv'
<1>1. /\ trim.horizon <= horizon /\ (trim.pc # "idle" => Retention)
      /\ \A i \in trim.todo : i \notin Untimed /\ i < trim.horizon
  BY DEF RemovalInv
<1>2. ASSUME trim' = trim, \A i \in Ids : payload[i] = 0 => payload'[i] = 0 PROVE TrimInv'
  BY <1>1, <1>2, TrimFrame
<1>3. ASSUME NEW i \in Ids, Enqueue(i) \/ EnqueueWithID(i) PROVE TrimInv'
  <2>1. trim' = trim /\ \A j \in Ids \ {i} : payload'[j] = payload[j]
    BY <1>3 DEF Enqueue, EnqueueWithID, WritePayload, TypeInv, TypeOK
  <2>2. CASE trim.pc = "idle"
    BY <2>1, <2>2, SMTT(30) DEF TrimInv
  <2>3. CASE trim.pc # "idle"
    <3>1. ~(i \notin Untimed /\ i < trim.horizon)
      <4>1. i \in Nat /\ horizon \in Nat /\ trim.horizon \in Nat
        BY QueueAssumption DEF TypeInv, TypeOK, TrimState
      <4>2. i \in CallerIds => i \in Untimed
        BY <1>1, <2>3 DEF NoLateIds
      <4>3. i \notin CallerIds => i >= horizon
        BY <1>3 DEF Enqueue, EnqueueWithID
      <4>4. QED
        BY <1>1, <4>1, <4>2, <4>3, SMTT(30)
    <3>2. QED
      BY <1>1, <2>1, <3>1, TrimFrame
  <2>4. QED
    BY <2>2, <2>3, SMTT(30)
<1>4. ASSUME NEW w \in Workers, WorkerStep(w) PROVE TrimInv'
  BY <1>2, <1>4, StepShape, StepBusy, SMTT(30) DEF Shape
<1>5. ASSUME NEW w \in Workers, TryReceive(w) PROVE TrimInv'
  BY <1>2, <1>5 DEF TryReceive, store
<1>6. CASE Age \/ Tick \/ UNCHANGED vars
  BY <1>2, <1>6 DEF Age, Tick, vars, store
<1>7. QED
  BY <1>3, <1>4, <1>5, <1>6, TrimTrim DEF Next, WorkerStep

\* What Trim's lease deletion leaves alone.
LEMMA TrimSparesMessages ==
  ASSUME TypeInv, RemovalInv, TrimInv, TrimDeleteLease
  PROVE  \A i \in Ids : payload[i] # 0 => lease'[i] = lease[i]
<1>1. /\ Oldest \in trim.todo /\ Oldest \in Ids
      /\ \A i \in Ids \ {Oldest} : lease'[i] = lease[i]
  BY OldestIsThere, DeleteLeaseEffect DEF TrimDeleteLease, TypeInv
<1>2. payload[Oldest] = 0
  BY <1>1 DEF TrimDeleteLease, TrimInv, RemovalInv
<1>3. QED
  BY <1>1, <1>2

-----------------------------------------------------------------------------
(* The leases back the claims.                                             *)

\* The lease of v's message is left alone, or replaced or deleted when the message
\* is gone, the lease expired or not v's.
Harmless(v) ==
  LET i == worker[v].id IN
  \/ lease'[i] = lease[i]
  \/ /\ lease'[i] = NoLease \/ Fresh(i)
     /\ payload'[i] = 0 \/ lease[i].owner # v \/ Expired(lease[i].until)

LEMMA Numeric ==
  ASSUME TypeInv, NEW w \in Workers
  PROVE  /\ worker[w] \in Local
         /\ worker[w].newUntil \in Nat /\ worker[w].leaseUntil \in Nat
         /\ worker[w].newUntil <= Lease /\ worker[w].leaseUntil <= Lease
         /\ worker[w].receives \in Nat /\ worker[w].seen.receives \in Nat
         /\ \A i \in Ids : lease[i].until \in Nat /\ lease[i].receives \in Nat
BY Numbers, SMTT(30) DEF TypeInv, TypeOK, Local, LeaseRecord, Durations

\* A worker that does not move keeps its part of the invariant.
LEMMA Bystander ==
  ASSUME TypeInv, NEW v \in Workers, WorkerInv(v), worker'[v] = worker[v],
         worker[v].pc # "idle" =>
           /\ Harmless(v)
           /\ payload'[worker[v].id] # 0 => payload[worker[v].id] # 0
  PROVE  WorkerInv(v)'
<1> DEFINE i == worker[v].id
<1>1. CASE worker[v].pc = "idle"
  <2>1. worker[v].rpc = "none"
    BY <1>1 DEF TypeInv, Started
  <2>2. QED
    BY <1>1, <2>1 DEF WorkerInv, Remembered, Threads, Claimed, Holding, Moving
<1>2. CASE worker[v].pc # "idle"
  <2>1. i \in Ids /\ Harmless(v) /\ (payload'[i] # 0 => payload[i] # 0)
    BY <1>2 DEF TypeInv, Started
  <2>2. Remembered(v) /\ Threads(v) /\ Claimed(v)
    BY DEF WorkerInv
  <2>3. Threads(v)'
    BY <2>2 DEF Threads
  <2>4. Remembered(v)'
    <3>1. CASE lease'[i] = lease[i]
      BY <2>2, <3>1 DEF Remembered
    <3>2. CASE lease'[i] = NoLease \/ Fresh(i)
      BY <2>2, <3>2, NoLeaseFields DEF Remembered, Fresh, Absent
    <3>3. QED
      BY <2>1, <3>1, <3>2 DEF Harmless
  <2>5. Claimed(v)'
    <3> SUFFICES ASSUME payload'[i] # 0 PROVE Claimed(v)'
      BY DEF Claimed
    <3>1. payload[i] # 0
      BY <2>1
    <3>2. CASE lease'[i] = lease[i]
      BY <1>2, <2>2, <3>1, <3>2 DEF Claimed, Backs, Mine, Passes, Absent
    <3>3. CASE /\ lease'[i] = NoLease \/ Fresh(i)
               /\ lease[i].owner # v \/ Expired(lease[i].until)
      <4>1. ASSUME NEW u \in Nat, Backs(v, u) PROVE u = 0
        BY <2>1, <3>3, <4>1, Numeric, SMTT(30) DEF Backs, Mine, Expired
      <4>2. worker[v].rpc = "write" => lease'[i].version # worker[v].version
        BY <2>2, <3>3, NoLeaseFields DEF Threads, Fresh
      <4>3. /\ worker[v].pc \in {"readback", "holdback"} => worker[v].newUntil = 0
            /\ worker[v].pc \in {"verify"} \cup Moving \cup Holding => worker[v].leaseUntil = 0
            /\ worker[v].rpc = "readback" => worker[v].newUntil = 0
        BY <1>2, <2>2, <3>1, <4>1, Numeric DEF Claimed
      <4>4. QED
        BY <4>2, <4>3 DEF Claimed, Backs, Passes
    <3>4. QED
      BY <2>1, <3>2, <3>3 DEF Harmless
  <2>6. QED
    BY <2>3, <2>4, <2>5 DEF WorkerInv
<1>3. QED
  BY <1>1, <1>2

\* At the start of a candidate, and between receives, there is nothing to back.
LEMMA NothingClaimed ==
  ASSUME NEW w \in Workers, worker'[w].rpc \in {"none", "exited"},
         worker'[w].pc \in {"idle", "get", "drop", "ackget", "nackget", "ackdelmsg"}
  PROVE  WorkerInv(w)'
BY DEF WorkerInv, Remembered, Threads, Claimed, Holding, Moving

\* A worker that is neither handling a message nor settling one has no renewer.
LEMMA NoRenewer ==
  ASSUME TypeInv, NEW w \in Workers, WorkerInv(w), worker[w].pc \notin Holding
  PROVE  worker[w].rpc \in {"none", "exited"}
BY DEF WorkerInv, Threads, TypeInv, TypeOK, Local, RenewerPC

LEMMA ClaimReceive ==
  ASSUME TypeInv, StoreInv, NEW w \in Workers, WorkerInv(w), Receive(w)
  PROVE  WorkerInv(w)'
<1> DEFINE i == worker[w].id
<1>1. i \in Ids /\ worker[w].pc \notin Holding
  BY DEF Receive, GetLease, Decide, WriteLease, ReadBack, Verify, Drop, TypeInv, Started, Holding
<1>2. worker[w] \in Local /\ worker[w].rpc \in {"none", "exited"}
  BY <1>1, NoRenewer, Numeric
<1>3. Remembered(w) /\ Threads(w) /\ Claimed(w)
  BY DEF WorkerInv
<1>4. CASE NextCandidate(w)
  BY <1>4, NextPC, NothingClaimed
<1>5. CASE GetLease(w)
  <2>1. /\ worker'[w].pc = "decide" /\ worker'[w].seen = lease[i]
        /\ worker'[w].rpc = worker[w].rpc /\ worker'[w].id = i /\ lease' = lease
    BY <1>2, <1>5 DEF GetLease, TypeInv, TypeOK, Local, store
  <2>2. Absent(lease[i]) => lease[i] = NoLease
    BY <1>1 DEF StoreInv
  <2>3. QED
    BY <1>2, <2>1, <2>2 DEF WorkerInv, Remembered, Threads, Claimed, Holding, Moving, Absent
<1>6. CASE Decide(w) /\ ~NextCandidate(w)
  <2>1. worker[w].seen.receives \in Nat /\ lease' = lease /\ worker[w].pc = "decide"
    BY <1>6, Numeric DEF Decide, store
  <2>2. \/ Absent(worker[w].seen) /\ Claim(w, "write", 1)
        \/ /\ ~Absent(worker[w].seen) /\ Expired(worker[w].seen.until)
           /\ \/ Claim(w, "hold", worker[w].seen.receives)
              \/ Claim(w, "write", worker[w].seen.receives + 1)
    BY <1>6 DEF Decide
  <2>3. /\ worker'[w].seen = worker[w].seen /\ worker'[w].id = i
        /\ worker'[w].rpc = worker[w].rpc /\ worker'[w].pc \in {"write", "hold"}
    BY <2>1, <2>2, ClaimMoves, SMTT(30)
  <2>4. \/ /\ worker'[w].pc = "write" /\ worker'[w].receives = worker[w].seen.receives + 1
           /\ Absent(worker[w].seen) \/ Expired(worker[w].seen.until)
        \/ /\ worker'[w].pc = "hold" /\ worker'[w].receives = worker[w].seen.receives
           /\ ~Absent(worker[w].seen) /\ Expired(worker[w].seen.until)
    <3>1. Absent(worker[w].seen) => worker[w].seen.receives = 0
      BY <1>3, <2>1, NoLeaseFields DEF Remembered
    <3>2. QED
      BY <2>1, <2>2, <3>1, ClaimMoves, SMTT(30)
  <2>5. Remembered(w)'
    BY <1>3, <2>1, <2>3, <2>4 DEF Remembered, Absent, Expired
  <2>6. QED
    BY <1>2, <2>3, <2>5 DEF WorkerInv, Threads, Claimed, Holding, Moving
<1>7. CASE WriteLease(w) /\ ~NextCandidate(w)
  <2>1. worker[w].newUntil \in Durations /\ worker[w].receives \in Nat
    BY <1>2 DEF Local
  <2>2. PutLease(i, w, worker[w].newUntil, worker[w].receives)
    BY <1>7 DEF WriteLease
  <2>3. /\ lease'[i].owner = w /\ lease'[i].until = worker[w].newUntil
        /\ lease'[i].receives = worker[w].receives /\ lease'[i].version # NoVersion
    BY <1>1, <2>1, <2>2, PutLeaseEffect, SMTT(30) DEF TypeInv
  <2>4. /\ worker'[w].pc \in {"readback", "holdback"} /\ worker'[w].rpc = worker[w].rpc
        /\ worker'[w].id = i /\ worker'[w].newUntil = worker[w].newUntil
        /\ worker'[w].receives = worker[w].receives
    BY <1>2, <1>7, SMTT(30) DEF WriteLease, TypeInv, TypeOK, Local
  <2>5. Remembered(w)' /\ Threads(w)'
    BY <1>2, <2>4 DEF Remembered, Threads, Holding
  <2>6. Claimed(w)'
    BY <1>2, <2>3, <2>4, Numeric, SMTT(30) DEF Claimed, Backs, Mine, Absent, Holding, Moving
  <2>7. QED
    BY <2>5, <2>6, SMTT(30) DEF WorkerInv
<1>8. CASE ReadBack(w) /\ ~NextCandidate(w)
  <2>1. CASE Stop(w)
    BY <2>1, StopPC, NothingClaimed
  <2>2. CASE ~Stop(w)
    <3>1. /\ ~Absent(lease[i]) /\ lease' = lease /\ payload' = payload
          /\ worker[w].pc \in {"readback", "holdback"}
      BY <1>8, <2>2, SMTT(30) DEF ReadBack, store
    <3>2. /\ worker'[w].pc \in {"verify", "deadattrs"} /\ worker'[w].rpc = worker[w].rpc
          /\ worker'[w].id = i /\ worker'[w].leaseUntil = worker[w].newUntil
          /\ worker'[w].receives = worker[w].receives /\ worker'[w].version = lease[i].version
      BY <1>2, <1>8, <2>2, SMTT(30) DEF ReadBack, TypeInv, TypeOK, Local
    <3>3. Remembered(w)' /\ Threads(w)'
      BY <1>2, <3>1, <3>2 DEF Remembered, Threads, Holding, Absent
    <3>4. Claimed(w)'
      BY <1>2, <1>3, <3>1, <3>2 DEF Claimed, Backs, Mine, Absent, Holding, Moving
    <3>5. QED
      BY <3>3, <3>4, SMTT(30) DEF WorkerInv
  <2>3. QED
    BY <2>1, <2>2
<1>9. CASE Verify(w)
  <2>1. lease' = lease /\ payload' = payload /\ worker[w].pc = "verify"
    BY <1>9 DEF Verify, store
  <2>2. CASE payload[i] # 0
    <3>1. /\ worker'[w].pc = "held" /\ worker'[w].rpc = "wait"
          /\ worker'[w].id = i /\ worker'[w].leaseUntil = worker[w].leaseUntil
          /\ worker'[w].receives = worker[w].receives /\ worker'[w].version = worker[w].version
      BY <1>2, <1>9, <2>2, SMTT(30) DEF Verify, TypeInv, TypeOK, Local
    <3>2. Remembered(w)' /\ Threads(w)'
      BY <1>3, <2>1, <3>1 DEF Remembered, Threads, Holding
    <3>3. Claimed(w)'
      BY <1>3, <2>1, <3>1 DEF Claimed, Backs, Mine, Absent, Holding, Moving
    <3>4. QED
      BY <3>2, <3>3, SMTT(30) DEF WorkerInv
  <2>3. CASE payload[i] = 0
    <3>1. worker'[w].pc = "drop" /\ worker'[w].rpc = worker[w].rpc
      BY <1>2, <1>9, <2>3, SMTT(30) DEF Verify, TypeInv, TypeOK, Local
    <3>2. QED
      BY <1>2, <3>1, NothingClaimed
  <2>4. QED
    BY <2>2, <2>3
<1>10. QED
  BY <1>4, <1>5, <1>6, <1>7, <1>8, <1>9 DEF Receive, Drop

LEMMA ClaimDeadLetter ==
  ASSUME TypeInv, NEW w \in Workers, WorkerInv(w), DeadLetter(w)
  PROVE  WorkerInv(w)'
<1> DEFINE i == worker[w].id
<1>1. i \in Ids /\ worker[w].pc \in Moving
  BY DEF DeadLetter, DeadAttributes, DeadRead, DeadWrite, DeadDeletePayload, DeadDeleteLease,
         TypeInv, Started, Moving
<1>2. worker[w] \in Local /\ worker[w].rpc \in {"none", "exited"}
  BY <1>1, NoRenewer, Numeric DEF Moving, Holding
<1>3. CASE DeadDeleteLease(w)
  BY <1>3, NextPC, NothingClaimed DEF DeadDeleteLease
<1>4. CASE ~DeadDeleteLease(w)
  <2>1. /\ worker'[w].pc \in Moving /\ worker'[w].rpc = worker[w].rpc
        /\ worker'[w].id = i /\ worker'[w].leaseUntil = worker[w].leaseUntil
        /\ worker'[w].receives = worker[w].receives
    BY <1>2, <1>4, SMTT(30)
    DEF DeadLetter, DeadAttributes, DeadRead, DeadWrite, DeadDeletePayload, TypeInv, TypeOK,
        Local, Moving
  <2>2. lease' = lease
    BY <1>4, SMTT(30) DEF DeadLetter, DeadAttributes, DeadRead, DeadWrite, DeadDeletePayload, store
  <2>3. payload'[i] # 0 => payload[i] # 0
    BY <1>1, <1>4, DeletePayloadEffect, SMTT(30)
    DEF DeadLetter, DeadAttributes, DeadRead, DeadWrite, DeadDeletePayload, store, TypeInv
  <2>4. Remembered(w)' /\ Threads(w)'
    BY <1>2, <2>1 DEF Remembered, Threads, Holding, Moving
  <2>5. Backs(w, worker[w].leaseUntil) => Backs(w, worker[w].leaseUntil)'
    BY <2>1, <2>2 DEF Backs, Mine, Absent
  <2>6. Claimed(w)'
    BY <1>1, <1>2, <2>1, <2>3, <2>5 DEF WorkerInv, Claimed, Moving, Holding, Backs
  <2>7. QED
    BY <2>4, <2>6, SMTT(30) DEF WorkerInv
<1>5. QED
  BY <1>3, <1>4, SMTT(30)

LEMMA ClaimRenewer ==
  ASSUME TypeInv, NEW w \in Workers, WorkerInv(w), Renewer(w) \/ RenewCallFails(w)
  PROVE  WorkerInv(w)'
<1> DEFINE i == worker[w].id
           Kept == /\ worker'[w].pc = worker[w].pc /\ worker'[w].id = i
                   /\ worker'[w].receives = worker[w].receives /\ payload' = payload
<1>1. worker[w] \in Local /\ worker[w].rpc \in {"wait", "write", "readback"}
  BY Numeric DEF Renewer, RenewTick, RenewWrite, RenewReadBack, RenewExit, RenewCallFails
<1>2. Threads(w) /\ Claimed(w)
  BY DEF WorkerInv
<1>3. worker[w].pc \in Holding /\ worker[w].version # NoVersion
  BY <1>1, <1>2 DEF Threads
<1>4. i \in Ids
  BY <1>3 DEF TypeInv, Started, Holding
<1>5. Kept
  BY <1>1, SMTT(30)
  DEF Renewer, RenewTick, RenewWrite, RenewReadBack, RenewExit, RenewLost, RenewCallFails,
      TypeInv, TypeOK, Local, store
<1>6. Remembered(w)'
  BY <1>3, <1>5 DEF Remembered, Holding
\* Whatever else happens, the lease runs as long as the worker believes.
<1>7. ASSUME worker'[w].leaseUntil = worker[w].leaseUntil, worker'[w].version = worker[w].version,
             lease' = lease, worker'[w].rpc \in {"wait", "exited"}
      PROVE  WorkerInv(w)'
  <2>1. Threads(w)'
    BY <1>3, <1>5, <1>7 DEF Threads
  <2>2. Claimed(w)'
    BY <1>2, <1>3, <1>5, <1>7 DEF Claimed, Backs, Mine, Absent, Holding, Moving
  <2>3. QED
    BY <1>6, <2>1, <2>2 DEF WorkerInv
<1>8. CASE RenewTick(w) /\ Expired(worker[w].leaseUntil)
  <2>1. /\ worker'[w].leaseUntil = worker[w].leaseUntil /\ worker'[w].rpc = "exited"
        /\ worker'[w].version = worker[w].version /\ lease' = lease
    BY <1>1, <1>8, SMTT(30) DEF RenewTick, TypeInv, TypeOK, Local, store
  <2>2. QED
    BY <1>7, <2>1, SMTT(30)
<1>9. CASE RenewTick(w) /\ ~Expired(worker[w].leaseUntil)
  <2>1. /\ worker'[w].leaseUntil = worker[w].leaseUntil /\ worker'[w].rpc = "write"
        /\ worker'[w].version = worker[w].version /\ worker'[w].newUntil = Lease /\ lease' = lease
    BY <1>1, <1>9, SMTT(30) DEF RenewTick, TypeInv, TypeOK, Local, store
  <2>2. Threads(w)'
    BY <1>3, <1>5, <2>1, Numeric DEF Threads
  <2>3. payload[i] # 0 => Mine(w) /\ lease[i].until >= worker[w].leaseUntil
    BY <1>2, <1>3, <1>9 DEF Claimed, Backs, Holding, Expired
  <2>4. Claimed(w)'
    BY <1>3, <1>5, <2>1, <2>3 DEF Claimed, Backs, Mine, Absent, Holding, Moving
  <2>5. QED
    BY <1>6, <2>2, <2>4, SMTT(30) DEF WorkerInv
<1>10. CASE RenewWrite(w) /\ Passes(i, worker[w].version)
  <2>1. worker[w].newUntil \in Durations /\ worker[w].receives \in Nat
    BY <1>1 DEF Local
  <2>2. PutLease(i, w, worker[w].newUntil, worker[w].receives)
    BY <1>10 DEF RenewWrite
  <2>3. /\ lease'[i].owner = w /\ lease'[i].until = worker[w].newUntil
        /\ lease'[i].receives = worker[w].receives /\ lease'[i].version # NoVersion
    BY <1>4, <2>1, <2>2, PutLeaseEffect, SMTT(30) DEF TypeInv
  <2>4. /\ worker'[w].leaseUntil = worker[w].leaseUntil /\ worker'[w].rpc = "readback"
        /\ worker'[w].version = worker[w].version /\ worker'[w].newUntil = worker[w].newUntil
        /\ worker[w].leaseUntil <= worker[w].newUntil
    BY <1>1, <1>2, <1>10, SMTT(30) DEF RenewWrite, TypeInv, TypeOK, Local, Threads
  <2>5. Threads(w)'
    BY <1>3, <1>5, <2>4 DEF Threads
  <2>6. Claimed(w)'
    BY <1>3, <1>5, <2>3, <2>4, Numeric, SMTT(30) DEF Claimed, Backs, Mine, Absent, Holding, Moving
  <2>7. QED
    BY <1>6, <2>5, <2>6, SMTT(30) DEF WorkerInv
<1>11. CASE RenewWrite(w) /\ ~Passes(i, worker[w].version)
  <2>1. /\ worker'[w].leaseUntil = worker[w].leaseUntil /\ worker'[w].rpc = "exited"
        /\ worker'[w].version = worker[w].version /\ lease' = lease
    BY <1>1, <1>11, SMTT(30) DEF RenewWrite, RenewLost, TypeInv, TypeOK, Local
  <2>2. QED
    BY <1>7, <2>1, SMTT(30)
<1>12. CASE RenewReadBack(w) /\ ~Absent(lease[i])
  <2>1. /\ worker'[w].leaseUntil = worker[w].newUntil /\ worker'[w].rpc = "wait"
        /\ worker'[w].version = lease[i].version /\ lease' = lease
    BY <1>1, <1>12, SMTT(30) DEF RenewReadBack, TypeInv, TypeOK, Local, store
  <2>2. Threads(w)'
    BY <1>3, <1>5, <1>12, <2>1 DEF Threads, Absent
  <2>3. payload[i] # 0 => Backs(w, worker[w].newUntil)
    BY <1>2, <1>3, <1>12 DEF Claimed, RenewReadBack, Holding
  <2>4. Claimed(w)'
    BY <1>3, <1>5, <2>1, <2>3 DEF Claimed, Backs, Mine, Absent, Holding, Moving
  <2>5. QED
    BY <1>6, <2>2, <2>4, SMTT(30) DEF WorkerInv
<1>13. CASE RenewReadBack(w) /\ Absent(lease[i])
  <2>1. /\ worker'[w].leaseUntil = worker[w].leaseUntil /\ worker'[w].rpc = "exited"
        /\ worker'[w].version = worker[w].version /\ lease' = lease
    BY <1>1, <1>13, SMTT(30) DEF RenewReadBack, RenewLost, TypeInv, TypeOK, Local, store
  <2>2. QED
    BY <1>7, <2>1, SMTT(30)
<1>14. CASE RenewExit(w) \/ RenewCallFails(w)
  <2>1. /\ worker'[w].leaseUntil = worker[w].leaseUntil /\ worker'[w].rpc \in {"wait", "exited"}
        /\ worker'[w].version = worker[w].version /\ lease' = lease
    BY <1>1, <1>14, SMTT(30) DEF RenewExit, RenewCallFails, TypeInv, TypeOK, Local, store
  <2>2. QED
    BY <1>7, <2>1, SMTT(30)
<1>15. QED
  BY <1>8, <1>9, <1>10, <1>11, <1>12, <1>13, <1>14 DEF Renewer

LEMMA ClaimSettle ==
  ASSUME TypeInv, NEW w \in Workers, WorkerInv(w), Ack(w) \/ Nack(w) \/ Settle(w)
  PROVE  WorkerInv(w)'
<1> DEFINE i == worker[w].id
<1>1. worker[w] \in Local /\ Threads(w) /\ Claimed(w)
  BY Numeric DEF WorkerInv
<1>2. CASE Ack(w) \/ Nack(w)
  <2>1. /\ worker[w].pc = "held" /\ worker'[w].pc \in {"ackstop", "nackstop"}
        /\ worker'[w].rpc = worker[w].rpc /\ worker'[w].id = i
        /\ worker'[w].receives = worker[w].receives /\ worker'[w].version = worker[w].version
        /\ worker'[w].newUntil = worker[w].newUntil
        /\ worker'[w].leaseUntil = worker[w].leaseUntil
    BY <1>1, <1>2, SMTT(30) DEF Ack, Nack, TypeInv, TypeOK, Local
  <2>2. UNCHANGED <<payload, lease>>
    BY <1>2, SMTT(30) DEF Ack, Nack, store
  <2>3. Remembered(w)' /\ Threads(w)'
    BY <1>1, <2>1 DEF Remembered, Threads, Holding
  <2>4. Claimed(w)'
    BY <1>1, <2>1, <2>2 DEF Claimed, Backs, Mine, Passes, Absent, Holding, Moving
  <2>5. QED
    BY <2>3, <2>4 DEF WorkerInv
<1>3. CASE SettleJoin(w)
  <2>1. worker'[w].pc \in {"ackget", "nackget"} /\ worker'[w].rpc = "exited"
    BY <1>1, <1>3, SMTT(30) DEF SettleJoin, TypeInv, TypeOK, Local
  <2>2. QED
    BY <2>1, NothingClaimed
<1>4. CASE Stop(w)
  BY <1>4, StopPC, NothingClaimed
<1>5. CASE SettleGet(w) /\ ~Stop(w)
  <2>1. worker[w].rpc \in {"none", "exited"}
    BY <1>5, NoRenewer DEF SettleGet, Holding
  <2>2. /\ worker'[w].pc \in {"ackdellease", "nackwrite"} /\ worker'[w].rpc = worker[w].rpc
        /\ worker'[w].id = i /\ worker'[w].seen = lease[i] /\ lease' = lease
        /\ ~Absent(lease[i]) /\ lease[i].owner = w
    BY <1>1, <1>5, SMTT(30) DEF SettleGet, TypeInv, TypeOK, Local, store
  <2>3. QED
    BY <2>1, <2>2 DEF WorkerInv, Remembered, Threads, Claimed, Holding, Moving, Absent
<1>6. CASE AckDeleteLease(w) /\ ~Stop(w)
  <2>1. worker[w].rpc \in {"none", "exited"}
    BY <1>6, NoRenewer, SMTT(30) DEF AckDeleteLease, Holding
  <2>2. worker'[w].pc = "ackdelmsg" /\ worker'[w].rpc = worker[w].rpc
    BY <1>1, <1>6, SMTT(30) DEF AckDeleteLease, TypeInv, TypeOK, Local
  <2>3. QED
    BY <2>1, <2>2, NothingClaimed, SMTT(30)
<1>7. QED
  BY <1>2, <1>3, <1>4, <1>5, <1>6 DEF Settle, AckDeletePayload, NackWrite

\* Who changes a lease does no harm to the other workers.
LEMMA StepHarmless ==
  ASSUME TypeInv, RemovalInv, NEW w \in Workers, WorkerInv(w), WorkerStep(w), lease' # lease,
         NEW v \in Workers \ {w}, worker[v].id = worker[w].id
  PROVE  Harmless(v)
<1> DEFINE i == worker[w].id
<1>1. i \in Ids /\ (lease'[i] = NoLease \/ Fresh(i))
  BY StepShape, StepBusy DEF Shape
<1>2. Remembered(w) /\ Threads(w) /\ Claimed(w) /\ Reason(w)
  BY SMTT(30) DEF WorkerInv, RemovalInv
<1>3. \/ WriteLease(w) \/ Drop(w) \/ DeadDeleteLease(w) \/ RenewWrite(w)
      \/ AckDeleteLease(w) \/ NackWrite(w)
  BY DEF WorkerStep, Receive, GetLease, Decide, ReadBack, Verify, DeadLetter, DeadAttributes,
     DeadRead, DeadWrite, DeadDeletePayload, Renewer, RenewTick, RenewReadBack, RenewExit,
     RenewCallFails, Abandon, Ack, Nack, Settle, SettleJoin, SettleGet, AckDeletePayload, store
<1>4. CASE WriteLease(w)
  <2>1. Passes(i, worker[w].seen.version) /\ worker[w].pc \in {"write", "hold"}
    BY <1>4, SMTT(30) DEF WriteLease
  <2>2. Expired(lease[i].until)
    BY <1>2, <2>1, NoLeaseFields, SMTT(30) DEF Passes, Remembered, Expired
  <2>3. QED
    BY <1>1, <2>2, SMTT(30) DEF Harmless
<1>5. CASE Drop(w) \/ DeadDeleteLease(w)
  <2>1. payload[i] = 0 /\ payload' = payload
    BY <1>2, <1>5 DEF Reason, Drop, DeadDeleteLease
  <2>2. QED
    BY <1>1, <2>1 DEF Harmless
<1>6. CASE RenewWrite(w)
  <2>1. Passes(i, worker[w].version) /\ payload' = payload /\ worker[w].rpc = "write"
    BY <1>6 DEF RenewWrite
  <2>2. payload[i] = 0 \/ lease[i].owner = w
    BY <1>2, <2>1, StepBusy DEF Claimed, Mine
  <2>3. QED
    BY <1>1, <2>1, <2>2 DEF Harmless
<1>7. CASE AckDeleteLease(w) \/ NackWrite(w)
  <2>1. Passes(i, worker[w].seen.version) /\ worker[w].pc \in {"ackdellease", "nackwrite"}
    BY <1>7, SMTT(30) DEF AckDeleteLease, NackWrite
  <2>2. lease[i].owner = w
    BY <1>2, <2>1, SMTT(30) DEF Passes, Remembered
  <2>3. QED
    BY <1>1, <2>2 DEF Harmless
<1>8. QED
  BY <1>3, <1>4, <1>5, <1>6, <1>7

LEMMA ClaimWorker ==
  ASSUME TypeInv, StoreInv, RemovalInv, \A v \in Workers : WorkerInv(v),
         NEW w \in Workers, WorkerStep(w)
  PROVE  \A v \in Workers : WorkerInv(v)'
<1>1. WorkerInv(w)'
  <2>1. CASE Abandon(w)
    BY <2>1, StopPC, NothingClaimed DEF Abandon
  <2>2. QED
    BY <2>1, ClaimReceive, ClaimDeadLetter, ClaimRenewer, ClaimSettle DEF WorkerStep
<1>2. ASSUME NEW v \in Workers \ {w} PROVE WorkerInv(v)'
  <2>1. worker'[v] = worker[v] /\ Shape(w) /\ worker[w].id \in Ids
    BY StepShape, StepBusy DEF Shape, Moves
  <2>2. ASSUME worker[v].pc # "idle"
        PROVE  Harmless(v) /\ (payload'[worker[v].id] # 0 => payload[worker[v].id] # 0)
    <3>1. worker[v].id \in Ids
      BY <2>2 DEF TypeInv, Started
    <3>2. payload'[worker[v].id] # 0 => payload[worker[v].id] # 0
      BY <2>1, <3>1 DEF Shape
    <3>3. CASE worker[v].id = worker[w].id /\ lease' # lease
      BY <3>2, <3>3, StepHarmless
    <3>4. CASE worker[v].id # worker[w].id \/ lease' = lease
      BY <2>1, <3>1, <3>2, <3>4, SMTT(30) DEF Shape, Harmless
    <3>5. QED
      BY <3>3, <3>4
  <2>3. QED
    BY <2>1, <2>2, Bystander
<1>3. QED
  BY <1>1, <1>2

\* Time takes from the record and from the worker's deadline alike.
LEMMA ClaimTick ==
  ASSUME TypeInv, Tick, NEW w \in Workers, WorkerInv(w)
  PROVE  WorkerInv(w)'
<1> DEFINE i == worker[w].id
<1>1. Remembered(w) /\ Threads(w) /\ Claimed(w) /\ payload' = payload
  BY DEF WorkerInv, Tick
<1>2. CASE worker[w].pc = "idle"
  BY <1>2, TickWorker, NothingClaimed DEF TypeInv, Started
<1>3. CASE worker[w].pc # "idle"
  <2>1. i \in Ids
    BY <1>3 DEF TypeInv, Started
  <2>2. Threads(w)'
    <3>1. worker[w].leaseUntil <= worker[w].newUntil
            => Less(worker[w].leaseUntil) <= Less(worker[w].newUntil)
      BY Numeric, SMTT(30) DEF Less
    <3>2. QED
      BY <1>1, <3>1, TickWorker DEF Threads
  <2>3. Remembered(w)'
    <3>1. worker[w].seen \in LeaseRecord /\ lease[i] \in LeaseRecord
      BY <2>1, Numeric, SMTT(30) DEF TypeInv, TypeOK, Local
    <3>2. lease'[i] = [lease[i] EXCEPT !.until = Less(lease[i].until)]
      BY <2>1 DEF Tick
    <3>3. worker'[w].seen = [worker[w].seen EXCEPT !.until = Less(worker[w].seen.until)]
      BY TickWorker, SMTT(30)
    <3>4. /\ worker'[w].seen.version = worker[w].seen.version
          /\ worker'[w].seen.owner = worker[w].seen.owner
          /\ worker'[w].seen.receives = worker[w].seen.receives
          /\ worker'[w].seen.until = Less(worker[w].seen.until)
          /\ lease'[i].version = lease[i].version
      BY <3>1, <3>2, <3>3 DEF LeaseRecord
    <3>5. worker[w].seen = NoLease => worker'[w].seen = NoLease
      BY <3>3, SMTT(30) DEF NoLease, Less
    <3>6. worker[w].seen = lease[i] => worker'[w].seen = lease'[i]
      BY <3>2, <3>3
    <3>7. Expired(worker[w].seen.until) => Expired(worker'[w].seen.until)
      BY <3>4 DEF Expired, Less
    <3>8. QED
      BY <1>1, <3>4, <3>5, <3>6, <3>7, TickWorker DEF Remembered, Absent
  <2>4. Claimed(w)'
    <3>1. Mine(w) => Mine(w)'
      BY <2>1, TickWorker, TickLease DEF Mine, Absent
    <3>2. ASSUME NEW u \in Nat, Backs(w, u)
          PROVE  Less(u) # 0 => Mine(w)' /\ lease'[i].until >= Less(u)
      <4> SUFFICES ASSUME Less(u) # 0 PROVE Mine(w)' /\ lease'[i].until >= Less(u)
        OBVIOUS
      <4>1. Mine(w) /\ lease[i].until >= u /\ lease[i].until \in Nat
        BY <2>1, <3>2, Numeric DEF Backs, Less
      <4>2. lease'[i].until = Less(lease[i].until)
        BY <2>1, TickLease
      <4>3. Less(lease[i].until) >= Less(u)
        BY <4>1, SMTT(30) DEF Less
      <4>4. QED
        BY <3>1, <4>1, <4>2, <4>3
    <3>3. Passes(i, worker[w].version)' => Passes(i, worker[w].version)
      BY <2>1, TickWorker, TickLease DEF Passes
    <3>4. /\ Backs(w, worker[w].newUntil) => Backs(w, worker[w].newUntil)'
          /\ Backs(w, worker[w].leaseUntil) => Backs(w, worker[w].leaseUntil)'
      <4>1. /\ worker'[w].newUntil = Less(worker[w].newUntil)
            /\ worker'[w].leaseUntil = Less(worker[w].leaseUntil)
        BY TickWorker
      <4>2. worker[w].newUntil \in Nat /\ worker[w].leaseUntil \in Nat
        BY Numeric
      <4>3. worker'[w].id = i
        BY TickWorker
      <4>4. QED
        BY <3>2, <4>1, <4>2, <4>3 DEF Backs
    <3>5. QED
      BY <1>1, <3>1, <3>3, <3>4, TickWorker DEF Claimed
  <2>5. QED
    BY <2>2, <2>3, <2>4 DEF WorkerInv
<1>4. QED
  BY <1>2, <1>3, SMTT(30)

LEMMA ClaimStep ==
  ASSUME TypeInv, NoReuse, StoreInv, RemovalInv, TrimInv, \A v \in Workers : WorkerInv(v),
         [Next]_vars
  PROVE  \A v \in Workers : WorkerInv(v)'
<1>1. ASSUME worker' = worker,
             \A i \in Ids : \/ lease'[i] = lease[i]
                            \/ lease'[i] = NoLease /\ payload'[i] = 0,
             \A v \in Workers : worker[v].pc # "idle" /\ payload[worker[v].id] = 0
                                  => payload'[worker[v].id] = 0
      PROVE  \A v \in Workers : WorkerInv(v)'
  <2> TAKE v \in Workers
  <2>1. worker[v].pc # "idle" => Harmless(v)
    BY <1>1 DEF Harmless, TypeInv, Started
  <2>2. worker'[v] = worker[v] /\ WorkerInv(v)
    BY <1>1
  <2>3. QED
    BY <1>1, <2>1, <2>2, Bystander
<1>2. ASSUME NEW i \in Ids, Enqueue(i) \/ EnqueueWithID(i) PROVE \A v \in Workers : WorkerInv(v)'
  <2>1. /\ worker' = worker /\ lease' = lease /\ enqueued[i] = 0
        /\ \A j \in Ids \ {i} : payload'[j] = payload[j]
    BY <1>2, OneEnqueue, SMTT(30) DEF Enqueue, EnqueueWithID, WritePayload, NoReuse, TypeInv, TypeOK
  <2>2. \A v \in Workers : worker[v].pc # "idle" => worker[v].id \in Ids \ {i}
    BY <2>1 DEF StoreInv, TypeInv, Started
  <2>3. QED
    BY <1>1, <2>1, <2>2
<1>3. ASSUME NEW w \in Workers, TryReceive(w) PROVE \A v \in Workers : WorkerInv(v)'
  <2>1. PICK i \in Window : Try(w, i, Window \ {i})
    BY <1>3 DEF TryReceive
  <2>2. i \in Ids /\ Window \ {i} \in SUBSET Ids
    BY DEF Window
  <2>3. Moves(w) /\ worker'[w].pc = "get" /\ worker'[w].rpc = "none"
    BY <2>1, <2>2, TryMoves, StartFields, SMTT(30)
  <2>4. WorkerInv(w)'
    BY <2>3, NothingClaimed
  <2>5. ASSUME NEW v \in Workers \ {w} PROVE WorkerInv(v)'
    <3>1. worker'[v] = worker[v] /\ UNCHANGED <<payload, lease>>
      BY <1>3, <2>3 DEF Moves, TryReceive, store
    <3>2. QED
      BY <3>1, Bystander, SMTT(30) DEF Harmless
  <2>6. QED
    BY <2>4, <2>5
<1>4. CASE TrimDeleteLease
  <2>1. UNCHANGED <<worker, payload>>
    BY <1>4 DEF TrimDeleteLease
  <2>2. \A i \in Ids : lease'[i] \in {lease[i], NoLease}
    BY <1>4, OldestIsThere, DeleteLeaseEffect DEF TrimDeleteLease, TypeInv
  <2>3. \A i \in Ids : payload[i] # 0 => lease'[i] = lease[i]
    BY <1>4, TrimSparesMessages
  <2>4. QED
    BY <1>1, <2>1, <2>2, <2>3
<1>5. CASE TrimDeletePayload
  <2>1. UNCHANGED <<worker, lease>> /\ \A i \in Ids : payload'[i] \in {payload[i], 0}
    BY <1>5, OldestIsThere, DeletePayloadEffect DEF TrimDeletePayload, TypeInv
  <2>2. QED
    BY <1>1, <2>1 DEF TypeInv, Started
<1>6. CASE UNCHANGED <<worker, lease, payload>>
  BY <1>1, <1>6
<1>7. CASE TrimStart \/ TrimListLeases \/ TrimEnd \/ TrimFails \/ Age \/ UNCHANGED vars
  BY <1>6, <1>7 DEF TrimStart, TrimListLeases, TrimEnd, TrimFails, Age, vars, store
<1>8. CASE Tick
  BY <1>8, ClaimTick
<1>9. QED
  BY <1>2, <1>3, <1>4, <1>5, <1>7, <1>8, ClaimWorker DEF Next, WorkerStep, Trim
=============================================================================
