---------------------------- MODULE WatcherProofs ----------------------------
(***************************************************************************)
(* Proofs about the replication bridge: for every number of instances, any *)
(* pages, lags and leases, and every pattern of crashes and pauses.        *)
(***************************************************************************)
EXTENDS Watcher, TLAPS, FiniteSetTheorems, WellFoundedInduction

\* A leaf goes to Zenon unless it names another prover.
USE ZenonT(30)

\* What the bridge relies on.  Every id of the source log embeds a time, and the
\* cursor lag is longer than it takes to write a payload.
AllTimed == Untimed = {}
LagCovers == Latency < Lag

-----------------------------------------------------------------------------
(* The inductive invariant.                                                *)

\* Where there is a page at hand it is of messages that were in the log.
Paging(w) ==
  /\ inst[w].todo \subseteq stamped
  /\ inst[w].pc \in {"read", "enqueue"} => inst[w].todo # {}

TypeInv ==
  /\ TypeOK
  /\ IsFiniteSet(source)
  /\ \A w \in Watchers : Paging(w)

\* Too late for i to appear.
Closed(i) == i \in stamped \/ now > Stamp(i) + Latency

\* Every message up to c was enqueued locally or is gone, and no other will come.
Passed(c) == \A i \in Ids : i <= c => Closed(i) /\ (i \in source => i \in ever)

\* So are those of a page but for the ones still to do.
Handled(w) ==
  inst[w].pc \in {"read", "enqueue", "write"} =>
    /\ \A i \in Ids : i <= inst[w].next =>
         Closed(i) /\ (i \in source => i \in ever \/ i \in inst[w].todo)
    /\ inst[w].pc = "write" => inst[w].todo = {}

SkipInv ==
  /\ Passed(cursor.at)
  /\ \A w \in Watchers : Passed(inst[w].at) /\ Handled(w)

\* What an instance knows of the cursor is true as long as its version is: a version
\* is nobody else's, unless it was adopted.
Knows(w) ==
  /\ inst[w].pc \in {"acquired", "attrs"} => inst[w].at = 0
  /\ inst[w].pc \in {"check", "page", "read", "enqueue", "write"} =>
       inst[w].adopted \/ inst[w].version # cursor.version \/ inst[w].at = cursor.at
  /\ inst[w].pc \in {"read", "enqueue", "write"} => inst[w].at <= inst[w].next

KnowInv == \A w \in Watchers : Knows(w)

\* The inductive invariant of the bridge (watcher.go:140-290).
WatchInv == TypeInv /\ SkipInv /\ KnowInv

-----------------------------------------------------------------------------
(* Numbers.                                                                *)

\* Every set of numbers that is not empty has a least member.
LEMMA Least ==
  ASSUME NEW S \in SUBSET Nat, S # {}
  PROVE  \E x \in S : \A y \in S : x <= y
<1>1. PICK x \in S : \A y \in S : ~ (<<y, x>> \in OpToRel(<, Nat))
  BY NatLessThanWellFounded, WFMin
<1>2. \A y \in S : ~ (y < x)
  BY <1>1 DEF OpToRel
<1>3. QED
  BY <1>2, SMTT(30)

\* A finite set of numbers is bounded: otherwise there would be a smallest one
\* that is not, and it would be no smaller without one of its members.
LEMMA FiniteIsBounded ==
  ASSUME NEW S \in SUBSET Nat, IsFiniteSet(S)
  PROVE  \E b \in Nat : \A x \in S : x <= b
<1> DEFINE Bounded(T) == \E b \in Nat : \A x \in T : x <= b
           Bad == {n \in Nat : \E T \in SUBSET Nat :
                      IsFiniteSet(T) /\ ~Bounded(T) /\ Cardinality(T) = n}
<1>1. CASE Bad = {}
  <2>1. Cardinality(S) \in Nat
    BY FS_CardinalityType
  <2>2. QED
    BY <1>1, <2>1
<1>2. CASE Bad # {}
  <2>1. PICK n \in Bad : \A m \in Bad : n <= m
    <3>1. Bad \in SUBSET Nat
      OBVIOUS
    <3>2. QED
      BY <1>2, <3>1, Least
  <2>2. PICK T \in SUBSET Nat : IsFiniteSet(T) /\ ~Bounded(T) /\ Cardinality(T) = n
    BY <2>1
  <2>3. PICK x \in T : TRUE
    BY <2>2
  <2>4. IsFiniteSet(T \ {x}) /\ Cardinality(T \ {x}) = n - 1 /\ T \ {x} \in SUBSET Nat
    BY <2>2, <2>3, FS_RemoveElement
  <2>5. n \in Nat /\ n - 1 \in Nat
    BY <2>1, <2>4, FS_CardinalityType
  <2>6. Bounded(T \ {x})
    BY <2>1, <2>4, <2>5, SMTT(30)
  <2>7. PICK b \in Nat : \A y \in T \ {x} : y <= b
    BY <2>6
  <2>8. \A y \in T : y <= IF x <= b THEN b ELSE x
    BY <2>2, <2>3, <2>7, SMTT(30)
  <2>9. QED
    BY <2>2, <2>3, <2>8
<1>3. QED
  BY <1>1, <1>2

LEMMA Greatest ==
  ASSUME NEW S \in SUBSET Nat, S # {}, IsFiniteSet(S)
  PROVE  \E x \in S : \A y \in S : y <= x
<1> DEFINE B == {b \in Nat : \A y \in S : y <= b}
<1>1. B \in SUBSET Nat /\ B # {}
  BY FiniteIsBounded
<1>2. PICK b \in B : \A c \in B : b <= c
  BY <1>1, Least
<1>3. CASE b \in S
  BY <1>2, <1>3
<1>4. CASE b \notin S
  <2>1. \A y \in S : y < b
    BY <1>2, <1>4, SMTT(30)
  <2>2. b \in Nat /\ b > 0
    <3>1. PICK y \in S : y \in Nat
      OBVIOUS
    <3>2. b \in Nat /\ y < b
      BY <1>2, <2>1
    <3>3. QED
      BY <3>1, <3>2, SMTT(30)
  <2>3. b - 1 \in B
    BY <2>1, <2>2, SMTT(30)
  <2>4. QED
    BY <1>2, <2>2, <2>3, SMTT(30)
<1>5. QED
  BY <1>3, <1>4

LEMMA StampsInOrder ==
  ASSUME NEW i \in Ids, NEW j \in Ids, i <= j
  PROVE  Stamp(i) \in Nat /\ Stamp(j) \in Nat /\ Stamp(i) <= Stamp(j)
<1> DEFINE p == PerTick
<1>1. i \in Nat /\ j \in Nat /\ p \in Nat \ {0}
  BY TailAssumption
<1>2. /\ i \div p \in Nat /\ i = p * (i \div p) + (i % p) /\ 0 <= i % p /\ i % p < p
      /\ j \div p \in Nat /\ j = p * (j \div p) + (j % p) /\ 0 <= j % p /\ j % p < p
  BY <1>1, SMTT(30)
<1>3. ASSUME NEW a \in Nat, NEW b \in Nat, p * a < p * b + p PROVE a <= b
  <2>1. ASSUME b + 1 <= a PROVE p * (b + 1) <= p * a
    BY <1>1, <2>1, SMTT(30)
  <2>2. p * (b + 1) = p * b + p
    BY <1>1, SMTT(30)
  <2>3. p * a \in Nat /\ p * b \in Nat
    BY <1>1, SMTT(30)
  <2>4. QED
    BY <1>1, <1>3, <2>1, <2>2, <2>3, SMTT(30)
<1>4. p * (i \div p) < p * (j \div p) + p
  BY <1>1, <1>2, SMTT(30)
<1>5. QED
  BY <1>2, <1>3, <1>4 DEF Stamp

-----------------------------------------------------------------------------
(* Pages of the log.                                                       *)

\* The cursor of a page is the last of its messages, or the old one.
LEMMA PageEnds ==
  ASSUME NEW S \in SUBSET Ids, IsFiniteSet(S), NEW c \in Cursors, NEW t \in Nat
  PROVE  LET page == Page(S, c, t)
             next == NextCursor(page, c)
         IN  /\ page \subseteq S
             /\ page = {} => next = c
             /\ page # {} => next \in page /\ next > c
<1> DEFINE page == Page(S, c, t)
           next == NextCursor(page, c)
<1>1. page \subseteq S /\ \A i \in page : i > c
  BY DEF Page, Visible
<1>2. CASE page = {}
  BY <1>1, <1>2 DEF NextCursor
<1>3. CASE page # {}
  <2>1. page \in SUBSET Nat /\ IsFiniteSet(page)
    BY <1>1, TailAssumption, FS_Subset
  <2> HIDE DEF page
  <2>2. \E i \in page : \A j \in page : j <= i
    BY <1>3, <2>1, Greatest
  <2>3. next \in page
    BY <1>3, <2>2 DEF NextCursor
  <2>4. QED
    BY <1>1, <1>3, <2>3 DEF page
<1>4. QED
  BY <1>2, <1>3

\* A page leaves out nothing between the cursors, and nothing that could still
\* come: an id that is not there is as old as the last of the page.
LEMMA PageIsComplete ==
  ASSUME AllTimed, LagCovers,
         NEW S \in SUBSET Ids, IsFiniteSet(S), NEW c \in Cursors, NEW t \in Nat,
         Page(S, c, t) # {},
         NEW i \in Ids, i > c, i <= NextCursor(Page(S, c, t), c)
  PROVE  /\ i \in S => i \in Page(S, c, t)
         /\ t > Stamp(i) + Latency
<1> DEFINE page == Page(S, c, t)
           next == NextCursor(page, c)
           Before(k) == {j \in Visible(S, c, t) : j < k}
<1>1. next \in page /\ next \in Visible(S, c, t) /\ Cardinality(Before(next)) < PageSize
  <2>1. next \in page
    BY PageEnds
  <2> HIDE DEF next
  <2>2. QED
    BY <2>1 DEF Page
<1>2. next \in Ids /\ next \in S /\ i \in Nat /\ next \in Nat /\ c \in Nat
  <2>1. next \in S
    <3> HIDE DEF next
    <3>1. QED
      BY <1>1 DEF Visible
  <2> HIDE DEF next
  <2>2. QED
    BY <2>1, TailAssumption, SMTT(30) DEF Cursors
<1>3. \A j \in S : c < j /\ j <= next => ~Gated(j, t)
  BY <1>1 DEF Visible
<1>4. ASSUME i \in S PROVE i \in page
  <2>1. i \in Visible(S, c, t)
    <3>1. \A j \in S : j \in Nat
      BY TailAssumption
    <3>2. \A j \in S : c < j /\ j <= i => ~Gated(j, t)
      BY <1>2, <1>3, <3>1, SMTT(30)
    <3>3. QED
      BY <1>4, <3>2 DEF Visible
  <2>2. Before(i) \subseteq Before(next)
    <3>1. \A j \in Visible(S, c, t) : j \in Nat
      BY TailAssumption DEF Visible
    <3>2. QED
      BY <1>2, <3>1, SMTT(30)
  <2>3. IsFiniteSet(Before(next))
    <3>1. Before(next) \subseteq S
      BY DEF Visible
    <3>2. QED
      BY <3>1, FS_Subset
  <2>4. Cardinality(Before(i)) <= Cardinality(Before(next))
    BY <2>2, <2>3, FS_Subset
  <2>5. Cardinality(Before(i)) \in Nat /\ Cardinality(Before(next)) \in Nat /\ PageSize \in Nat
    BY <2>2, <2>3, FS_Subset, FS_CardinalityType, TailAssumption
  <2>6. Cardinality(Before(i)) < PageSize
    BY <1>1, <2>4, <2>5, SMTT(30)
  <2>7. QED
    BY <2>1, <2>6 DEF Page
<1>5. t > Stamp(i) + Latency
  <2>1. Stamp(i) \in Nat /\ Stamp(next) \in Nat /\ Stamp(i) <= Stamp(next)
    BY <1>2, StampsInOrder
  <2>2. t >= Stamp(next) + Lag
    <3>1. ~Gated(next, t)
      BY <1>1, <1>2, <1>3, PageEnds, SMTT(30)
    <3>2. QED
      BY <2>1, <3>1, TailAssumption, SMTT(30) DEF Gated, AllTimed
  <2>3. QED
    BY <2>1, <2>2, TailAssumption, WatcherAssumption, SMTT(30) DEF LagCovers
<1>6. QED
  BY <1>4, <1>5

-----------------------------------------------------------------------------
(* Type correctness.                                                       *)

LEMMA IdleFields ==
  /\ Idle \in Local /\ Idle.pc = "idle" /\ Idle.at = 0 /\ Idle.todo = {}
BY WatcherAssumption DEF Idle, Local, PC, Cursors, Tokens

\* One instance moves and the others do not.
Moves(w) ==
  /\ inst' = [v \in Watchers |-> inst'[v]]
  /\ \A v \in Watchers \ {w} : inst'[v] = inst[v]

LEMMA OneMoves ==
  ASSUME TypeInv, NEW w \in Watchers, Moves(w), inst'[w] \in Local
  PROVE  inst' \in [Watchers -> Local]
<1>1. \A v \in Watchers : inst'[v] \in Local
  BY DEF TypeInv, TypeOK, Moves
<1>2. QED
  BY <1>1 DEF Moves

LEMMA IdsAreNumbers == Ids \subseteq Nat /\ Cursors \subseteq Nat /\ 0 \in Cursors /\ Ids \subseteq Cursors
BY TailAssumption, SMTT(30) DEF Cursors

\* The next message of a page.
LEMMA CurrentIsThere ==
  ASSUME TypeInv, NEW w \in Watchers, inst[w].pc \in {"read", "enqueue"}
  PROVE  Current(w) \in inst[w].todo /\ Current(w) \in stamped
<1>1. inst[w].todo \in SUBSET Nat /\ inst[w].todo # {} /\ inst[w].todo \subseteq stamped
  BY IdsAreNumbers DEF TypeInv, TypeOK, Paging
<1>2. \E i \in inst[w].todo : \A j \in inst[w].todo : i <= j
  BY <1>1, Least
<1>3. QED
  BY <1>1, <1>2 DEF Current

LEMMA DoneMoves ==
  ASSUME TypeInv, NEW w \in Watchers, inst[w].pc \in {"read", "enqueue"}, Done(w, Current(w))
  PROVE  /\ Moves(w) /\ inst'[w] \in Local
         /\ inst'[w].todo = inst[w].todo \ {Current(w)}
         /\ inst'[w].pc = IF inst'[w].todo = {} THEN "write" ELSE "read"
         /\ inst'[w].at = inst[w].at /\ inst'[w].next = inst[w].next
         /\ inst'[w].version = inst[w].version /\ inst'[w].adopted = inst[w].adopted
<1>1. inst[w] \in Local /\ Current(w) \in inst[w].todo
  BY CurrentIsThere DEF TypeInv, TypeOK
<1>2. inst[w].todo = {Current(w)} <=> inst[w].todo \ {Current(w)} = {}
  BY <1>1
<1>3. Moves(w)
  BY DEF Done, Moves, TypeInv, TypeOK
<1>4. QED
  BY <1>1, <1>2, <1>3 DEF Done, Local, PC, TypeInv, TypeOK

LEMMA GotoMoves ==
  ASSUME TypeInv, NEW w \in Watchers, NEW pc \in PC, Goto(w, pc)
  PROVE  /\ Moves(w) /\ inst'[w] \in Local /\ inst'[w].pc = pc
         /\ inst'[w].todo = inst[w].todo /\ inst'[w].at = inst[w].at
         /\ inst'[w].next = inst[w].next /\ inst'[w].done = inst[w].done
         /\ inst'[w].version = inst[w].version /\ inst'[w].adopted = inst[w].adopted
<1>1. inst[w] \in Local
  BY DEF TypeInv, TypeOK
<1>2. Moves(w) /\ inst'[w] = [inst[w] EXCEPT !.pc = pc]
  BY DEF Goto, Moves, TypeInv, TypeOK
<1>3. QED
  BY <1>1, <1>2 DEF Local

LEMMA IdleMoves ==
  ASSUME TypeInv, NEW w \in Watchers, inst' = [inst EXCEPT ![w] = Idle]
  PROVE  Moves(w) /\ inst'[w] = Idle
BY DEF Moves, TypeInv, TypeOK

LockOK ==
  /\ holder \in Watchers \cup {NoOwner}
  /\ left \in 0 .. Lease
  /\ claim \in [Watchers -> 0 .. Lease]

LEMMA LockType ==
  ASSUME LockOK, NEW w \in Watchers,
         \/ Lock!Grant(w) \/ Lock!Extend(w) \/ Lock!Claim(w) \/ Lock!Yield(w) \/ Lock!Tick
         \/ claim' = [claim EXCEPT ![w] = 0] /\ UNCHANGED <<holder, left>>
         \/ UNCHANGED lock
  PROVE  LockOK'
<1>1. Lease \in Nat /\ 0 \in 0 .. Lease
  BY WatcherAssumption, SMTT(30)
<1>2. CASE Lock!Grant(w)
  BY <1>2 DEF LockOK, Lock!Grant
<1>3. CASE Lock!Extend(w)
  <2>1. claim[w] \in 0 .. Lease /\ left' \in claim[w] .. Lease
    BY <1>3 DEF LockOK, Lock!Extend
  <2>2. left' \in 0 .. Lease
    BY <1>1, <2>1, SMTT(30)
  <2>3. QED
    BY <1>3, <2>2 DEF LockOK, Lock!Extend
<1>4. CASE Lock!Claim(w)
  <2>1. PICK n \in 0 .. Lease : claim' = [claim EXCEPT ![w] = n]
    BY <1>4 DEF Lock!Claim
  <2>2. QED
    BY <1>4, <2>1, SMTT(30) DEF LockOK, Lock!Claim
<1>5. CASE Lock!Yield(w)
  BY <1>1, <1>5 DEF LockOK, Lock!Yield
<1>6. CASE Lock!Tick
  <2>1. \A n \in 0 .. Lease : Lock!Less(n) \in 0 .. Lease
    BY <1>1, SMTT(30) DEF Lock!Less
  <2>2. QED
    BY <1>6, <2>1 DEF LockOK, Lock!Tick
<1>7. CASE claim' = [claim EXCEPT ![w] = 0] /\ UNCHANGED <<holder, left>>
  BY <1>1, <1>7 DEF LockOK
<1>8. CASE UNCHANGED lock
  BY <1>8 DEF LockOK, lock
<1>9. QED
  BY <1>2, <1>3, <1>4, <1>5, <1>6, <1>7, <1>8

\* What the step of an instance does to the lock.
LEMMA LockSteps ==
  ASSUME NEW w \in Watchers,
         Acquire(w) \/ Renew(w) \/ LockLost(w) \/ Step(w) \/ CallFails(w) \/ Crash(w)
  PROVE  \/ Lock!Grant(w) \/ Lock!Extend(w) \/ Lock!Claim(w) \/ Lock!Yield(w)
         \/ claim' = [claim EXCEPT ![w] = 0] /\ UNCHANGED <<holder, left>>
         \/ UNCHANGED lock
BY DEF Acquire, Renew, LockLost, Step, Acquired, ReadVersion, ReadBody, Check, PageSource,
   ReadMessage, EnqueueLocal, WriteCursor, ReadBack, ReleaseLock, CallFails, Crash, Return, lock

\* What a page is, and where the cursor after it stands.
LEMMA PageFields ==
  ASSUME TypeInv, NEW w \in Watchers, PageSource(w)
  PROVE  LET page == Page(source, inst[w].at, now)
             next == NextCursor(page, inst[w].at)
         IN  /\ page \subseteq source /\ next \in Cursors
             /\ page = {} => next = inst[w].at
             /\ page # {} => next \in page /\ next > inst[w].at
             /\ Moves(w) /\ inst'[w] \in Local
             /\ inst'[w].todo = page /\ inst'[w].next = next /\ inst'[w].at = inst[w].at
             /\ inst'[w].pc = IF page = {} THEN "check" ELSE "read"
             /\ inst'[w].version = inst[w].version /\ inst'[w].adopted = inst[w].adopted
<1> DEFINE page == Page(source, inst[w].at, now)
           next == NextCursor(page, inst[w].at)
<1>1. /\ inst[w] \in Local /\ inst[w].at \in Cursors /\ now \in Nat
      /\ source \in SUBSET Ids /\ IsFiniteSet(source)
  BY WatcherAssumption, SMTT(30) DEF TypeInv, TypeOK, Local
<1>2. /\ page \subseteq source
      /\ page = {} => next = inst[w].at
      /\ page # {} => next \in page /\ next > inst[w].at
  BY <1>1, PageEnds
<1>3. inst' = [inst EXCEPT ![w].todo = page, ![w].next = next,
                           ![w].pc = IF next = inst[w].at THEN "check" ELSE "read"]
  BY DEF PageSource
<1> HIDE DEF page, next
<1>4. next \in Cursors /\ page \in SUBSET Ids
  BY <1>1, <1>2, IdsAreNumbers
<1>5. inst[w].at \in Nat /\ next \in Nat
  BY <1>1, <1>4, IdsAreNumbers
<1>6. next = inst[w].at <=> page = {}
  BY <1>2, <1>5, SMTT(30)
<1>7. Moves(w)
  BY <1>3 DEF Moves, TypeInv, TypeOK
<1>8. /\ inst'[w] \in Local /\ inst'[w].todo = page /\ inst'[w].next = next
      /\ inst'[w].at = inst[w].at /\ inst'[w].pc = IF page = {} THEN "check" ELSE "read"
      /\ inst'[w].version = inst[w].version /\ inst'[w].adopted = inst[w].adopted
  BY <1>1, <1>3, <1>4, <1>6 DEF Local, PC, TypeInv, TypeOK
<1>9. QED
  BY <1>2, <1>4, <1>7, <1>8 DEF page, next

\* An instance keeps its own variables in order.
LEMMA InstanceType ==
  ASSUME TypeInv, NEW w \in Watchers,
         Acquire(w) \/ Renew(w) \/ LockLost(w) \/ Step(w) \/ CallFails(w) \/ Crash(w)
  PROVE  /\ Moves(w) /\ inst'[w] \in Local
         /\ inst'[w].todo \subseteq stamped
         /\ inst'[w].pc \in {"read", "enqueue"} => inst'[w].todo # {}
<1>1. /\ inst[w] \in Local /\ Paging(w) /\ cursor.version \in Tokens /\ cursor.at \in Cursors
  BY DEF TypeInv, TypeOK
<1>2. CASE Acquire(w)
  <2>1. Moves(w) /\ inst'[w] = [Idle EXCEPT !.pc = "acquired"]
    BY <1>2 DEF Acquire, Moves, TypeInv, TypeOK
  <2>2. inst'[w] \in Local /\ inst'[w].pc = "acquired" /\ inst'[w].todo = {}
    BY <2>1, IdleFields DEF Local, PC
  <2>3. QED
    BY <2>1, <2>2
<1>3. CASE Renew(w)
  BY <1>1, <1>3 DEF Renew, Moves, Paging, TypeInv, TypeOK
<1>4. CASE LockLost(w) \/ ReadVersion(w) \/ ReadBody(w) \/ ReadBack(w)
  <2>1. Moves(w)
    BY <1>4 DEF LockLost, ReadVersion, ReadBody, ReadBack, Moves, TypeInv, TypeOK
  <2>2. /\ inst'[w] \in Local /\ inst'[w].todo = inst[w].todo
        /\ inst'[w].pc \in {"read", "enqueue"} => inst'[w].pc = inst[w].pc
    <3>1. CASE LockLost(w)
      BY <1>1, <3>1 DEF LockLost, Local, TypeInv, TypeOK
    <3>2. CASE ReadVersion(w)
      BY <1>1, <3>2 DEF ReadVersion, Local, PC, TypeInv, TypeOK
    <3>3. CASE ReadBody(w) \/ ReadBack(w)
      BY <1>1, <3>3, SMTT(30) DEF ReadBody, ReadBack, Local, PC, TypeInv, TypeOK
    <3>4. QED
      BY <1>4, <3>1, <3>2, <3>3
  <2>3. QED
    BY <1>1, <2>1, <2>2 DEF Paging
<1>5. ASSUME NEW pc \in PC, Goto(w, pc), pc \in {"read", "enqueue"} => inst[w].todo # {}
      PROVE  /\ Moves(w) /\ inst'[w] \in Local
             /\ inst'[w].todo \subseteq stamped
             /\ inst'[w].pc \in {"read", "enqueue"} => inst'[w].todo # {}
  BY <1>1, <1>5, GotoMoves DEF Paging
<1>6. CASE Goto(w, "release") \/ Goto(w, "attrs") \/ Goto(w, "page")
  BY <1>5, <1>6 DEF PC
<1>7. CASE PageSource(w)
  BY <1>7, PageFields DEF TypeInv, TypeOK
<1>8. CASE ReadMessage(w) \/ EnqueueLocal(w)
  <2>1. inst[w].pc \in {"read", "enqueue"}
    BY <1>8 DEF ReadMessage, EnqueueLocal
  <2>2. CASE Done(w, Current(w))
    BY <1>1, <2>1, <2>2, DoneMoves DEF Paging
  <2>3. CASE Goto(w, "enqueue")
    BY <1>1, <1>5, <2>1, <2>3 DEF PC, Paging
  <2>4. QED
    BY <1>8, <2>2, <2>3 DEF ReadMessage, EnqueueLocal
<1>9. CASE WriteCursor(w) /\ ~Goto(w, "release")
  <2>1. /\ Moves(w) /\ inst'[w] \in Local
        /\ inst'[w].todo = inst[w].todo /\ inst'[w].pc = "readback"
    BY <1>1, <1>9, SMTT(30) DEF WriteCursor, Return, Moves, Local, PC, TypeInv, TypeOK
  <2>2. QED
    BY <1>1, <2>1 DEF Paging
<1>10. CASE ReleaseLock(w) \/ Crash(w)
  BY <1>10, IdleMoves, IdleFields DEF ReleaseLock, Crash
<1>11. QED
  BY <1>2, <1>3, <1>4, <1>6, <1>7, <1>8, <1>9, <1>10
  DEF Step, Acquired, Check, Return, CallFails, WriteCursor

\* The cursor moves by the write of an instance only.
LEMMA CursorSteps ==
  ASSUME TypeInv, NEW w \in Watchers,
         Acquire(w) \/ Renew(w) \/ LockLost(w) \/ Step(w) \/ CallFails(w) \/ Crash(w)
  PROVE  \/ cursor' = cursor
         \/ /\ WriteCursor(w) /\ inst[w].pc = "write" /\ inst[w].next \in Cursors
            /\ cursor' \in [at : Cursors, version : Tokens]
            /\ cursor'.at = inst[w].next /\ inst'[w].at = inst[w].next
            /\ inst'[w].pc = "readback"
<1>1. CASE WriteCursor(w) /\ cursor' # cursor
  <2>1. inst[w] \in Local /\ inst[w].next \in Cursors
    BY DEF TypeInv, TypeOK, Local
  <2>2. /\ Versions \ InUse # {}
        /\ cursor' = [at |-> inst[w].next, version |-> CHOOSE v \in Versions \ InUse : TRUE]
    BY <1>1 DEF WriteCursor
  <2>3. (CHOOSE v \in Versions \ InUse : TRUE) \in Tokens
    BY <2>2 DEF Tokens
  <2>4. cursor' \in [at : Cursors, version : Tokens] /\ cursor'.at = inst[w].next
    BY <2>1, <2>2, <2>3
  <2>5. inst'[w].at = inst[w].next /\ inst'[w].pc = "readback"
    BY <1>1, <2>1, SMTT(30) DEF WriteCursor, TypeInv, TypeOK, Local
  <2>6. QED
    BY <1>1, <2>1, <2>4, <2>5 DEF WriteCursor
<1>2. CASE ~WriteCursor(w)
  BY <1>2
  DEF Acquire, Renew, LockLost, Step, Acquired, ReadVersion, ReadBody, Check, PageSource,
      ReadMessage, EnqueueLocal, ReadBack, ReleaseLock, CallFails, Crash
<1>3. QED
  BY <1>1, <1>2

\* And the queues by the enqueueing of the current message only.
LEMMA QueueSteps ==
  ASSUME TypeInv, NEW w \in Watchers,
         Acquire(w) \/ Renew(w) \/ LockLost(w) \/ Step(w) \/ CallFails(w) \/ Crash(w)
  PROVE  /\ UNCHANGED <<now, stamped, source>>
         /\ \/ UNCHANGED <<local, ever>>
            \/ /\ EnqueueLocal(w) /\ Current(w) \in stamped
               /\ local' = local \cup {Current(w)} /\ ever' = ever \cup {Current(w)}
<1>1. CASE EnqueueLocal(w)
  BY <1>1, CurrentIsThere DEF EnqueueLocal
<1>2. CASE ~EnqueueLocal(w)
  BY <1>2
  DEF Acquire, Renew, LockLost, Step, Acquired, ReadVersion, ReadBody, Check, PageSource,
      ReadMessage, WriteCursor, ReadBack, ReleaseLock, CallFails, Crash, queues
<1>3. QED
  BY <1>1, <1>2

InstanceStep(w) ==
  Acquire(w) \/ Renew(w) \/ LockLost(w) \/ Step(w) \/ CallFails(w) \/ Crash(w)

LEMMA TypeStep == ASSUME TypeInv, [Next]_vars PROVE TypeInv'
<1>1. LockOK /\ MaxTime \in Nat /\ MaxFailures \in Nat
  BY WatcherAssumption DEF LockOK, TypeInv, TypeOK
<1>2. ASSUME NEW i \in Ids, Commit(i) \/ Vanish(i) \/ Consume(i) PROVE TypeInv'
  <2>1. IsFiniteSet(source')
    BY <1>2, FS_AddElement, FS_Subset DEF Commit, Vanish, Consume, TypeInv
  <2>2. /\ stamped' \subseteq Ids /\ source' \subseteq stamped' /\ stamped \subseteq stamped'
        /\ local' \subseteq ever' /\ ever' \subseteq stamped'
    BY <1>2 DEF Commit, Vanish, Consume, TypeInv, TypeOK
  <2>3. UNCHANGED <<now, cursor, inst, lock, failures>>
    BY <1>2 DEF Commit, Vanish, Consume
  <2>4. QED
    BY <2>1, <2>2, <2>3 DEF TypeInv, TypeOK, Paging, lock
<1>3. ASSUME NEW w \in Watchers, InstanceStep(w) PROVE TypeInv'
  <2>1. LockOK'
    BY <1>1, <1>3, LockSteps, LockType DEF InstanceStep
  <2>2. /\ Moves(w) /\ inst'[w] \in Local
        /\ inst'[w].todo \subseteq stamped
        /\ inst'[w].pc \in {"read", "enqueue"} => inst'[w].todo # {}
    BY <1>3, InstanceType DEF InstanceStep
  <2>3. inst' \in [Watchers -> Local]
    BY <2>2, OneMoves
  <2>4. cursor' \in [at : Cursors, version : Tokens]
    BY <1>3, CursorSteps DEF InstanceStep, TypeInv, TypeOK
  <2>5. /\ UNCHANGED <<now, stamped, source>>
        /\ local' \subseteq ever' /\ ever' \subseteq stamped
    BY <1>3, QueueSteps DEF InstanceStep, TypeInv, TypeOK
  <2>6. failures' \in 0 .. MaxFailures
    <3>1. failures' = failures \/ Fail
      BY <1>3
      DEF InstanceStep, Acquire, Renew, LockLost, Step, Acquired, ReadVersion, ReadBody, Check,
          PageSource, ReadMessage, EnqueueLocal, WriteCursor, ReadBack, ReleaseLock, CallFails,
          Crash
    <3>2. QED
      BY <1>1, <3>1, SMTT(30) DEF Fail, TypeInv, TypeOK
  <2>7. \A v \in Watchers : Paging(v)'
    BY <2>2, <2>5 DEF Paging, Moves, TypeInv
  <2>8. QED
    BY <2>1, <2>3, <2>4, <2>5, <2>6, <2>7 DEF TypeInv, TypeOK, LockOK
<1>4. CASE Tick
  <2>1. LockOK'
    <3>1. \A n \in 0 .. Lease : Lock!Less(n) \in 0 .. Lease
      BY WatcherAssumption, SMTT(30) DEF Lock!Less
    <3>2. QED
      BY <1>1, <1>4, <3>1 DEF Tick, LockOK, Lock!Tick
  <2>2. now' \in 0 .. MaxTime
    BY <1>1, <1>4, SMTT(30) DEF Tick, TypeInv, TypeOK
  <2>3. QED
    BY <1>4, <2>1, <2>2 DEF Tick, queues, TypeInv, TypeOK, Paging, LockOK
<1>5. CASE UNCHANGED vars
  BY <1>5 DEF vars, queues, lock, TypeInv, TypeOK, Paging
<1>6. QED
  BY <1>2, <1>3, <1>4, <1>5 DEF Next, InstanceStep

LEMMA InitType == Init => TypeInv
<1> SUFFICES ASSUME Init PROVE TypeInv
  OBVIOUS
<1>1. LockOK
  BY WatcherAssumption, SMTT(30) DEF Init, Lock!Init, LockOK
<1>2. NoCursor \in [at : Cursors, version : Tokens] /\ 0 \in 0 .. MaxTime /\ 0 \in 0 .. MaxFailures
  BY WatcherAssumption, SMTT(30) DEF NoCursor, Cursors, Tokens
<1>3. QED
  BY <1>1, <1>2, IdleFields, FS_EmptySet DEF Init, TypeInv, TypeOK, Paging, LockOK

\* Every step of every instance, and of the queues at both ends, keeps every
\* variable in its type.
THEOREM TypeCorrect == Spec => []TypeOK
<1>1. Spec => []TypeInv
  BY InitType, TypeStep, PTL DEF Spec
<1>2. TypeInv => TypeOK
  BY DEF TypeInv
<1>3. QED
  BY <1>1, <1>2, PTL

-----------------------------------------------------------------------------
(* No message is passed over.                                              *)

\* What is closed stays closed, and what was passed stays passed.
LEMMA StaysPassed ==
  ASSUME TypeInv, AllTimed, [Next]_vars
  PROVE  /\ \A i \in Ids : Closed(i) => Closed(i)'
         /\ \A i \in Ids : Closed(i) /\ i \in source' => i \in source
         /\ ever \subseteq ever'
<1>1. now \in Nat /\ MaxTime \in Nat /\ Latency \in Nat /\ \A i \in Ids : Stamp(i) \in Nat
  <2>1. \A i \in Ids : i <= i
    BY IdsAreNumbers, SMTT(30)
  <2>2. \A i \in Ids : Stamp(i) \in Nat
    BY <2>1, StampsInOrder
  <2>3. QED
    BY <2>2, WatcherAssumption, SMTT(30) DEF TypeInv, TypeOK
<1>2. ASSUME NEW j \in Ids, Commit(j)
      PROVE  /\ \A i \in Ids : Closed(i) => Closed(i)'
             /\ \A i \in Ids : Closed(i) /\ i \in source' => i \in source
             /\ ever \subseteq ever'
  <2>1. ~Closed(j)
    BY <1>1, <1>2, SMTT(30) DEF Commit, Closed, AllTimed
  <2>2. QED
    BY <1>2, <2>1 DEF Commit, Closed
<1>3. ASSUME NEW j \in Ids, Vanish(j) \/ Consume(j)
      PROVE  UNCHANGED <<now, stamped, ever>> /\ source' \subseteq source
  BY <1>3 DEF Vanish, Consume
<1>4. ASSUME NEW w \in Watchers, InstanceStep(w)
      PROVE  UNCHANGED <<now, stamped, source>> /\ ever \subseteq ever'
  BY <1>4, QueueSteps DEF InstanceStep
<1>5. CASE Tick
  <2>1. now' \in Nat /\ now' >= now /\ UNCHANGED <<stamped, source, ever>>
    BY <1>1, <1>5, SMTT(30) DEF Tick, queues
  <2>2. QED
    BY <1>1, <2>1, SMTT(30) DEF Closed
<1>6. CASE UNCHANGED vars
  BY <1>6 DEF vars, queues, Closed
<1>7. QED
  BY <1>2, <1>3, <1>4, <1>5, <1>6 DEF Next, InstanceStep, Closed

\* Passed, in the next state.
Passes(c) == \A i \in Ids : i <= c => Closed(i)' /\ (i \in source' => i \in ever')

LEMMA PassedOn ==
  ASSUME TypeInv, AllTimed, [Next]_vars, NEW c, Passed(c)
  PROVE  Passes(c)
BY StaysPassed DEF Passed, Passes

\* An instance that does not move keeps what it has handled.
LEMMA HandledOn ==
  ASSUME TypeInv, AllTimed, [Next]_vars, NEW w \in Watchers, Handled(w),
         inst'[w].pc = inst[w].pc, inst'[w].todo = inst[w].todo, inst'[w].next = inst[w].next
  PROVE  Handled(w)'
BY StaysPassed DEF Handled

\* Where an instance can stand after a step.
LEMMA AtSteps ==
  ASSUME TypeInv, NEW w \in Watchers, InstanceStep(w)
  PROVE  \/ inst'[w].at \in {inst[w].at, cursor.at, 0}
         \/ inst[w].pc = "write" /\ inst'[w].at = inst[w].next
<1>1. inst[w] \in Local
  BY DEF TypeInv, TypeOK
<1>2. CASE Acquire(w)
  <2>1. inst'[w] = [Idle EXCEPT !.pc = "acquired"]
    BY <1>2 DEF Acquire, TypeInv, TypeOK
  <2>2. QED
    BY <2>1, IdleFields DEF Local
<1>3. CASE ReleaseLock(w) \/ Crash(w)
  BY <1>3, IdleMoves, IdleFields DEF ReleaseLock, Crash
<1>4. CASE Goto(w, "release") \/ Goto(w, "attrs") \/ Goto(w, "page") \/ Goto(w, "enqueue")
  BY <1>4, GotoMoves DEF PC
<1>5. CASE PageSource(w)
  BY <1>5, PageFields
<1>6. CASE (ReadMessage(w) \/ EnqueueLocal(w)) /\ Done(w, Current(w))
  BY <1>6, DoneMoves DEF ReadMessage, EnqueueLocal
<1>7. CASE LockLost(w) \/ ReadVersion(w) \/ ReadBody(w) \/ ReadBack(w)
  BY <1>1, <1>7, SMTT(30) DEF LockLost, ReadVersion, ReadBody, ReadBack, Local, TypeInv, TypeOK
<1>8. CASE WriteCursor(w) /\ ~Goto(w, "release")
  BY <1>1, <1>8, SMTT(30) DEF WriteCursor, Return, Local, TypeInv, TypeOK
<1>9. CASE Renew(w)
  BY <1>9 DEF Renew
<1>10. QED
  BY <1>2, <1>3, <1>4, <1>5, <1>6, <1>7, <1>8, <1>9
  DEF InstanceStep, Step, Acquired, Check, Return, CallFails, WriteCursor, ReadMessage,
      EnqueueLocal

\* The step of an instance: it takes a page, handles a message, or has no page.
LEMMA HandledStep ==
  ASSUME TypeInv, AllTimed, LagCovers, NEW w \in Watchers, InstanceStep(w), [Next]_vars,
         Handled(w), Passed(inst[w].at)
  PROVE  Handled(w)'
<1>1. inst[w] \in Local
  BY DEF TypeInv, TypeOK
<1>2. CASE inst'[w].pc \notin {"read", "enqueue", "write"}
  BY <1>2 DEF Handled
<1>3. CASE PageSource(w)
  <2> DEFINE page == Page(source, inst[w].at, now)
             next == NextCursor(page, inst[w].at)
  <2>1. CASE page = {}
    BY <1>2, <1>3, <2>1, PageFields
  <2>2. CASE page # {}
    <3>1. inst'[w].todo = page /\ inst'[w].next = next /\ inst'[w].pc = "read"
      BY <1>3, <2>2, PageFields
    <3>2. /\ inst[w].at \in Cursors /\ source \in SUBSET Ids /\ IsFiniteSet(source) /\ now \in Nat
      BY <1>1, WatcherAssumption, SMTT(30) DEF TypeInv, TypeOK, Local
    <3>3. UNCHANGED <<now, stamped, source, ever>>
      BY <1>3 DEF PageSource, queues
    <3>4. ASSUME NEW i \in Ids, i <= next
          PROVE  Closed(i) /\ (i \in source => i \in ever \/ i \in page)
      <4>1. CASE i <= inst[w].at
        BY <4>1 DEF Passed
      <4>2. CASE ~(i <= inst[w].at)
        <5>1. i > inst[w].at
          <6>1. i \in Nat /\ inst[w].at \in Nat
            BY <3>2, IdsAreNumbers
          <6>2. QED
            BY <4>2, <6>1, SMTT(30)
        <5>2. (i \in source => i \in page) /\ now > Stamp(i) + Latency
          BY <2>2, <3>2, <3>4, <5>1, PageIsComplete
        <5>3. QED
          BY <5>2 DEF Closed
      <4>3. QED
        BY <4>1, <4>2
    <3> HIDE DEF page, next
    <3>5. QED
      BY <3>1, <3>3, <3>4 DEF Handled, Closed
  <2>3. QED
    BY <2>1, <2>2
<1>4. CASE (ReadMessage(w) \/ EnqueueLocal(w)) /\ Done(w, Current(w))
  <2>1. /\ inst[w].pc \in {"read", "enqueue"}
        /\ inst'[w].todo = inst[w].todo \ {Current(w)}
        /\ inst'[w].pc = IF inst'[w].todo = {} THEN "write" ELSE "read"
        /\ inst'[w].next = inst[w].next
    BY <1>4, DoneMoves DEF ReadMessage, EnqueueLocal
  <2>2. Current(w) \in source' => Current(w) \in ever'
    <3>1. CASE inst[w].pc = "read"
      <4>1. ~Goto(w, "enqueue")
        BY <1>1, <2>1, GotoMoves DEF PC
      <4>2. QED
        BY <1>4, <3>1, <4>1 DEF ReadMessage, EnqueueLocal, queues
    <3>2. CASE inst[w].pc = "enqueue"
      BY <1>4, <3>2 DEF ReadMessage, EnqueueLocal
    <3>3. QED
      BY <2>1, <3>1, <3>2
  <2>3. QED
    BY <2>1, <2>2, StaysPassed DEF Handled
<1>5. CASE Goto(w, "enqueue") /\ inst[w].pc = "read"
  <2>1. inst'[w].pc = "enqueue" /\ inst'[w].todo = inst[w].todo /\ inst'[w].next = inst[w].next
    BY <1>5, GotoMoves DEF PC
  <2>2. QED
    BY <1>5, <2>1, StaysPassed DEF Handled
<1>6. CASE Renew(w) \/ LockLost(w)
  <2>1. /\ inst'[w].pc = inst[w].pc /\ inst'[w].todo = inst[w].todo
        /\ inst'[w].next = inst[w].next
    BY <1>1, <1>6, SMTT(30) DEF Renew, LockLost, Local, TypeInv, TypeOK
  <2>2. QED
    BY <2>1, HandledOn
<1>7. CASE Goto(w, "release") \/ Goto(w, "attrs") \/ Goto(w, "page")
  BY <1>2, <1>7, GotoMoves DEF PC
<1>8. CASE ReleaseLock(w) \/ Crash(w)
  BY <1>2, <1>8, IdleMoves, IdleFields DEF ReleaseLock, Crash
<1>9. CASE Acquire(w)
  <2>1. inst'[w] = [Idle EXCEPT !.pc = "acquired"]
    BY <1>9 DEF Acquire, TypeInv, TypeOK
  <2>2. inst'[w].pc = "acquired"
    BY <2>1, IdleFields DEF Local
  <2>3. QED
    BY <1>2, <2>2
<1>10. CASE ReadVersion(w) \/ ReadBody(w) \/ ReadBack(w) \/ (WriteCursor(w) /\ ~Goto(w, "release"))
  <2>1. inst'[w].pc \in {"check", "body", "readback"}
    BY <1>1, <1>10, SMTT(30) DEF ReadVersion, ReadBody, ReadBack, WriteCursor, Return, Local, TypeInv, TypeOK
  <2>2. QED
    BY <1>2, <2>1
<1>11. QED
  BY <1>3, <1>4, <1>5, <1>6, <1>7, <1>8, <1>9, <1>10
  DEF InstanceStep, Step, Acquired, Check, Return, CallFails, WriteCursor, ReadMessage,
      EnqueueLocal

LEMMA SkipStep ==
  ASSUME TypeInv, AllTimed, LagCovers, SkipInv, [Next]_vars
  PROVE  SkipInv'
<1>1. Passes(cursor.at) /\ \A w \in Watchers : Passes(inst[w].at)
  BY PassedOn DEF SkipInv
<1>2. ASSUME NEW w \in Watchers, InstanceStep(w) PROVE SkipInv'
  <2>1. Moves(w)
    BY <1>2, InstanceType DEF InstanceStep
  <2>2. inst[w].pc = "write" => Passes(inst[w].next)
    <3>1. inst[w].pc = "write" => Passed(inst[w].next)
      BY DEF SkipInv, Handled, Passed
    <3>2. QED
      BY <3>1, PassedOn
  <2>3. Passes(0)
    BY TailAssumption, SMTT(30) DEF Passes
  <2>4. Passes(inst'[w].at)
    BY <1>1, <1>2, <2>2, <2>3, AtSteps
  <2>5. Passes(cursor'.at)
    BY <1>1, <1>2, <2>2, CursorSteps DEF InstanceStep
  <2>6. Handled(w)'
    BY <1>2, HandledStep DEF SkipInv
  <2>7. \A v \in Watchers \ {w} : Passes(inst'[v].at) /\ Handled(v)'
    BY <1>1, <2>1, HandledOn DEF Moves, SkipInv
  <2>8. QED
    BY <2>4, <2>5, <2>6, <2>7 DEF SkipInv, Passed, Passes
<1>3. CASE UNCHANGED <<cursor, inst>>
  <2>1. \A w \in Watchers : Handled(w)'
    BY <1>3, HandledOn DEF SkipInv
  <2>2. QED
    BY <1>1, <1>3, <2>1 DEF SkipInv, Passed, Passes
<1>4. QED
  BY <1>2, <1>3 DEF Next, InstanceStep, Commit, Vanish, Consume, Tick, vars

\* What the cursor has left behind was enqueued locally or is gone, although the
\* instances that move it crash, pause, lose the lock and rewind it, as long as
\* the ids embed the time and no payload takes longer than the lag to appear
\* (watcher.go:173-192, queuetail.go:97-103).
THEOREM NothingIsSkipped == AllTimed /\ LagCovers /\ Spec => []NothingSkipped
<1> SUFFICES ASSUME AllTimed, LagCovers PROVE Spec => []NothingSkipped
  OBVIOUS
<1>1. Init => TypeInv /\ SkipInv
  <2>1. Init => SkipInv
    BY IdleFields, TailAssumption, SMTT(30) DEF Init, SkipInv, Passed, Handled, NoCursor
  <2>2. QED
    BY <2>1, InitType
<1>2. TypeInv /\ SkipInv /\ [Next]_vars => (TypeInv /\ SkipInv)'
  BY TypeStep, SkipStep
<1>3. TypeInv /\ SkipInv => NothingSkipped
  BY DEF SkipInv, Passed, NothingSkipped, TypeInv, TypeOK
<1>4. QED
  BY <1>1, <1>2, <1>3, PTL DEF Spec

-----------------------------------------------------------------------------
(* A stale holder does not move the cursor back.                           *)

\* Another's write makes every version that is remembered stale.
LEMMA VersionsAreFresh ==
  ASSUME TypeInv, NEW w \in Watchers, WriteCursor(w), cursor' # cursor, NEW v \in Watchers
  PROVE  inst[v].version # cursor'.version
<1>1. /\ Versions \ InUse # {}
      /\ cursor' = [at |-> inst[w].next, version |-> CHOOSE x \in Versions \ InUse : TRUE]
  BY DEF WriteCursor
<1>2. (CHOOSE x \in Versions \ InUse : TRUE) \notin InUse
  BY <1>1
<1>3. QED
  BY <1>1, <1>2 DEF InUse

LEMMA KnowsOthers ==
  ASSUME TypeInv, KnowInv, NEW w \in Watchers, InstanceStep(w), NEW v \in Watchers \ {w}
  PROVE  Knows(v)'
<1>1. inst'[v] = inst[v] /\ Knows(v)
  BY InstanceType DEF InstanceStep, Moves, KnowInv
<1>2. CASE cursor' = cursor
  BY <1>1, <1>2 DEF Knows
<1>3. CASE cursor' # cursor
  <2>1. inst[v].version # cursor'.version
    BY <1>3, CursorSteps, VersionsAreFresh DEF InstanceStep
  <2>2. QED
    BY <1>1, <2>1 DEF Knows
<1>4. QED
  BY <1>2, <1>3

LEMMA KnowsStep ==
  ASSUME TypeInv, NEW w \in Watchers, Knows(w), InstanceStep(w)
  PROVE  Knows(w)'
<1>1. inst[w] \in Local /\ inst[w].at \in Nat /\ inst[w].next \in Nat
  BY IdsAreNumbers DEF TypeInv, TypeOK, Local
<1>2. CASE WriteCursor(w)
  <2>1. inst'[w].pc \in {"readback", "release"}
    <3>1. CASE Goto(w, "release")
      BY <3>1, GotoMoves DEF PC
    <3>2. CASE inst' = [inst EXCEPT ![w].at = inst[w].next, ![w].pc = "readback"]
      BY <1>1, <3>2, SMTT(30) DEF Local, TypeInv, TypeOK
    <3>3. QED
      BY <1>2, <3>1, <3>2 DEF WriteCursor, Return
  <2>2. QED
    BY <2>1 DEF Knows
<1>3. CASE ~WriteCursor(w)
  <2>0. cursor' = cursor
    BY <1>3, CursorSteps DEF InstanceStep
  <2>1. CASE Goto(w, "release") \/ ReleaseLock(w) \/ Crash(w)
    <3>1. inst'[w].pc \in {"release", "idle"}
      BY <2>1, GotoMoves, IdleMoves, IdleFields, SMTT(30) DEF PC, ReleaseLock, Crash
    <3>2. QED
      BY <3>1 DEF Knows
  <2>2. CASE Acquired(w)
    BY <2>2, GotoMoves DEF Acquired, PC, Knows
  <2>3. CASE Renew(w) \/ LockLost(w)
    <3>1. /\ inst'[w].pc = inst[w].pc /\ inst'[w].at = inst[w].at /\ inst'[w].next = inst[w].next
          /\ inst'[w].version = inst[w].version /\ inst'[w].adopted = inst[w].adopted
      BY <1>1, <2>3, SMTT(30) DEF Renew, LockLost, Local, TypeInv, TypeOK
    <3>2. QED
      BY <2>0, <3>1 DEF Knows
  <2>4. CASE ReadVersion(w)
    <3>1. /\ inst'[w].at = inst[w].at /\ inst[w].pc = "attrs"
          /\ inst'[w].pc = IF cursor = NoCursor THEN "check" ELSE "body"
      BY <1>1, <2>4 DEF ReadVersion, Local, TypeInv, TypeOK
    <3>2. QED
      BY <2>0, <3>1, SMTT(30) DEF Knows, NoCursor
  <2>5. CASE ReadBody(w)
    <3>1. inst'[w].at = cursor.at /\ inst'[w].pc = "check"
      BY <1>1, <2>5 DEF ReadBody, Local, TypeInv, TypeOK
    <3>2. QED
      BY <2>0, <3>1, SMTT(30) DEF Knows
  <2>6. CASE ReadBack(w)
    <3>1. inst'[w].at = inst[w].at /\ inst'[w].pc = "check" /\ (inst'[w].at # cursor.at => inst'[w].adopted)
      BY <1>1, <2>6 DEF ReadBack, Local, TypeInv, TypeOK
    <3>2. QED
      BY <2>0, <3>1 DEF Knows
  <2>7. CASE Check(w) /\ Goto(w, "page")
    BY <2>0, <2>7, GotoMoves DEF Check, PC, Knows
  <2>8. CASE PageSource(w)
    <3> DEFINE page == Page(source, inst[w].at, now)
               next == NextCursor(page, inst[w].at)
    <3>1. /\ inst'[w].next = next /\ inst'[w].at = inst[w].at /\ next \in Cursors
          /\ inst'[w].pc = IF page = {} THEN "check" ELSE "read"
          /\ page # {} => next > inst[w].at
          /\ inst'[w].version = inst[w].version /\ inst'[w].adopted = inst[w].adopted
      BY <2>8, PageFields
    <3>2. inst[w].pc = "page"
      BY <2>8 DEF PageSource
    <3> HIDE DEF page, next
    <3>3. next \in Nat
      BY <3>1, IdsAreNumbers
    <3>4. inst'[w].adopted \/ inst'[w].version # cursor'.version \/ inst'[w].at = cursor'.at
      BY <2>0, <3>1, <3>2 DEF Knows
    <3>5. CASE page = {}
      <4>1. inst'[w].pc = "check"
        BY <3>1, <3>5
      <4>2. QED
        BY <3>4, <4>1 DEF Knows
    <3>6. CASE page # {}
      <4>1. inst'[w].pc = "read"
        BY <3>1, <3>6
      <4>2. inst'[w].at <= inst'[w].next
        BY <1>1, <3>1, <3>3, <3>6, SMTT(30)
      <4>3. QED
        BY <3>4, <4>1, <4>2 DEF Knows
    <3>7. QED
      BY <3>5, <3>6
  <2>9. CASE ReadMessage(w) \/ EnqueueLocal(w)
    <3>1. inst[w].pc \in {"read", "enqueue"}
      BY <2>9 DEF ReadMessage, EnqueueLocal
    <3>2. /\ inst'[w].at = inst[w].at /\ inst'[w].next = inst[w].next
          /\ inst'[w].version = inst[w].version /\ inst'[w].adopted = inst[w].adopted
          /\ inst'[w].pc \in {"read", "enqueue", "write"}
      <4>1. CASE Done(w, Current(w))
        BY <3>1, <4>1, DoneMoves
      <4>2. CASE Goto(w, "enqueue")
        BY <4>2, GotoMoves DEF PC
      <4>3. QED
        BY <2>9, <4>1, <4>2 DEF ReadMessage, EnqueueLocal
    <3>3. QED
      BY <2>0, <3>1, <3>2 DEF Knows
  <2>10. CASE Acquire(w)
    <3>1. inst'[w] = [Idle EXCEPT !.pc = "acquired"]
      BY <2>10 DEF Acquire, TypeInv, TypeOK
    <3>2. inst'[w].pc = "acquired" /\ inst'[w].at = 0
      BY <3>1, IdleFields DEF Local
    <3>3. QED
      BY <3>2 DEF Knows
  <2>11. QED
    BY <1>3, <2>1, <2>2, <2>3, <2>4, <2>5, <2>6, <2>7, <2>8, <2>9, <2>10
    DEF InstanceStep, Step, Check, CallFails, Return
<1>4. QED
  BY <1>2, <1>3

LEMMA KnowStep ==
  ASSUME TypeInv, KnowInv, [Next]_vars
  PROVE  KnowInv'
<1>1. ASSUME NEW w \in Watchers, InstanceStep(w) PROVE KnowInv'
  <2>1. Knows(w)'
    BY <1>1, KnowsStep DEF KnowInv
  <2>2. QED
    BY <1>1, <2>1, KnowsOthers DEF KnowInv
<1>2. CASE UNCHANGED <<cursor, inst>>
  BY <1>2 DEF KnowInv, Knows
<1>3. QED
  BY <1>1, <1>2 DEF Next, InstanceStep, Commit, Vanish, Consume, Tick, vars

LEMMA InitKnows == Init => KnowInv
BY IdleFields DEF Init, KnowInv, Knows

\* The cursor moves back only by the write of an instance that read back a successor's
\* version for its own: for any number of instances that crash, hand over, outlive
\* their leases and pause wherever they like (watcher.go:44-47, 53, 252-270).
THEOREM StaleHoldersAreRefused == Spec => RewindsAreAdopted
<1> DEFINE Rewinds == cursor'.at < cursor.at =>
             \E w \in Watchers :
               inst[w].pc = "write" /\ inst[w].adopted /\ cursor'.at = inst[w].next
<1>1. Init => TypeInv /\ KnowInv
  BY InitType, InitKnows
<1>2. TypeInv /\ KnowInv /\ [Next]_vars => (TypeInv /\ KnowInv)'
  BY TypeStep, KnowStep
<1>3. TypeInv /\ KnowInv /\ [Next]_vars => [Rewinds]_vars
  <2> SUFFICES ASSUME TypeInv, KnowInv, [Next]_vars, cursor'.at < cursor.at
               PROVE  \E w \in Watchers :
                        inst[w].pc = "write" /\ inst[w].adopted /\ cursor'.at = inst[w].next
    OBVIOUS
  <2>1. cursor.at \in Nat
    BY IdsAreNumbers DEF TypeInv, TypeOK
  <2>2. cursor' # cursor
    BY <2>1, SMTT(30)
  <2>3. PICK w \in Watchers : InstanceStep(w)
    BY <2>2 DEF Next, InstanceStep, Commit, Vanish, Consume, Tick, vars
  <2>4. inst[w].pc = "write" /\ cursor'.at = inst[w].next /\ WriteCursor(w)
    BY <2>2, <2>3, CursorSteps DEF InstanceStep
  <2>5. inst[w].version = cursor.version
    BY <2>2, <2>4 DEF WriteCursor
  <2>6. inst[w].at <= inst[w].next /\ (inst[w].adopted \/ inst[w].at = cursor.at)
    BY <2>4, <2>5 DEF KnowInv, Knows
  <2>7. inst[w].next \in Nat
    BY IdsAreNumbers DEF TypeInv, TypeOK, Local
  <2>8. inst[w].at # cursor.at
    BY <2>1, <2>4, <2>6, <2>7, SMTT(30)
  <2>9. QED
    BY <2>4, <2>6, <2>8
<1>4. QED
  BY <1>1, <1>2, <1>3, PTL DEF Spec, RewindsAreAdopted

\* The whole invariant.
THEOREM WatchInvariant == AllTimed /\ LagCovers /\ Spec => []WatchInv
<1> SUFFICES ASSUME AllTimed, LagCovers PROVE Spec => []WatchInv
  OBVIOUS
<1>1. Init => WatchInv
  <2>1. Init => SkipInv
    BY IdleFields, TailAssumption, SMTT(30) DEF Init, SkipInv, Passed, Handled, NoCursor
  <2>2. QED
    BY <2>1, InitType, InitKnows, SMTT(30) DEF WatchInv
<1>2. WatchInv /\ [Next]_vars => WatchInv'
  BY TypeStep, SkipStep, KnowStep DEF WatchInv
<1>3. QED
  BY <1>1, <1>2, PTL DEF Spec
=============================================================================
