----------------------------- MODULE FileProofs -----------------------------
(***************************************************************************)
(* Proofs about FileBucket, for any number of Bucket values over one       *)
(* directory and any pattern of failed calls and crashes: the types, the   *)
(* mutexes and the temp files.                                             *)
(***************************************************************************)
EXTENDS FileBucket, TLAPS, FiniteSetTheorems

\* A leaf goes to Zenon unless it names another prover.
USE ZenonT(30)

-----------------------------------------------------------------------------
(* The inductive invariant.                                                *)

\* The calls that are about to write a sidecar.
Pending == {c \in Clients : client[c].pc \in {"rename", "sidecar"}}

TypeInv == TypeOK /\ nextVersion + Cardinality(Pending) <= MaxVersion

\* The keys of a call under way and of a writer.
KeyOf(c) ==
  /\ ~Ready(c) => client[c].job.key \in Keys
  /\ HasWriter(c) => client[c].writer.key \in Keys
Keyed == \A c \in Clients : KeyOf(c)

\* A mutex is held by a call under way, and a call under way holds its mutex.
Locks ==
  /\ \A b \in Buckets : lock[b] # NoClient => BucketOf[lock[b]] = b
  /\ \A c \in Clients : ~Ready(c) <=> lock[BucketOf[c]] = c

\* The body of a writer is in its temp file until Close has renamed that.
OwnBody(c) ==
  LET w == client[c].writer IN
  /\ w.body \in 1 .. nextBody /\ w.body \notin orphans
  /\ w.body \in tmp <=> client[c].pc # "sidecar"
  /\ client[c].pc \in {"ready", "rename", "sidecar"}
  /\ ~Ready(c) => client[c].job.body = w.body /\ client[c].job.current.body # w.body
\* A call without a writer puts a body in place that is in place elsewhere.
OldBody(c) ==
  /\ client[c].pc \in {"rename", "sidecar"} => client[c].job.body \in 1 .. nextBody
  /\ client[c].pc = "rename" => client[c].job.body \notin tmp

HasBody(c) == IF HasWriter(c) THEN OwnBody(c) ELSE OldBody(c)
Bodies ==
  /\ tmp \subseteq 1 .. nextBody /\ orphans \subseteq 1 .. nextBody
  /\ \A k \in Keys : data[k] <= nextBody /\ data[k] \notin tmp
  /\ \A c \in Clients : HasBody(c)
  /\ \A c, d \in Clients :
       HasWriter(c) /\ HasWriter(d) /\ c # d => client[c].writer.body # client[d].writer.body
  /\ \A t \in tmp \ orphans : \E c \in Clients : HasWriter(c) /\ client[c].writer.body = t

\* A version that was handed out, or derived from a body.
Known(v) == v <= nextVersion \/ v > MaxVersion

-----------------------------------------------------------------------------
(* Steps, field by field.                                                  *)

PCs == {"ready", "rename", "sidecar", "unlink", "unmeta"}
Local ==
  [pc : PCs, job : Job, writer : Mem!Writer, seen : Mem!Object, seenKey : Keys \cup {0}]

\* Nothing of the others' is touched.
Moves(c) ==
  /\ client' \in [Clients -> Local]
  /\ \A d \in Clients \ {c} : client'[d] = client[d]

LEMMA IsLocal == TypeOK => client \in [Clients -> Local] /\ \A c \in Clients : client[c] \in Local
BY DEF TypeOK, Local, PCs

LEMMA Constants ==
  /\ NoObject \in Mem!Object /\ NoJob \in Job /\ Mem!NoWriter \in Mem!Writer
  /\ NewClient \in Local /\ NewClient.pc = "ready" /\ NewClient.writer = Mem!NoWriter
  /\ NewClient.seen = NoObject /\ NewClient.seenKey = 0
<1>1. NoObject \in Mem!Object
  BY FileAssumption, SMTT(30) DEF NoObject, Mem!Object, Mem!Tokens
<1>2. NoJob \in Job
  BY <1>1, FileAssumption, SMTT(30) DEF NoJob, Job
<1>3. Mem!NoWriter \in Mem!Writer
  BY FileAssumption, SMTT(30) DEF Mem!NoWriter, Mem!Writer, Mem!Unconditional, Mem!Preconditions, Mem!Tokens
<1>4. QED
  BY <1>1, <1>2, <1>3 DEF NewClient, Local, PCs

LEMMA ReturnFields ==
  ASSUME TypeOK, NEW c \in Clients, NEW o, Return(c, o)
  PROVE  /\ Moves(c)
         /\ client'[c].pc = "ready" /\ client'[c].job = NoJob
         /\ client'[c].writer = client[c].writer
         /\ client'[c].seen = client[c].seen /\ client'[c].seenKey = client[c].seenKey
<1>1. client \in [Clients -> Local] /\ client[c] \in Local
  BY IsLocal
<1>2. client' = [client EXCEPT ![c] = [client[c] EXCEPT !.pc = "ready", !.job = NoJob]]
  BY <1>1 DEF Return, Local
<1>3. [client[c] EXCEPT !.pc = "ready", !.job = NoJob] \in Local
  BY <1>1, Constants DEF Local, PCs
<1>4. QED
  BY <1>1, <1>2, <1>3 DEF Moves, Local

LEMMA ClosedFields ==
  ASSUME TypeOK, NEW c \in Clients, NEW o, Closed(c, o)
  PROVE  /\ Moves(c)
         /\ client'[c].pc = "ready" /\ client'[c].job = NoJob
         /\ client'[c].writer = Mem!NoWriter
         /\ client'[c].seen = client[c].seen /\ client'[c].seenKey = client[c].seenKey
         /\ tmp' = tmp \ {client[c].writer.body}
<1>1. client \in [Clients -> Local] /\ client[c] \in Local
  BY IsLocal, SMTT(30)
<1> DEFINE new == [client[c] EXCEPT !.pc = "ready", !.job = NoJob, !.writer = Mem!NoWriter]
<1>2. client' = [client EXCEPT ![c] = new]
  BY <1>1 DEF Closed, Local
<1>3. new \in Local
  BY <1>1, Constants DEF Local, PCs
<1>4. QED
  BY <1>1, <1>2, <1>3, SMTT(30) DEF Moves, Local, Closed

LEMMA BeginFields ==
  ASSUME TypeOK, NEW c \in Clients, NEW pc \in PCs, NEW job \in Job, Begin(c, pc, job)
  PROVE  /\ Moves(c)
         /\ client'[c].pc = pc /\ client'[c].job = job
         /\ client'[c].writer = client[c].writer
         /\ client'[c].seen = client[c].seen /\ client'[c].seenKey = client[c].seenKey
<1>1. client \in [Clients -> Local] /\ client[c] \in Local
  BY IsLocal
<1> DEFINE new == [client[c] EXCEPT !.pc = pc, !.job = job]
<1>2. client' = [client EXCEPT ![c] = new]
  BY <1>1 DEF Begin, Local
<1>3. new \in Local
  BY <1>1 DEF Local, PCs
<1>4. QED
  BY <1>1, <1>2, <1>3 DEF Moves, Local

LEMMA ReadsObject ==
  ASSUME TypeOK, NEW k \in Keys
  PROVE  /\ readAttributes(k) \in Mem!Object
         /\ readAttributes(k).body = data[k]
         /\ Mem!Exists(readAttributes(k)) <=> data[k] # 0
         /\ Known(readAttributes(k).version)
<1>1. /\ data[k] \in 0 .. MaxBodies /\ meta[k] \in Sidecar /\ meta[k].version <= nextVersion
      /\ MaxBodies \in Nat /\ MaxVersion \in Nat /\ nextVersion \in 0 .. MaxVersion
  BY FileAssumption DEF TypeOK
<1>2. meta[k].of \in 0 .. MaxBodies /\ meta[k].md \in BOOLEAN /\ meta[k].version \in Mem!Tokens
  BY <1>1 DEF Sidecar
<1>3. CASE data[k] = 0
  <2>1. readAttributes(k) = NoObject
    BY <1>3 DEF readAttributes
  <2>2. QED
    BY <1>1, <1>3, <2>1, Constants, SMTT(30) DEF NoObject, Mem!Exists, Mem!NoObject, Known
<1>4. CASE data[k] # 0 /\ meta[k] = NoSidecar
  <2>1. readAttributes(k) = [body |-> data[k], of |-> 0, md |-> FALSE, version |-> MaxVersion + data[k]]
    BY <1>4 DEF readAttributes, deriveVersion
  <2>2. MaxVersion + data[k] \in Mem!Tokens /\ MaxVersion + data[k] > MaxVersion
    BY <1>1, <1>4, SMTT(30) DEF Mem!Tokens
  <2>3. QED
    BY <1>1, <1>4, <2>1, <2>2, SMTT(30) DEF Mem!Object, Mem!Exists, Mem!NoObject, Known
<1>5. CASE data[k] # 0 /\ meta[k] # NoSidecar
  <2>1. readAttributes(k) =
          [body |-> data[k], of |-> meta[k].of, md |-> meta[k].md, version |-> meta[k].version]
    BY <1>5 DEF readAttributes
  <2>2. QED
    BY <1>1, <1>2, <1>5, <2>1, SMTT(30) DEF Mem!Object, Mem!Exists, Mem!NoObject, Known
<1>6. QED
  BY <1>3, <1>4, <1>5

LEMMA NewJobs ==
  ASSUME TypeOK, NEW k \in Keys
  PROVE  LET o == readAttributes(k) IN
         /\ [NoJob EXCEPT !.key = k, !.current = o] \in Job
         /\ [key |-> k, body |-> o.body, of |-> o.of, md |-> TRUE, current |-> o] \in Job
         /\ \A src \in Keys :
              LET s == readAttributes(src) IN
              [key |-> k, body |-> s.body, of |-> s.of, md |-> s.md, current |-> o] \in Job
         /\ \A b \in 0 .. MaxBodies :
              [key |-> k, body |-> b, of |-> b, md |-> FALSE, current |-> o] \in Job
BY ReadsObject, Constants DEF Job, NoJob, Mem!Object

\* What one client does.
ClientStep(c) ==
  \/ \E k \in Keys : Attributes(c, k) \/ UpdateMetadata(c, k)
  \/ \E k, src \in Keys : Copy(c, k, src)
  \/ \E k \in Keys, pre \in Mem!Asked(client[c].seen) :
       Delete(c, k, pre) \/ \E md5 \in Mem!Md5(pre) : NewWriter(c, k, pre, md5)
  \/ Cancel(c) \/ Close(c) \/ CloseWithError(c) \/ CallFails(c)
  \/ Locked(c)

LEMMA NextIsClientOrCrash ==
  [Next]_vars <=> \/ \E c \in Clients : ClientStep(c)
                  \/ \E b \in Buckets : Crash(b)
                  \/ UNCHANGED vars
BY DEF Next, ClientStep, NewRangeReader

\* The other fields of the client in each action.
LEMMA AttributesFields ==
  ASSUME TypeOK, NEW c \in Clients, NEW k \in Keys, Attributes(c, k)
  PROVE  /\ Moves(c) /\ client'[c].pc = "ready" /\ client[c].pc = "ready"
         /\ client'[c].writer = client[c].writer
         /\ \/ /\ client'[c].seen = client[c].seen /\ client'[c].seenKey = client[c].seenKey
               /\ ~Mem!Exists(readAttributes(k)) /\ Reports(c, "not found")
            \/ /\ client'[c].seen = readAttributes(k) /\ client'[c].seenKey = k
               /\ Mem!Exists(readAttributes(k)) /\ Reports(c, "ok")
<1>1. client \in [Clients -> Local] /\ client[c] \in Local
  BY IsLocal
<1>2. client[c].pc = "ready"
  BY DEF Attributes, Idle, Ready
<1>3. CASE ~Mem!Exists(readAttributes(k))
  <2>1. Return(c, "not found")
    BY <1>3 DEF Attributes
  <2>2. QED
    BY <1>2, <1>3, <2>1, ReturnFields DEF Return
<1>4. CASE Mem!Exists(readAttributes(k))
  <2> DEFINE new == [client[c] EXCEPT !.seen = readAttributes(k), !.seenKey = k]
  <2>1. client' = [client EXCEPT ![c] = new] /\ Mem!Exists(readAttributes(k)) /\ Reports(c, "ok")
    BY <1>1, <1>4 DEF Attributes, Local
  <2>2. new \in Local
    BY <1>1, ReadsObject DEF Local
  <2>3. QED
    BY <1>1, <1>2, <2>1, <2>2 DEF Moves, Local
<1>5. QED
  BY <1>3, <1>4

LEMMA NewWriterFields ==
  ASSUME TypeOK, NEW c \in Clients, NEW k \in Keys, NEW pre \in Mem!Asked(client[c].seen),
         NEW md5 \in Mem!Md5(pre), NewWriter(c, k, pre, md5), ~Mem!Contradictory(pre)
  PROVE  /\ Moves(c) /\ client'[c].pc = "ready" /\ client[c].pc = "ready"
         /\ client'[c].writer =
              [key |-> k, pre |-> pre, body |-> nextBody + 1, md5 |-> md5, cancelled |-> FALSE]
         /\ client'[c].seen = NoObject /\ client'[c].seenKey = 0
         /\ nextBody < MaxBodies /\ nextBody' = nextBody + 1 /\ tmp' = tmp \cup {nextBody + 1}
         /\ UNCHANGED <<files, nextVersion, lock, failures, orphans, torn, returned>>
<1>1. client \in [Clients -> Local] /\ client[c] \in Local
  BY IsLocal
<1> DEFINE w == [key |-> k, pre |-> pre, body |-> nextBody + 1, md5 |-> md5, cancelled |-> FALSE]
           new == [NewClient EXCEPT !.writer = w]
<1>2. /\ client' = [client EXCEPT ![c] = new] /\ client[c].pc = "ready"
      /\ nextBody < MaxBodies /\ nextBody' = nextBody + 1 /\ tmp' = tmp \cup {nextBody + 1}
      /\ UNCHANGED <<files, nextVersion, lock, failures, orphans, torn, returned>>
  BY DEF NewWriter, Idle, Ready
<1>3. pre \in Mem!Preconditions
  <2>1. client[c].seen.version \in Mem!Tokens
    BY <1>1 DEF Local, Mem!Object
  <2>2. 0 \in Mem!Tokens
    BY FileAssumption, SMTT(30) DEF Mem!Tokens
  <2> DEFINE v == client[c].seen.version
  <2> HIDE DEF v
  <2>3. /\ Mem!Unconditional = [IfNotExists |-> FALSE, IfMatch |-> 0, IfNotMatch |-> 0]
        /\ Mem!Unconditional \in Mem!Preconditions
    BY <2>2 DEF Mem!Unconditional, Mem!Preconditions
  <2>4. \/ pre = Mem!Unconditional
        \/ pre = [Mem!Unconditional EXCEPT !.IfNotExists = TRUE]
        \/ pre = [Mem!Unconditional EXCEPT !.IfMatch = v]
        \/ pre = [Mem!Unconditional EXCEPT !.IfNotMatch = v]
        \/ pre = [Mem!Unconditional EXCEPT !.IfNotExists = TRUE, !.IfMatch = v]
    BY DEF Mem!Asked, v
  <2>5. v \in Mem!Tokens
    BY <2>1 DEF v
  <2>6. QED
    BY <2>3, <2>4, <2>5 DEF Mem!Preconditions
<1>4. w \in Mem!Writer
  <2>1. nextBody + 1 \in 0 .. MaxBodies
    BY <1>2, FileAssumption, SMTT(30) DEF TypeOK
  <2>2. md5 \in BOOLEAN
    BY DEF Mem!Md5
  <2>3. QED
    BY <1>3, <2>1, <2>2 DEF Mem!Writer
<1>5. new \in Local
  BY <1>4, Constants DEF Local
<1> HIDE DEF w
<1>6. /\ new.writer = w /\ new.pc = "ready" /\ new.seen = NoObject /\ new.seenKey = 0
  BY Constants DEF NewClient
<1> HIDE DEF new
<1>7. Moves(c) /\ client'[c] = new
  BY <1>1, <1>2, <1>5 DEF Moves
<1>8. QED
  BY <1>2, <1>6, <1>7 DEF w

LEMMA CancelFields ==
  ASSUME TypeOK, NEW c \in Clients, Cancel(c)
  PROVE  /\ Moves(c) /\ client'[c].pc = "ready" /\ client[c].pc = "ready"
         /\ client'[c].writer = [client[c].writer EXCEPT !.cancelled = TRUE]
         /\ client'[c].seen = client[c].seen /\ client'[c].seenKey = client[c].seenKey
<1>1. client \in [Clients -> Local] /\ client[c] \in Local
  BY IsLocal
<1> DEFINE w == [client[c].writer EXCEPT !.cancelled = TRUE]
           new == [client[c] EXCEPT !.writer = w]
<1>2. client' = [client EXCEPT ![c] = new] /\ client[c].pc = "ready"
  BY <1>1 DEF Cancel, Ready, Local
<1>3. w \in Mem!Writer
  BY <1>1 DEF Local, Mem!Writer
<1>4. new \in Local
  BY <1>1, <1>3 DEF Local
<1>5. QED
  BY <1>1, <1>2, <1>4 DEF Moves, Local

\* The steps under the mutex that change only how far the call has come.
LEMMA PcFields ==
  ASSUME TypeOK, NEW c \in Clients, NEW pc \in PCs, client' = [client EXCEPT ![c].pc = pc]
  PROVE  /\ Moves(c) /\ client'[c].pc = pc /\ client'[c].job = client[c].job
         /\ client'[c].writer = client[c].writer
         /\ client'[c].seen = client[c].seen /\ client'[c].seenKey = client[c].seenKey
<1>1. client \in [Clients -> Local] /\ client[c] \in Local
  BY IsLocal
<1> DEFINE new == [client[c] EXCEPT !.pc = pc]
<1>2. client' = [client EXCEPT ![c] = new]
  BY <1>1 DEF Local
<1>3. new \in Local
  BY <1>1 DEF Local
<1>4. QED
  BY <1>1, <1>2, <1>3, SMTT(30) DEF Moves, Local

\* A call that ends without having changed anything but its own temp file, and
\* one that takes the mutex.
Quits(c, o) ==
  /\ Ready(c)
  /\ (Return(c, o) /\ UNCHANGED tmp) \/ (HasWriter(c) /\ Closed(c, o))
  /\ UNCHANGED <<files, counters, lock, failures, orphans, torn>>
Begins(c, pc, job) ==
  /\ Ready(c) /\ Free(c) /\ Acquire(c) /\ Begin(c, pc, job)
  /\ pc # "unlink" => Room
  /\ UNCHANGED <<files, tmp, counters, failures, orphans, torn>>
\* What the call that takes the mutex is going to do.
Due(c, pc, job) ==
  LET w == client[c].writer IN
  /\ job.key \in Keys /\ job.current = readAttributes(job.key)
  /\ \/ /\ pc = "rename" /\ HasWriter(c)
        /\ ~w.cancelled /\ w.md5 /\ Mem!conditionsPass(w.pre, job.current)
        /\ job.key = w.key /\ job.body = w.body /\ job.of = w.body /\ ~job.md
     \/ /\ pc = "rename" /\ ~HasWriter(c)
        /\ \E src \in Keys : LET o == readAttributes(src) IN
             Mem!Exists(o) /\ job.body = o.body /\ job.of = o.of /\ job.md = o.md
     \/ /\ pc = "sidecar" /\ ~HasWriter(c) /\ Mem!Exists(job.current)
        /\ job.body = job.current.body /\ job.of = job.current.of /\ job.md
     \/ /\ pc = "unlink" /\ ~HasWriter(c) /\ Mem!Exists(job.current)
        /\ \E pre \in Mem!Asked(client[c].seen) :
             ~Mem!Contradictory(pre) /\ Mem!conditionsPass(pre, job.current)
Opens(c) ==
  \E k \in Keys, pre \in Mem!Asked(client[c].seen) :
    ~Mem!Contradictory(pre) /\ \E md5 \in Mem!Md5(pre) : NewWriter(c, k, pre, md5)

LEMMA CopyKinds ==
  ASSUME TypeOK, NEW c \in Clients, NEW k \in Keys, NEW src \in Keys, Copy(c, k, src)
  PROVE  \/ Quits(c, "not found")
         \/ \E job \in Job : Begins(c, "rename", job) /\ Due(c, "rename", job)
<1> DEFINE o == readAttributes(src)
<1>1. CASE ~Mem!Exists(o)
  BY <1>1 DEF Copy, Quits, Idle
<1>2. CASE Mem!Exists(o)
  <2> DEFINE job == [key |-> k, body |-> o.body, of |-> o.of, md |-> o.md,
                     current |-> readAttributes(k)]
  <2>1. job \in Job
    BY NewJobs
  <2>2. Begins(c, "rename", job) /\ ~HasWriter(c)
    BY <1>2 DEF Copy, Begins, Idle
  <2>3. Due(c, "rename", job)
    BY <1>2, <2>2 DEF Due
  <2>4. QED
    BY <2>1, <2>2, <2>3
<1>3. QED
  BY <1>1, <1>2

LEMMA UpdateKinds ==
  ASSUME TypeOK, NEW c \in Clients, NEW k \in Keys, UpdateMetadata(c, k)
  PROVE  \/ Quits(c, "not found")
         \/ \E job \in Job : Begins(c, "sidecar", job) /\ Due(c, "sidecar", job)
<1> DEFINE o == readAttributes(k)
<1>1. CASE ~Mem!Exists(o)
  BY <1>1 DEF UpdateMetadata, Quits, Idle
<1>2. CASE Mem!Exists(o)
  <2> DEFINE job == [key |-> k, body |-> o.body, of |-> o.of, md |-> TRUE, current |-> o]
  <2>1. job \in Job
    BY NewJobs
  <2>2. Begins(c, "sidecar", job) /\ ~HasWriter(c)
    BY <1>2 DEF UpdateMetadata, Begins, Idle
  <2>3. Due(c, "sidecar", job)
    BY <1>2, <2>2 DEF Due
  <2>4. QED
    BY <2>1, <2>2, <2>3
<1>3. QED
  BY <1>1, <1>2

LEMMA DeleteKinds ==
  ASSUME TypeOK, NEW c \in Clients, NEW k \in Keys, NEW pre \in Mem!Asked(client[c].seen),
         Delete(c, k, pre)
  PROVE  \/ \E o \in {"invalid option", "not found", "precondition failed"} : Quits(c, o)
         \/ \E job \in Job : Begins(c, "unlink", job) /\ Due(c, "unlink", job)
<1> DEFINE o == readAttributes(k)
           job == [NoJob EXCEPT !.key = k, !.current = o]
           go == ~Mem!Contradictory(pre) /\ Free(c) /\ Mem!Exists(o) /\ Mem!conditionsPass(pre, o)
<1>1. job \in Job /\ job.key = k /\ job.current = o
  BY NewJobs DEF NoJob
<1>2. CASE go /\ Acquire(c) /\ Begin(c, "unlink", job)
  <2>1. Begins(c, "unlink", job) /\ ~HasWriter(c)
    BY <1>2 DEF Delete, Begins, Idle
  <2>2. Due(c, "unlink", job)
    BY <1>1, <1>2, <2>1 DEF Due
  <2>3. QED
    BY <1>1, <2>1, <2>2
<1>3. CASE Return(c, "invalid option") /\ UNCHANGED lock
  BY <1>3 DEF Delete, Quits, Idle
<1>4. CASE Return(c, "not found") /\ UNCHANGED lock
  BY <1>4 DEF Delete, Quits, Idle
<1>5. CASE Return(c, "precondition failed") /\ UNCHANGED lock
  BY <1>5 DEF Delete, Quits, Idle
<1>6. QED
  BY <1>2, <1>3, <1>4, <1>5 DEF Delete

LEMMA CloseKinds ==
  ASSUME TypeOK, NEW c \in Clients, client[c].writer.key \in Keys, Close(c)
  PROVE  \/ \E o \in {"error", "invalid option", "precondition failed"} : Quits(c, o)
         \/ \E job \in Job : Begins(c, "rename", job) /\ Due(c, "rename", job)
<1> DEFINE w == client[c].writer
           o == readAttributes(w.key)
           job == [key |-> w.key, body |-> w.body, of |-> w.body, md |-> FALSE, current |-> o]
           go == ~w.cancelled /\ w.md5 /\ Free(c) /\ Mem!conditionsPass(w.pre, o) /\ Room
<1>1. job \in Job
  <2>1. w.body \in 0 .. MaxBodies
    BY IsLocal DEF Local, Mem!Writer
  <2>2. QED
    BY <2>1, NewJobs
<1>2. CASE go /\ Acquire(c) /\ Begin(c, "rename", job) /\ UNCHANGED tmp
  <2>1. Begins(c, "rename", job) /\ HasWriter(c)
    BY <1>2 DEF Close, Begins
  <2>2. Due(c, "rename", job)
    BY <1>2, <2>1 DEF Due
  <2>3. QED
    BY <1>1, <2>1, <2>2
<1>3. CASE Closed(c, "error") /\ UNCHANGED lock
  BY <1>3 DEF Close, Quits
<1>4. CASE Closed(c, "invalid option") /\ UNCHANGED lock
  BY <1>4 DEF Close, Quits
<1>5. CASE Closed(c, "precondition failed") /\ UNCHANGED lock
  BY <1>5 DEF Close, Quits
<1>6. QED
  BY <1>2, <1>3, <1>4, <1>5 DEF Close

LEMMA Kinds ==
  ASSUME TypeOK, NEW c \in Clients, ClientStep(c), HasWriter(c) => client[c].writer.key \in Keys
  PROVE  \/ \E k \in Keys : Attributes(c, k)
         \/ \E o \in Mem!Outcomes : Quits(c, o)
         \/ \E pc \in {"rename", "sidecar", "unlink"}, job \in Job :
              Begins(c, pc, job) /\ Due(c, pc, job)
         \/ Opens(c) \/ Cancel(c) \/ CallFails(c)
         \/ RenameData(c) \/ WriteSidecar(c) \/ RemoveData(c) \/ RemoveSidecar(c)
<1> DEFINE Quit == \E o \in Mem!Outcomes : Quits(c, o)
           Go == \E pc \in {"rename", "sidecar", "unlink"}, job \in Job :
                   Begins(c, pc, job) /\ Due(c, pc, job)
<1>0. {"error", "invalid option", "precondition failed", "not found", "ok"} \subseteq Mem!Outcomes
  BY DEF Mem!Outcomes
<1>1. ASSUME NEW k \in Keys, NEW src \in Keys, Copy(c, k, src) PROVE Quit \/ Go
  BY <1>0, <1>1, CopyKinds
<1>2. ASSUME NEW k \in Keys, UpdateMetadata(c, k) PROVE Quit \/ Go
  BY <1>0, <1>2, UpdateKinds
<1>3. ASSUME NEW k \in Keys, NEW pre \in Mem!Asked(client[c].seen), Delete(c, k, pre)
      PROVE  Quit \/ Go
  BY <1>0, <1>3, DeleteKinds
<1>4. ASSUME NEW k \in Keys, NEW pre \in Mem!Asked(client[c].seen), NEW md5 \in Mem!Md5(pre),
             NewWriter(c, k, pre, md5)
      PROVE  Opens(c) \/ Quit
  <2>1. CASE Mem!Contradictory(pre)
    <3>1. Quits(c, "invalid option")
      BY <1>4, <2>1 DEF NewWriter, Quits, Idle, counters
    <3>2. QED
      BY <1>0, <3>1
  <2>2. CASE ~Mem!Contradictory(pre)
    BY <1>4, <2>2 DEF Opens
  <2>3. QED
    BY <2>1, <2>2
<1>5. CASE Close(c)
  <2>1. HasWriter(c)
    BY <1>5 DEF Close
  <2>2. QED
    BY <1>0, <1>5, <2>1, CloseKinds
<1>6. CASE CloseWithError(c)
  <2>1. Quits(c, "ok")
    BY <1>6 DEF CloseWithError, Quits
  <2>2. QED
    BY <1>0, <2>1
<1> HIDE DEF Quit, Go
<1>7. \/ \E k \in Keys : Attributes(c, k)
      \/ Quit \/ Go \/ Opens(c) \/ Cancel(c) \/ CallFails(c)
      \/ RenameData(c) \/ WriteSidecar(c) \/ RemoveData(c) \/ RemoveSidecar(c)
  BY <1>1, <1>2, <1>3, <1>4, <1>5, <1>6 DEF ClientStep, Locked, Quit, Go
<1>8. QED
  BY <1>7 DEF Quit, Go

-----------------------------------------------------------------------------
(* The types, and the versions that are left.                              *)

LEMMA PendingIsFinite == IsFiniteSet(Pending)
BY FS_Subset, FileAssumption DEF Pending

LEMMA PendingShrinks ==
  ASSUME TypeInv, nextVersion' = nextVersion, Pending' \subseteq Pending
  PROVE  nextVersion' + Cardinality(Pending)' <= MaxVersion
<1>1. Cardinality(Pending') <= Cardinality(Pending) /\ IsFiniteSet(Pending')
  BY PendingIsFinite, FS_Subset
<1>2. Cardinality(Pending) \in Nat /\ Cardinality(Pending') \in Nat
  BY <1>1, PendingIsFinite, FS_CardinalityType
<1>3. nextVersion \in Nat /\ MaxVersion \in Nat
  BY FileAssumption, SMTT(30) DEF TypeInv, TypeOK
<1>4. QED
  BY <1>1, <1>2, <1>3, SMTT(30) DEF TypeInv

LEMMA PendingMoves ==
  ASSUME NEW c \in Clients, Moves(c)
  PROVE  /\ client'[c].pc \in {"rename", "sidecar"} => Pending' = Pending \cup {c}
         /\ client'[c].pc \notin {"rename", "sidecar"} => Pending' = Pending \ {c}
BY DEF Moves, Pending

LEMMA PendingBegins ==
  ASSUME TypeInv, NEW c \in Clients, NEW pc \in PCs, NEW job \in Job, Begins(c, pc, job)
  PROVE  nextVersion' + Cardinality(Pending)' <= MaxVersion
<1>1. Moves(c) /\ client'[c].pc = pc /\ client[c].pc = "ready" /\ nextVersion' = nextVersion
  BY BeginFields DEF Begins, TypeInv, Ready, counters
<1>2. CASE pc \in {"rename", "sidecar"}
  <2>1. Pending' = Pending \cup {c} /\ c \notin Pending
    BY <1>1, <1>2, PendingMoves DEF Pending
  <2>2. Cardinality(Pending') = Cardinality(Pending) + 1
    BY <2>1, PendingIsFinite, FS_AddElement
  <2>3. nextVersion + Cardinality(Pending) < MaxVersion
    BY <1>2 DEF Begins, Room, Pending
  <2>4. Cardinality(Pending) \in Nat /\ nextVersion \in Nat /\ MaxVersion \in Nat
    BY PendingIsFinite, FS_CardinalityType, FileAssumption, SMTT(30) DEF TypeInv, TypeOK
  <2>5. QED
    BY <1>1, <2>2, <2>3, <2>4, SMTT(30)
<1>3. CASE pc \notin {"rename", "sidecar"}
  <2>1. Pending' \subseteq Pending
    BY <1>1, <1>3, PendingMoves
  <2>2. QED
    BY <1>1, <2>1, PendingShrinks
<1>4. QED
  BY <1>2, <1>3

LEMMA PendingWrites ==
  ASSUME TypeInv, NEW c \in Clients, WriteSidecar(c)
  PROVE  /\ nextVersion < MaxVersion
         /\ nextVersion' + Cardinality(Pending)' <= MaxVersion
<1>1. Moves(c) /\ client'[c].pc = "ready" /\ client[c].pc = "sidecar" /\ nextVersion' = nextVersion + 1
  BY ClosedFields DEF WriteSidecar, TypeInv
<1>2. Pending' = Pending \ {c} /\ c \in Pending
  BY <1>1, PendingMoves DEF Pending
<1>3. IsFiniteSet(Pending') /\ Cardinality(Pending') = Cardinality(Pending) - 1
  BY <1>2, PendingIsFinite, FS_RemoveElement
<1>4. Cardinality(Pending) \in Nat /\ Cardinality(Pending') \in Nat /\ nextVersion \in Nat /\ MaxVersion \in Nat
  BY <1>3, PendingIsFinite, FS_CardinalityType, FileAssumption, SMTT(30) DEF TypeInv, TypeOK
<1>5. QED
  BY <1>1, <1>3, <1>4, SMTT(30) DEF TypeInv

\* The way out of a call, after which the writer, if there was one, is gone.
LEMMA FailsFields ==
  ASSUME TypeOK, NEW c \in Clients, CallFails(c)
  PROVE  /\ Moves(c) /\ client'[c].pc = "ready" /\ client'[c].job = NoJob
         /\ client'[c].writer = Mem!NoWriter
         /\ client'[c].seen = client[c].seen /\ client'[c].seenKey = client[c].seenKey
         /\ tmp' = IF HasWriter(c) THEN tmp \ {client[c].writer.body} ELSE tmp
         /\ Reports(c, "error")
<1>1. CASE HasWriter(c)
  <2>1. Closed(c, "error")
    BY <1>1 DEF CallFails
  <2>2. QED
    BY <1>1, <2>1, ClosedFields DEF Closed
<1>2. CASE ~HasWriter(c)
  <2>1. Return(c, "error") /\ UNCHANGED tmp
    BY <1>2 DEF CallFails
  <2>2. QED
    BY <1>2, <2>1, ReturnFields DEF Return, HasWriter
<1>3. QED
  BY <1>1, <1>2

LEMMA QuitsFields ==
  ASSUME TypeOK, NEW c \in Clients, NEW o \in Mem!Outcomes, Quits(c, o)
  PROVE  /\ Moves(c) /\ client'[c].pc = "ready" /\ client[c].pc = "ready"
         /\ \/ client'[c].writer = client[c].writer /\ tmp' = tmp
            \/ /\ HasWriter(c)
               /\ client'[c].writer = Mem!NoWriter /\ tmp' = tmp \ {client[c].writer.body}
         /\ client'[c].seen = client[c].seen /\ client'[c].seenKey = client[c].seenKey
         /\ Reports(c, o)
<1>1. CASE Return(c, o) /\ UNCHANGED tmp
  BY <1>1, ReturnFields DEF Return, Quits, Ready
<1>2. CASE HasWriter(c) /\ Closed(c, o)
  BY <1>2, ClosedFields DEF Closed, Quits, Ready
<1>3. QED
  BY <1>1, <1>2 DEF Quits

LEMMA RemovesFields ==
  ASSUME TypeOK, NEW c \in Clients, RemoveSidecar(c)
  PROVE  /\ Moves(c) /\ client'[c].pc = "ready" /\ client'[c].job = NoJob
         /\ client'[c].writer = client[c].writer
         /\ client'[c].seen = client[c].seen /\ client'[c].seenKey = client[c].seenKey
<1>1. client \in [Clients -> Local] /\ client[c] \in Local
  BY IsLocal, SMTT(30)
<1> DEFINE new == [client[c] EXCEPT !.pc = "ready", !.job = NoJob]
<1>2. client' = [client EXCEPT ![c] = new]
  BY <1>1 DEF RemoveSidecar, Local
<1>3. new \in Local
  BY <1>1, Constants DEF Local, PCs
<1>4. QED
  BY <1>1, <1>2, <1>3 DEF Moves, Local

LEMMA TypeClient ==
  ASSUME TypeInv, NEW c \in Clients, KeyOf(c), ClientStep(c)
  PROVE  TypeInv'
<1>a. TypeOK
  BY DEF TypeInv
<1>k. HasWriter(c) => client[c].writer.key \in Keys
  BY DEF KeyOf
<1>b. /\ data \in [Keys -> 0 .. MaxBodies]
      /\ meta \in [Keys -> Sidecar] /\ \A k \in Keys : meta[k].version <= nextVersion
      /\ tmp \subseteq 1 .. MaxBodies
      /\ nextVersion \in 0 .. MaxVersion
      /\ nextBody \in 0 .. MaxBodies
      /\ lock \in [Buckets -> Clients \cup {NoClient}]
      /\ client \in [Clients -> Local]
      /\ returned \in [by : Clients \cup {NoClient}, outcome : Mem!Outcomes]
      /\ failures \in 0 .. MaxFailures
      /\ orphans \subseteq 1 .. MaxBodies
      /\ torn \subseteq Keys
      /\ MaxBodies \in Nat /\ MaxVersion \in Nat /\ MaxFailures \in Nat
      /\ BucketOf[c] \in Buckets
  BY <1>a, FileAssumption DEF TypeOK, Local, PCs
<1>c. client' \in [Clients -> Local] =>
        client' \in [Clients -> [pc : {"ready", "rename", "sidecar", "unlink", "unmeta"}, job : Job,
                                 writer : Mem!Writer, seen : Mem!Object, seenKey : Keys \cup {0}]]
  BY DEF Local, PCs
<1>d. ASSUME NEW o \in Mem!Outcomes, Reports(c, o)
      PROVE  returned' \in [by : Clients \cup {NoClient}, outcome : Mem!Outcomes]
  BY <1>d DEF Reports
<1>e. ASSUME Acquire(c) \/ Release(c) \/ UNCHANGED lock
      PROVE  lock' \in [Buckets -> Clients \cup {NoClient}]
  BY <1>b, <1>e DEF Acquire, Release
<1>f. "ok" \in Mem!Outcomes /\ "not found" \in Mem!Outcomes /\ "error" \in Mem!Outcomes
  BY DEF Mem!Outcomes
<1>1. ASSUME NEW k \in Keys, Attributes(c, k) PROVE TypeInv'
  <2>1. Moves(c) /\ client'[c].pc = "ready" /\ client[c].pc = "ready"
        /\ (Reports(c, "ok") \/ Reports(c, "not found"))
    BY <1>a, <1>1, AttributesFields
  <2>2. nextVersion' = nextVersion /\ Pending' \subseteq Pending
    BY <1>1, <2>1, PendingMoves DEF Attributes, counters
  <2>3. TypeOK'
    BY <1>b, <1>c, <1>d, <1>f, <1>1, <2>1 DEF Attributes, TypeOK, files, counters, Moves
  <2>4. QED
    BY <2>2, <2>3, PendingShrinks DEF TypeInv
<1>2. ASSUME NEW o \in Mem!Outcomes, Quits(c, o) PROVE TypeInv'
  <2>1. Moves(c) /\ client'[c].pc = "ready" /\ Reports(c, o) /\ tmp' \subseteq tmp
    BY <1>a, <1>2, QuitsFields
  <2>2. nextVersion' = nextVersion /\ Pending' \subseteq Pending
    BY <1>2, <2>1, PendingMoves DEF Quits, counters
  <2>3. TypeOK'
    BY <1>b, <1>c, <1>d, <1>2, <2>1 DEF Quits, TypeOK, files, counters, Moves
  <2>4. QED
    BY <2>2, <2>3, PendingShrinks DEF TypeInv
<1>3. ASSUME NEW pc \in {"rename", "sidecar", "unlink"}, NEW job \in Job, Begins(c, pc, job)
      PROVE  TypeInv'
  <2>0. pc \in PCs
    BY DEF PCs
  <2>1. Moves(c) /\ returned' = returned
    BY <1>a, <1>3, <2>0, BeginFields DEF Begins, Begin
  <2>2. nextVersion' + Cardinality(Pending)' <= MaxVersion
    BY <1>3, <2>0, PendingBegins
  <2>3. TypeOK'
    BY <1>b, <1>c, <1>e, <1>3, <2>1 DEF Begins, TypeOK, files, counters, Moves
  <2>4. QED
    BY <2>2, <2>3 DEF TypeInv
<1>4. CASE Opens(c)
  <2>1. /\ Moves(c) /\ client'[c].pc = "ready"
        /\ nextBody < MaxBodies /\ nextBody' = nextBody + 1 /\ tmp' = tmp \cup {nextBody + 1}
        /\ UNCHANGED <<files, nextVersion, lock, failures, orphans, torn, returned>>
    BY <1>a, <1>4, NewWriterFields DEF Opens
  <2>2. nextVersion' = nextVersion /\ Pending' \subseteq Pending
    BY <2>1, PendingMoves
  <2>3. nextBody' \in 0 .. MaxBodies /\ tmp' \subseteq 1 .. MaxBodies
    <3>1. MaxBodies \in Nat /\ nextBody \in 0 .. MaxBodies /\ tmp \subseteq 1 .. MaxBodies
      BY <1>b
    <3>2. nextBody < MaxBodies /\ nextBody' = nextBody + 1 /\ tmp' = tmp \cup {nextBody + 1}
      BY <2>1
    <3>3. QED
      BY <3>1, <3>2, SMTT(30)
  <2>4. TypeOK'
    BY <1>b, <1>c, <2>1, <2>3 DEF TypeOK, files, Moves
  <2>5. QED
    BY <2>2, <2>4, PendingShrinks DEF TypeInv
<1>5. CASE Cancel(c)
  <2>1. Moves(c) /\ client'[c].pc = "ready"
    BY <1>a, <1>5, CancelFields
  <2>2. nextVersion' = nextVersion /\ Pending' \subseteq Pending
    BY <1>5, <2>1, PendingMoves DEF Cancel, counters
  <2>3. TypeOK'
    BY <1>b, <1>c, <1>5, <2>1 DEF Cancel, TypeOK, files, counters, Moves
  <2>4. QED
    BY <2>2, <2>3, PendingShrinks, SMTT(30) DEF TypeInv
<1>6. CASE CallFails(c)
  <2>1. Moves(c) /\ client'[c].pc = "ready" /\ tmp' \subseteq tmp /\ Reports(c, "error")
    BY <1>a, <1>6, FailsFields
  <2>2. nextVersion' = nextVersion /\ Pending' \subseteq Pending
    BY <1>6, <2>1, PendingMoves DEF CallFails, counters
  <2>3. torn' \subseteq Keys
    BY <1>b, <1>6 DEF CallFails, Torn, KeyOf, Ready
  <2>4. failures' \in 0 .. MaxFailures /\ (Release(c) \/ UNCHANGED lock)
    BY <1>b, <1>6, SMTT(30) DEF CallFails, FailOnce
  <2>5. TypeOK'
    BY <1>b, <1>c, <1>d, <1>e, <1>f, <1>6, <2>1, <2>3, <2>4
    DEF CallFails, TypeOK, files, counters, Moves
  <2>6. QED
    BY <2>2, <2>5, PendingShrinks, SMTT(30) DEF TypeInv
<1>7. CASE RenameData(c)
  <2>1. Moves(c) /\ client[c].pc = "rename" /\ client'[c].pc = "sidecar"
    BY <1>a, <1>7, PcFields DEF RenameData, PCs
  <2>2. nextVersion' = nextVersion /\ Pending' \subseteq Pending
    BY <1>7, <2>1, PendingMoves, SMTT(30) DEF RenameData, counters, Pending
  <2>3. client[c].job.key \in Keys /\ client[c].job.body \in 0 .. MaxBodies
    BY <1>b, <2>1 DEF Local, Job, KeyOf, Ready
  <2>4. data' \in [Keys -> 0 .. MaxBodies] /\ tmp' \subseteq tmp
    BY <1>b, <1>7, <2>3 DEF RenameData
  <2>5. TypeOK'
    BY <1>b, <1>c, <1>7, <2>1, <2>4 DEF RenameData, TypeOK, counters, Moves
  <2>6. QED
    BY <2>2, <2>5, PendingShrinks, SMTT(30) DEF TypeInv
<1>8. CASE WriteSidecar(c)
  <2> DEFINE job == client[c].job
             new == [of |-> job.of, md |-> job.md, version |-> nextVersion + 1]
  <2>1. Moves(c) /\ tmp' \subseteq tmp /\ Reports(c, "ok") /\ client[c].pc = "sidecar"
    BY <1>a, <1>8, ClosedFields DEF WriteSidecar, Closed
  <2>2. nextVersion < MaxVersion /\ nextVersion' + Cardinality(Pending)' <= MaxVersion
    BY <1>8, PendingWrites
  <2>3. job.key \in Keys /\ job.of \in 0 .. MaxBodies /\ job.md \in BOOLEAN
    BY <1>b, <2>1 DEF Local, Job, KeyOf, Ready
  <2>4. new \in Sidecar /\ new.version = nextVersion + 1 /\ nextVersion' = nextVersion + 1
    BY <1>b, <1>8, <2>2, <2>3, SMTT(30) DEF Sidecar, Mem!Tokens, WriteSidecar
  <2>5. meta' = [meta EXCEPT ![job.key] = new]
    BY <1>8 DEF WriteSidecar
  <2> HIDE DEF new
  <2>6. meta' \in [Keys -> Sidecar]
    BY <1>b, <2>4, <2>5
  <2>7. ASSUME NEW k \in Keys PROVE meta'[k].version <= nextVersion'
    <3>1. CASE k = job.key
      BY <1>b, <2>3, <2>4, <2>5, <3>1, SMTT(30)
    <3>2. CASE k # job.key
      <4>1. meta'[k] = meta[k] /\ meta[k].version \in Nat
        BY <1>b, <2>5, <3>2, SMTT(30) DEF Sidecar, Mem!Tokens
      <4>2. QED
        BY <1>b, <2>4, <4>1, SMTT(30)
    <3>3. QED
      BY <3>1, <3>2
  <2>8. torn' \subseteq Keys /\ nextVersion' \in 0 .. MaxVersion
    BY <1>b, <1>8, <2>2, <2>3, <2>4, SMTT(30) DEF WriteSidecar, Mends
  <2>9. UNCHANGED <<data, nextBody, failures, orphans>> /\ Release(c)
    BY <1>8 DEF WriteSidecar
  <2>10. TypeOK'
    BY <1>b, <1>c, <1>d, <1>e, <1>f, <2>1, <2>6, <2>7, <2>8, <2>9 DEF TypeOK, Moves
  <2>11. QED
    BY <2>2, <2>10 DEF TypeInv
<1>9. CASE RemoveData(c)
  <2>1. Moves(c) /\ client[c].pc = "unlink" /\ client'[c].pc = "unmeta"
    BY <1>a, <1>9, PcFields DEF RemoveData, PCs
  <2>2. nextVersion' = nextVersion /\ Pending' \subseteq Pending
    BY <1>9, <2>1, PendingMoves DEF RemoveData, counters
  <2>3. data' \in [Keys -> 0 .. MaxBodies] /\ torn' \subseteq torn /\ Reports(c, "ok")
    <3>1. data' = [data EXCEPT ![client[c].job.key] = 0] /\ 0 \in 0 .. MaxBodies
      BY <1>b, <1>9, SMTT(30) DEF RemoveData
    <3>2. data' \in [Keys -> 0 .. MaxBodies]
      BY <1>b, <3>1
    <3>3. torn' \subseteq torn /\ Reports(c, "ok")
      BY <1>9 DEF RemoveData
    <3>4. QED
      BY <3>2, <3>3
  <2>4. TypeOK'
    BY <1>b, <1>c, <1>d, <1>f, <1>9, <2>1, <2>3 DEF RemoveData, TypeOK, counters, Moves
  <2>5. QED
    BY <2>2, <2>4, PendingShrinks, SMTT(30) DEF TypeInv
<1>10. CASE RemoveSidecar(c)
  <2>1. Moves(c) /\ client[c].pc = "unmeta" /\ client'[c].pc = "ready"
    BY <1>a, <1>10, RemovesFields DEF RemoveSidecar
  <2>2. nextVersion' = nextVersion /\ Pending' \subseteq Pending
    BY <1>10, <2>1, PendingMoves DEF RemoveSidecar, counters
  <2>3. NoSidecar \in Sidecar /\ NoSidecar.version = 0
    BY <1>b, SMTT(30) DEF NoSidecar, Sidecar, Mem!Tokens
  <2>4. meta' = meta \/ meta' = [meta EXCEPT ![client[c].job.key] = NoSidecar]
    BY <1>10 DEF RemoveSidecar
  <2> HIDE DEF NoSidecar
  <2>5. meta' \in [Keys -> Sidecar] /\ \A k \in Keys : meta'[k].version <= nextVersion
    BY <1>b, <2>3, <2>4, SMTT(30)
  <2>6. failures' \in 0 .. MaxFailures /\ Release(c)
    BY <1>b, <1>10, SMTT(30) DEF RemoveSidecar
  <2>7. TypeOK'
    BY <1>b, <1>c, <1>e, <1>10, <2>1, <2>5, <2>6 DEF RemoveSidecar, TypeOK, counters, Moves
  <2>8. QED
    BY <2>2, <2>7, PendingShrinks, SMTT(30) DEF TypeInv
<1>11. QED
  BY <1>a, <1>k, <1>1, <1>2, <1>3, <1>4, <1>5, <1>6, <1>7, <1>8, <1>9, <1>10, Kinds

LEMMA CrashFields ==
  ASSUME TypeOK, NEW b \in Buckets, Crash(b)
  PROVE  /\ client' \in [Clients -> Local]
         /\ \A c \in Clients : client'[c] = IF BucketOf[c] = b THEN NewClient ELSE client[c]
         /\ lock' \in [Buckets -> Clients \cup {NoClient}]
         /\ lock'[b] = NoClient /\ \A x \in Buckets \ {b} : lock'[x] = lock[x]
         /\ UNCHANGED <<data, meta, tmp, nextVersion, nextBody, returned>>
BY IsLocal, Constants DEF Crash, TypeOK, files, counters

LEMMA TypeCrash ==
  ASSUME TypeInv, Keyed, NEW b \in Buckets, Crash(b)
  PROVE  TypeInv'
<1>1. TypeOK
  BY DEF TypeInv
<1>2. Pending' \subseteq Pending /\ nextVersion' = nextVersion
  BY <1>1, CrashFields, Constants DEF Pending
<1>3. torn' \subseteq Keys
  <2>1. \A c \in Clients : Torn(c) => client[c].job.key \in Keys
    BY DEF Torn, Keyed, KeyOf, Ready
  <2>2. torn' = torn \cup {client[c].job.key : c \in {d \in {e \in Clients : BucketOf[e] = b} : Torn(d)}}
    BY DEF Crash
  <2>3. torn \subseteq Keys
    BY <1>1 DEF TypeOK
  <2>4. QED
    BY <2>1, <2>2, <2>3
<1>4. orphans' \subseteq 1 .. MaxBodies /\ failures' \in 0 .. MaxFailures
  <2>1. orphans' \subseteq orphans \cup tmp /\ failures < MaxFailures /\ failures' = failures + 1
    BY DEF Crash, FailOnce
  <2>2. QED
    BY <1>1, <2>1, FileAssumption, SMTT(30) DEF TypeOK
<1>5. TypeOK'
  BY <1>1, <1>3, <1>4, CrashFields DEF TypeOK, Local, PCs
<1>6. QED
  BY <1>2, <1>5, PendingShrinks DEF TypeInv

LEMMA KeysClient ==
  ASSUME TypeOK, Keyed, NEW c \in Clients, ClientStep(c)
  PROVE  Keyed'
<1>k. HasWriter(c) => client[c].writer.key \in Keys
  BY DEF Keyed, KeyOf
<1>s. ASSUME Moves(c), KeyOf(c)' PROVE Keyed'
  BY <1>s, SMTT(30) DEF Keyed, KeyOf, Moves, Ready, HasWriter
<1>1. ASSUME NEW k \in Keys, Attributes(c, k) PROVE Keyed'
  BY <1>k, <1>s, <1>1, AttributesFields DEF KeyOf, Ready, HasWriter
<1>2. ASSUME NEW o \in Mem!Outcomes, Quits(c, o) PROVE Keyed'
  BY <1>k, <1>s, <1>2, QuitsFields DEF KeyOf, Ready, HasWriter
<1>3. ASSUME NEW pc \in {"rename", "sidecar", "unlink"}, NEW job \in Job, Begins(c, pc, job),
             Due(c, pc, job)
      PROVE  Keyed'
  <2>1. Moves(c) /\ client'[c].job = job /\ client'[c].writer = client[c].writer
    BY <1>3, BeginFields, SMTT(30) DEF Begins, PCs
  <2>2. QED
    BY <1>k, <1>s, <1>3, <2>1, SMTT(30) DEF Due, KeyOf, HasWriter
<1>4. CASE Opens(c)
  <2>0. PICK k \in Keys, pre \in Mem!Asked(client[c].seen) :
          ~Mem!Contradictory(pre) /\ \E md5 \in Mem!Md5(pre) : NewWriter(c, k, pre, md5)
    BY <1>4 DEF Opens
  <2>1. PICK md5 \in Mem!Md5(pre) : NewWriter(c, k, pre, md5)
    BY <2>0
  <2>2. Moves(c) /\ client'[c].pc = "ready" /\ client'[c].writer =
          [key |-> k, pre |-> pre, body |-> nextBody + 1, md5 |-> md5, cancelled |-> FALSE]
    BY <2>0, <2>1, NewWriterFields, SMTT(30)
  <2>3. QED
    BY <1>s, <2>2, SMTT(30) DEF KeyOf, Ready
<1>5. CASE Cancel(c)
  <2>1. Moves(c) /\ client'[c].pc = "ready" /\ HasWriter(c)
        /\ client'[c].writer = [client[c].writer EXCEPT !.cancelled = TRUE]
    BY <1>5, CancelFields DEF Cancel
  <2>2. client[c].writer \in Mem!Writer
    BY IsLocal DEF Local
  <2>3. client'[c].writer.key = client[c].writer.key
    BY <2>1, <2>2 DEF Mem!Writer
  <2>4. QED
    BY <1>k, <1>s, <2>1, <2>3 DEF KeyOf, Ready
<1>6. CASE CallFails(c)
  BY <1>s, <1>6, FailsFields DEF KeyOf, Ready, HasWriter
<1>7. CASE RenameData(c) \/ RemoveData(c)
  <2>1. \E pc \in PCs : client' = [client EXCEPT ![c].pc = pc]
    BY <1>7 DEF RenameData, RemoveData, PCs
  <2>2. Moves(c) /\ client'[c].job = client[c].job /\ client'[c].writer = client[c].writer
    BY <2>1, PcFields
  <2>3. client[c].job.key \in Keys
    BY <1>7 DEF RenameData, RemoveData, Keyed, KeyOf, Ready
  <2>4. QED
    BY <1>k, <1>s, <2>2, <2>3 DEF KeyOf, HasWriter
<1>8. CASE WriteSidecar(c)
  BY <1>s, <1>8, ClosedFields DEF WriteSidecar, KeyOf, Ready, HasWriter
<1>9. CASE RemoveSidecar(c)
  BY <1>k, <1>s, <1>9, RemovesFields, SMTT(30) DEF KeyOf, Ready, HasWriter
<1>10. QED
  BY <1>k, <1>1, <1>2, <1>3, <1>4, <1>5, <1>6, <1>7, <1>8, <1>9, Kinds

LEMMA TypeStep ==
  ASSUME TypeInv, Keyed, [Next]_vars
  PROVE  TypeInv' /\ Keyed'
<1>1. ASSUME NEW c \in Clients, ClientStep(c) PROVE TypeInv' /\ Keyed'
  BY <1>1, TypeClient, KeysClient DEF Keyed, TypeInv
<1>2. ASSUME NEW b \in Buckets, Crash(b) PROVE TypeInv' /\ Keyed'
  <2>1. Keyed'
    BY <1>2, CrashFields, Constants DEF Keyed, KeyOf, Ready, HasWriter, TypeInv
  <2>2. QED
    BY <1>2, <2>1, TypeCrash
<1>3. CASE UNCHANGED vars
  BY <1>3 DEF vars, TypeInv, TypeOK, Pending, Keyed, KeyOf, Ready, HasWriter
<1>4. QED
  BY <1>1, <1>2, <1>3, NextIsClientOrCrash

LEMMA InitType == Init => TypeInv /\ Keyed
<1> SUFFICES ASSUME Init PROVE TypeInv /\ Keyed
  OBVIOUS
<1>1. client = [c \in Clients |-> NewClient] /\ Pending = {}
  BY Constants DEF Init, Pending
<1>2. NoSidecar \in Sidecar /\ NoSidecar.version = 0
  BY FileAssumption, SMTT(30) DEF NoSidecar, Sidecar, Mem!Tokens
<1>3. client \in [Clients -> Local]
  BY <1>1, Constants
<1>4. TypeOK
  BY <1>2, <1>3, FileAssumption, SMTT(30) DEF Init, TypeOK, Local, PCs, Mem!Outcomes
<1>5. nextVersion + Cardinality(Pending) <= MaxVersion
  BY <1>1, FS_EmptySet, FileAssumption, SMTT(30) DEF Init
<1>6. QED
  BY <1>1, <1>4, <1>5, Constants DEF TypeInv, Keyed, KeyOf, Ready, HasWriter

\* Whatever the clients and the filesystem do, every variable has its type, and no
\* sidecar has a version that was not handed out.
THEOREM TypeCorrect == Spec => []TypeOK
<1>1. Init => TypeInv /\ Keyed
  BY InitType
<1>2. TypeInv /\ Keyed /\ [Next]_vars => (TypeInv /\ Keyed)'
  BY TypeStep
<1>3. TypeInv => TypeOK
  BY DEF TypeInv
<1>4. QED
  BY <1>1, <1>2, <1>3, PTL DEF Spec

-----------------------------------------------------------------------------
(* The mutexes.                                                            *)

LEMMA LockStays ==
  ASSUME Locks, NEW c \in Clients, Moves(c), UNCHANGED lock,
         client'[c].pc = "ready" <=> client[c].pc = "ready"
  PROVE  Locks'
BY DEF Locks, Ready, Moves

LEMMA LockTaken ==
  ASSUME TypeOK, Locks, NEW c \in Clients, Moves(c), Free(c), Acquire(c), client'[c].pc # "ready"
  PROVE  Locks'
<1>1. BucketOf[c] \in Buckets /\ NoClient \notin Clients /\ BucketOf \in [Clients -> Buckets]
  BY FileAssumption
<1>2. lock'[BucketOf[c]] = c /\ \A b \in Buckets \ {BucketOf[c]} : lock'[b] = lock[b]
  BY <1>1, SMTT(30) DEF TypeOK, Acquire
<1>3. ASSUME NEW d \in Clients \ {c}
      PROVE  client'[d].pc = client[d].pc /\ (lock'[BucketOf[d]] = d <=> lock[BucketOf[d]] = d)
  BY <1>1, <1>2, SMTT(30) DEF Moves, Free
<1>4. QED
  BY <1>1, <1>2, <1>3, SMTT(30) DEF Locks, Ready

LEMMA LockGiven ==
  ASSUME TypeOK, Locks, NEW c \in Clients, Moves(c), client[c].pc # "ready", Release(c),
         client'[c].pc = "ready"
  PROVE  Locks'
<1>1. BucketOf[c] \in Buckets /\ NoClient \notin Clients /\ BucketOf \in [Clients -> Buckets]
  BY FileAssumption
<1>2. lock'[BucketOf[c]] = NoClient /\ \A b \in Buckets \ {BucketOf[c]} : lock'[b] = lock[b]
  BY <1>1, SMTT(30) DEF TypeOK, Release
<1>3. ASSUME NEW d \in Clients \ {c}
      PROVE  client'[d].pc = client[d].pc /\ (lock'[BucketOf[d]] = d <=> lock[BucketOf[d]] = d)
  BY <1>1, <1>2, SMTT(30) DEF Moves, Locks, Ready
<1>4. QED
  BY <1>1, <1>2, <1>3, SMTT(30) DEF Locks, Ready

LEMMA LockClient ==
  ASSUME TypeOK, Keyed, Locks, NEW c \in Clients, ClientStep(c)
  PROVE  Locks'
<1>k. HasWriter(c) => client[c].writer.key \in Keys
  BY DEF Keyed, KeyOf
<1>1. ASSUME NEW k \in Keys, Attributes(c, k) PROVE Locks'
  BY <1>1, AttributesFields, LockStays DEF Attributes
<1>2. ASSUME NEW o \in Mem!Outcomes, Quits(c, o) PROVE Locks'
  BY <1>2, QuitsFields, LockStays DEF Quits
<1>3. ASSUME NEW pc \in {"rename", "sidecar", "unlink"}, NEW job \in Job, Begins(c, pc, job)
      PROVE  Locks'
  <2>1. Moves(c) /\ client'[c].pc = pc
    BY <1>3, BeginFields, SMTT(30) DEF Begins, PCs
  <2>2. QED
    BY <1>3, <2>1, LockTaken DEF Begins
<1>4. CASE Opens(c)
  <2>1. Moves(c) /\ client'[c].pc = "ready" /\ client[c].pc = "ready" /\ UNCHANGED lock
    BY <1>4, NewWriterFields DEF Opens
  <2>2. QED
    BY <2>1, LockStays
<1>5. CASE Cancel(c)
  BY <1>5, CancelFields, LockStays DEF Cancel
<1>6. CASE CallFails(c)
  <2>1. Moves(c) /\ client'[c].pc = "ready"
    BY <1>6, FailsFields
  <2>2. CASE client[c].pc = "ready"
    <3>1. UNCHANGED lock
      BY <1>6, <2>2 DEF CallFails, Locks, Ready
    <3>2. QED
      BY <2>1, <2>2, <3>1, LockStays
  <2>3. CASE client[c].pc # "ready"
    <3>1. Release(c)
      BY <1>6, <2>3 DEF CallFails, Locks, Ready
    <3>2. QED
      BY <2>1, <2>3, <3>1, LockGiven
  <2>4. QED
    BY <2>2, <2>3
<1>7. CASE RenameData(c)
  BY <1>7, PcFields, LockStays DEF RenameData, PCs
<1>8. CASE RemoveData(c)
  BY <1>8, PcFields, LockStays DEF RemoveData, PCs
<1>9. CASE WriteSidecar(c)
  BY <1>9, ClosedFields, LockGiven DEF WriteSidecar
<1>10. CASE RemoveSidecar(c)
  BY <1>10, RemovesFields, LockGiven DEF RemoveSidecar
<1>11. QED
  BY <1>k, <1>1, <1>2, <1>3, <1>4, <1>5, <1>6, <1>7, <1>8, <1>9, <1>10, Kinds

LEMMA LockCrash ==
  ASSUME TypeOK, Locks, NEW b \in Buckets, Crash(b)
  PROVE  Locks'
<1>1. NoClient \notin Clients /\ BucketOf \in [Clients -> Buckets]
  BY FileAssumption
<1>2. ASSUME NEW c \in Clients PROVE Ready(c)' \/ (lock'[BucketOf[c]] = c /\ ~Ready(c))
  BY <1>1, CrashFields, Constants DEF Locks, Ready
<1>3. ASSUME NEW c \in Clients, lock'[BucketOf[c]] = c PROVE ~Ready(c)'
  BY <1>1, <1>3, CrashFields, SMTT(30) DEF Locks, Ready
<1>4. ASSUME NEW x \in Buckets, lock'[x] # NoClient PROVE BucketOf[lock'[x]] = x
  BY <1>4, CrashFields, SMTT(30) DEF Locks
<1>5. QED
  BY <1>2, <1>3, <1>4 DEF Locks

LEMMA LockStep ==
  ASSUME TypeInv, Keyed, Locks, [Next]_vars
  PROVE  Locks'
<1>1. TypeOK
  BY DEF TypeInv
<1>2. CASE UNCHANGED vars
  BY <1>2 DEF vars, Locks, Ready
<1>3. QED
  BY <1>1, <1>2, LockClient, LockCrash, NextIsClientOrCrash, SMTT(30)

LEMMA InitLocks == Init => Locks
BY FileAssumption, Constants, SMTT(30) DEF Init, Locks, Ready

-----------------------------------------------------------------------------
(* The temp files.                                                         *)


\* A client that keeps its writer, or has none.
LEMMA BodyStays ==
  ASSUME Bodies, NEW c \in Clients, Moves(c), UNCHANGED <<data, tmp, nextBody, orphans>>,
         client'[c].writer.body = client[c].writer.body, HasWriter(c)' = HasWriter(c),
         HasBody(c)'
  PROVE  Bodies'
<1>1. ASSUME NEW d \in Clients PROVE HasBody(d)'
  <2>1. CASE d # c
    <3>1. client'[d] = client[d] /\ HasBody(d)
      BY <2>1 DEF Moves, Bodies
    <3>2. QED
      BY <3>1 DEF HasBody, HasWriter, OwnBody, OldBody, Ready
  <2>2. QED
    BY <2>1, SMTT(30)
<1>2. \A d \in Clients : /\ HasWriter(d)' <=> HasWriter(d)
                         /\ client'[d].writer.body = client[d].writer.body
  BY DEF Moves, HasWriter
<1>3. QED
  BY <1>1, <1>2, SMTT(30) DEF Bodies

\* A client that is done with its writer.
LEMMA BodyGoes ==
  ASSUME Bodies, NEW c \in Clients, Moves(c), UNCHANGED <<data, nextBody, orphans>>,
         tmp' = tmp \ {client[c].writer.body}, HasWriter(c),
         client'[c].writer = Mem!NoWriter, client'[c].pc = "ready"
  PROVE  Bodies'
<1> DEFINE body == client[c].writer.body
<1>1. ASSUME NEW d \in Clients PROVE HasBody(d)'
  <2>1. CASE d # c
    <3>1. client'[d] = client[d] /\ HasBody(d) /\ (HasWriter(d) => client[d].writer.body # body)
      BY <2>1 DEF Moves, Bodies
    <3>2. HasWriter(d)' <=> HasWriter(d)
      BY <3>1 DEF HasWriter
    <3>3. CASE HasWriter(d)
      BY <3>1, <3>2, <3>3, SMTT(30) DEF HasBody, OwnBody, Ready
    <3>4. CASE ~HasWriter(d)
      BY <3>1, <3>2, <3>4 DEF HasBody, OldBody
    <3>5. QED
      BY <3>3, <3>4
  <2>2. CASE d = c
    BY <2>2 DEF HasBody, HasWriter, OldBody
  <2>3. QED
    BY <2>1, <2>2
<1>2. ASSUME NEW t \in tmp' \ orphans PROVE \E d \in Clients : HasWriter(d)' /\ client'[d].writer.body = t
  <2>1. PICK d \in Clients : HasWriter(d) /\ client[d].writer.body = t
    BY <1>2 DEF Bodies
  <2>2. d # c
    BY <1>2, <2>1
  <2>3. QED
    BY <2>1, <2>2 DEF Moves, HasWriter
<1>3. ASSUME NEW d \in Clients, NEW e \in Clients, HasWriter(d)', HasWriter(e)', d # e
      PROVE  client'[d].writer.body # client'[e].writer.body
  <2>1. d # c /\ e # c
    BY <1>3 DEF HasWriter
  <2>2. QED
    BY <1>3, <2>1, SMTT(30) DEF Moves, HasWriter, Bodies
<1>4. QED
  BY <1>1, <1>2, <1>3 DEF Bodies

LEMMA BodyOpens ==
  ASSUME TypeOK, Bodies, NEW c \in Clients, Opens(c), ~HasWriter(c)
  PROVE  Bodies'
<1>0. PICK k \in Keys, pre \in Mem!Asked(client[c].seen) :
        ~Mem!Contradictory(pre) /\ \E md5 \in Mem!Md5(pre) : NewWriter(c, k, pre, md5)
  BY DEF Opens
<1>00. PICK md5 \in Mem!Md5(pre) : NewWriter(c, k, pre, md5)
  BY <1>0
<1> DEFINE w == [key |-> k, pre |-> pre, body |-> nextBody + 1, md5 |-> md5, cancelled |-> FALSE]
<1>1. /\ Moves(c) /\ client'[c].pc = "ready" /\ client'[c].writer = w
      /\ nextBody' = nextBody + 1 /\ tmp' = tmp \cup {nextBody + 1}
      /\ UNCHANGED <<data, orphans>>
  BY <1>0, <1>00, NewWriterFields DEF files
<1>2. w.body = nextBody + 1 /\ Mem!NoWriter.body = 0 /\ nextBody \in Nat
  BY FileAssumption, SMTT(30) DEF Mem!NoWriter, TypeOK
<1> HIDE DEF w
<1>3. HasWriter(c)' /\ client'[c].writer.body = nextBody + 1
  BY <1>1, <1>2, SMTT(30) DEF HasWriter
<1>4. /\ tmp \subseteq 1 .. nextBody /\ orphans \subseteq 1 .. nextBody
      /\ \A k2 \in Keys : data[k2] <= nextBody /\ data[k2] \in Nat
  BY SMTT(30) DEF Bodies, TypeOK
<1>5. ASSUME NEW d \in Clients \ {c}
      PROVE  /\ HasBody(d)' /\ client'[d] = client[d] /\ (HasWriter(d)' <=> HasWriter(d))
             /\ HasWriter(d) => client[d].writer.body \in 1 .. nextBody
  <2>1. client'[d] = client[d] /\ HasBody(d) /\ (HasWriter(d)' <=> HasWriter(d))
    BY <1>1 DEF Moves, Bodies, HasWriter
  <2>2. CASE HasWriter(d)
    <3>1. OwnBody(d)
      BY <2>1, <2>2, SMTT(30) DEF HasBody
    <3>2. client[d].writer.body \in 1 .. nextBody /\ client[d].writer.body # nextBody + 1
      BY <1>2, <3>1, SMTT(30) DEF OwnBody
    <3>3. client[d].writer.body \in 1 .. nextBody'
      BY <1>1, <1>2, <3>2, SMTT(30)
    <3>4. OwnBody(d)'
      BY <1>1, <2>1, <3>1, <3>2, <3>3 DEF OwnBody, Ready
    <3>5. QED
      BY <2>1, <2>2, <3>2, <3>4 DEF HasBody
  <2>3. CASE ~HasWriter(d)
    <3>1. OldBody(d)
      BY <2>1, <2>3, SMTT(30) DEF HasBody
    <3>2. OldBody(d)'
      <4>1. client[d].pc \in {"rename", "sidecar"} =>
              client[d].job.body \in 1 .. nextBody /\ client[d].job.body # nextBody + 1
        BY <1>2, <3>1, SMTT(30) DEF OldBody
      <4>2. client[d].pc \in {"rename", "sidecar"} => client[d].job.body \in 1 .. nextBody'
        BY <1>1, <1>2, <4>1, SMTT(30)
      <4>3. client[d].pc = "rename" => client[d].job.body \notin tmp'
        BY <1>1, <3>1, <4>1 DEF OldBody
      <4>4. QED
        BY <2>1, <4>2, <4>3, SMTT(30) DEF OldBody
    <3>3. QED
      BY <2>1, <2>3, <3>2 DEF HasBody
  <2>4. QED
    BY <2>2, <2>3
<1>6. HasBody(c)'
  <2>1. nextBody + 1 \in 1 .. nextBody' /\ nextBody + 1 \notin orphans
    BY <1>1, <1>2, <1>4, SMTT(30)
  <2>2. QED
    BY <1>1, <1>3, <2>1 DEF HasBody, OwnBody, Ready
<1>7. tmp' \subseteq 1 .. nextBody' /\ orphans' \subseteq 1 .. nextBody'
  BY <1>1, <1>2, <1>4, SMTT(30)
<1>8. ASSUME NEW k2 \in Keys PROVE data'[k2] <= nextBody' /\ data'[k2] \notin tmp'
  BY <1>1, <1>2, <1>4, SMTT(30) DEF Bodies
<1>9. ASSUME NEW t \in tmp' \ orphans PROVE \E d \in Clients : HasWriter(d)' /\ client'[d].writer.body = t
  <2>1. CASE t = nextBody + 1
    BY <1>3, <2>1
  <2>2. CASE t # nextBody + 1
    <3>1. PICK d \in Clients : HasWriter(d) /\ client[d].writer.body = t
      BY <1>1, <2>2 DEF Bodies
    <3>2. QED
      BY <1>5, <3>1
  <2>3. QED
    BY <2>1, <2>2
<1>10. ASSUME NEW d \in Clients, NEW e \in Clients, HasWriter(d)', HasWriter(e)', d # e
       PROVE  client'[d].writer.body # client'[e].writer.body
  BY <1>2, <1>3, <1>5, <1>10, SMTT(30) DEF Bodies
<1>11. QED
  <2>1. \A d \in Clients : HasBody(d)'
    BY <1>5, <1>6
  <2>2. QED
    BY <1>1, <1>7, <1>8, <1>9, <1>10, <2>1 DEF Bodies

LEMMA BodyRenamed ==
  ASSUME TypeOK, Keyed, Bodies, NEW c \in Clients, RenameData(c)
  PROVE  Bodies'
<1> DEFINE job == client[c].job
<1>1. /\ Moves(c) /\ client'[c].pc = "sidecar" /\ client[c].pc = "rename"
      /\ client'[c].job = job /\ client'[c].writer = client[c].writer
  BY PcFields DEF RenameData, PCs
<1>2. job.key \in Keys /\ job.body \in Nat
  BY <1>1, IsLocal, SMTT(30) DEF Keyed, KeyOf, Ready, Local, Job
<1>3. /\ tmp' = tmp \ {job.body} /\ UNCHANGED <<nextBody, orphans>>
      /\ data'[job.key] = job.body /\ \A k \in Keys \ {job.key} : data'[k] = data[k]
  BY <1>2 DEF RenameData, counters, TypeOK
<1>4. HasBody(c)
  BY DEF Bodies
<1>5. job.body \in 1 .. nextBody /\ (~HasWriter(c) => tmp' = tmp)
      /\ (HasWriter(c) => job.body = client[c].writer.body)
  BY <1>1, <1>3, <1>4 DEF HasBody, OwnBody, OldBody, Ready
<1>6. \A d \in Clients : HasWriter(d)' = HasWriter(d) /\ client'[d].writer = client[d].writer
  BY <1>1 DEF Moves, HasWriter
<1>7. ASSUME NEW d \in Clients PROVE HasBody(d)'
  <2>1. CASE d = c
    <3>1. CASE HasWriter(c)
      BY <1>1, <1>3, <1>4, <1>5, <1>6, <2>1, <3>1 DEF HasBody, OwnBody, Ready
    <3>2. CASE ~HasWriter(c)
      BY <1>1, <1>3, <1>5, <1>6, <2>1, <3>2, SMTT(30) DEF HasBody, OldBody
    <3>3. QED
      BY <3>1, <3>2, SMTT(30)
  <2>2. CASE d # c
    <3>1. client'[d] = client[d] /\ HasBody(d)
      BY <1>1, <2>2 DEF Moves, Bodies
    <3>2. CASE HasWriter(d)
      <4>1. client[d].writer.body \in tmp' <=> client[d].writer.body \in tmp
        BY <1>3, <1>5, <2>2, <3>2, SMTT(30) DEF Bodies
      <4>2. QED
        BY <1>3, <1>6, <3>1, <3>2, <4>1 DEF HasBody, OwnBody, Ready
    <3>3. CASE ~HasWriter(d)
      BY <1>3, <1>6, <3>1, <3>3 DEF HasBody, OldBody
    <3>4. QED
      BY <3>2, <3>3
  <2>3. QED
    BY <2>1, <2>2, SMTT(30)
<1>8. \A k \in Keys : data'[k] <= nextBody' /\ data'[k] \notin tmp'
  BY <1>3, <1>5, SMTT(30) DEF Bodies
<1>9. ASSUME NEW t \in tmp' \ orphans'
      PROVE  \E d \in Clients : HasWriter(d)' /\ client'[d].writer.body = t
  <2>1. PICK d \in Clients : HasWriter(d) /\ client[d].writer.body = t
    BY <1>3 DEF Bodies
  <2>2. QED
    BY <1>6, <2>1
<1>10. \A d, e \in Clients :
         HasWriter(d)' /\ HasWriter(e)' /\ d # e => client'[d].writer.body # client'[e].writer.body
  BY <1>6, SMTT(30) DEF Bodies
<1>11. tmp' \subseteq 1 .. nextBody' /\ orphans' \subseteq 1 .. nextBody'
  BY <1>3 DEF Bodies
<1>12. QED
  BY <1>7, <1>8, <1>9, <1>10, <1>11 DEF Bodies

LEMMA BodyBegins ==
  ASSUME TypeOK, Bodies, NEW c \in Clients, NEW pc \in {"rename", "sidecar", "unlink"},
         NEW job \in Job, Begins(c, pc, job), Due(c, pc, job)
  PROVE  Bodies'
<1>1. /\ Moves(c) /\ client'[c].pc = pc /\ client'[c].job = job
      /\ client'[c].writer = client[c].writer
  BY BeginFields, SMTT(30) DEF Begins, PCs
<1>2. client[c].pc = "ready" /\ UNCHANGED <<data, tmp, nextBody, orphans>>
  BY DEF Begins, Ready, files, counters
<1>3. HasWriter(c)' = HasWriter(c) /\ HasBody(c)
  BY <1>1 DEF HasWriter, Bodies
<1>4. job.key \in Keys /\ job.current.body = data[job.key]
  BY ReadsObject, SMTT(30) DEF Due
<1>5. CASE HasWriter(c)
  <2>1. pc = "rename" /\ job.body = client[c].writer.body /\ client[c].writer.body \in tmp
    BY <1>2, <1>3, <1>5 DEF Due, HasBody, OwnBody
  <2>2. job.current.body # client[c].writer.body
    BY <1>4, <2>1 DEF Bodies
  <2>3. HasBody(c)'
    BY <1>1, <1>2, <1>3, <1>5, <2>1, <2>2 DEF HasBody, OwnBody, Ready
  <2>4. QED
    BY <1>1, <1>2, <1>3, <2>3, BodyStays
<1>6. CASE ~HasWriter(c)
  <2>1. pc # "unlink" => job.body \in 1 .. nextBody /\ job.body \notin tmp
    <3> SUFFICES ASSUME pc # "unlink" PROVE job.body \in 1 .. nextBody /\ job.body \notin tmp
      OBVIOUS
    <3>1. PICK src \in Keys : Mem!Exists(readAttributes(src)) /\ job.body = readAttributes(src).body
      BY <1>6, SMTT(30) DEF Due
    <3>2. job.body = data[src] /\ data[src] # 0
      BY <3>1, ReadsObject, SMTT(30)
    <3>3. data[src] \in Nat /\ data[src] <= nextBody /\ data[src] \notin tmp /\ nextBody \in Nat
      BY SMTT(30) DEF Bodies, TypeOK
    <3>4. QED
      BY <3>2, <3>3, SMTT(30)
  <2>2. HasBody(c)'
    BY <1>1, <1>2, <1>3, <1>6, <2>1 DEF HasBody, OldBody
  <2>3. QED
    BY <1>1, <1>2, <1>3, <2>2, BodyStays
<1>7. QED
  BY <1>5, <1>6

LEMMA BodyClient ==
  ASSUME TypeOK, Keyed, Bodies, NEW c \in Clients, ClientStep(c)
  PROVE  Bodies'
<1>k. HasWriter(c) => client[c].writer.key \in Keys
  BY SMTT(30) DEF Keyed, KeyOf
<1>h. HasBody(c)
  BY DEF Bodies
<1>0. Mem!NoWriter.body = 0 /\ 0 \notin tmp
  BY SMTT(30) DEF Mem!NoWriter, TypeOK
\* From ready, or from the end of a delete, to ready or on with the delete.
<1>s. ASSUME Moves(c), UNCHANGED <<data, tmp, nextBody, orphans>>,
             client'[c].writer.body = client[c].writer.body, HasWriter(c)' = HasWriter(c),
             client[c].pc \notin {"rename", "sidecar"} \/ ~HasWriter(c),
             client'[c].pc \notin {"rename", "sidecar"},
             HasWriter(c) => client'[c].pc = "ready"
      PROVE  Bodies'
  <2>1. HasBody(c)'
    BY <1>h, <1>s DEF HasBody, OwnBody, OldBody, Ready
  <2>2. QED
    BY <1>s, <2>1, BodyStays
<1>1. ASSUME NEW k \in Keys, Attributes(c, k) PROVE Bodies'
  BY <1>s, <1>1, AttributesFields DEF Attributes, files, counters, HasWriter
<1>2. ASSUME NEW o \in Mem!Outcomes, Quits(c, o) PROVE Bodies'
  <2>1. UNCHANGED <<data, nextBody, orphans>>
    BY <1>2 DEF Quits, files, counters
  <2>2. QED
    BY <1>s, <1>2, <2>1, QuitsFields, BodyGoes DEF HasWriter
<1>3. CASE Opens(c)
  <2>1. ~HasWriter(c)
    BY <1>3 DEF Opens, NewWriter, Idle
  <2>2. QED
    BY <1>3, <2>1, BodyOpens
<1>4. CASE Cancel(c)
  <2>1. /\ Moves(c) /\ client'[c].pc = "ready" /\ client[c].pc = "ready"
        /\ client'[c].writer = [client[c].writer EXCEPT !.cancelled = TRUE]
        /\ HasWriter(c) /\ UNCHANGED <<data, tmp, nextBody, orphans>>
    BY <1>4, CancelFields DEF Cancel, files, counters
  <2>2. client[c].writer \in Mem!Writer /\ client[c].writer.body # 0
    BY <1>h, <2>1, IsLocal, SMTT(30) DEF Local, HasBody, OwnBody
  <2>3. client'[c].writer.body = client[c].writer.body
    BY <2>1, <2>2 DEF Mem!Writer
  <2>4. HasWriter(c)'
    BY <1>0, <2>2, <2>3 DEF HasWriter
  <2>5. QED
    BY <1>s, <2>1, <2>3, <2>4
<1>5. CASE CallFails(c)
  <2>1. UNCHANGED <<data, nextBody, orphans>>
    BY <1>5 DEF CallFails, files, counters
  <2>2. CASE HasWriter(c)
    BY <1>5, <2>1, <2>2, FailsFields, BodyGoes
  <2>3. CASE ~HasWriter(c)
    BY <1>s, <1>5, <2>1, <2>3, FailsFields DEF HasWriter
  <2>4. QED
    BY <2>2, <2>3
<1>6. CASE WriteSidecar(c)
  <2>1. UNCHANGED <<data, nextBody, orphans>> /\ Closed(c, "ok")
    BY <1>6 DEF WriteSidecar
  <2>2. CASE HasWriter(c)
    BY <2>1, <2>2, ClosedFields, BodyGoes
  <2>3. CASE ~HasWriter(c)
    <3>1. tmp' = tmp
      BY <1>0, <2>1, <2>3, ClosedFields, SMTT(30) DEF HasWriter
    <3>2. QED
      BY <1>s, <2>1, <2>3, <3>1, ClosedFields DEF HasWriter
  <2>4. QED
    BY <2>2, <2>3, SMTT(30)
<1>7. CASE RemoveData(c)
  <2>1. /\ Moves(c) /\ client'[c].pc = "unmeta" /\ client[c].pc = "unlink"
        /\ client'[c].writer = client[c].writer
    BY <1>7, PcFields DEF RemoveData, PCs
  <2>2. ~HasWriter(c) /\ ~HasWriter(c)' /\ HasBody(c)'
    BY <1>h, <2>1, SMTT(30) DEF HasBody, OwnBody, HasWriter, OldBody
  <2>3. UNCHANGED <<tmp, nextBody, orphans>> /\ client[c].job.key \in Keys
    BY <1>7, <2>1 DEF RemoveData, counters, Keyed, KeyOf, Ready
  <2>4. \A k \in Keys : data'[k] = data[k] \/ data'[k] = 0
    BY <1>7, <2>3, SMTT(30) DEF RemoveData, TypeOK
  <2>5. \A k \in Keys : data'[k] <= nextBody' /\ data'[k] \notin tmp'
    BY <1>0, <2>3, <2>4, SMTT(30) DEF Bodies, TypeOK
  <2>6. ASSUME NEW d \in Clients PROVE HasBody(d)'
    <3>1. CASE d # c
      <4>1. client'[d] = client[d] /\ HasBody(d)
        BY <2>1, <3>1, SMTT(30) DEF Moves, Bodies
      <4>2. QED
        BY <2>3, <4>1 DEF HasBody, HasWriter, OwnBody, OldBody, Ready
    <3>2. QED
      BY <2>2, <3>1
  <2>7. \A d \in Clients : HasWriter(d)' = HasWriter(d) /\ client'[d].writer = client[d].writer
    BY <2>1 DEF Moves, HasWriter
  <2>8. QED
    BY <2>3, <2>5, <2>6, <2>7, SMTT(30) DEF Bodies
<1>8. CASE RemoveSidecar(c)
  <2>1. client[c].pc = "unmeta" /\ UNCHANGED <<data, tmp, nextBody, orphans>>
    BY <1>8 DEF RemoveSidecar, counters
  <2>2. QED
    BY <1>s, <1>8, <2>1, RemovesFields DEF HasWriter
<1>9. QED
  BY <1>k, <1>1, <1>2, <1>3, <1>4, <1>5, <1>6, <1>7, <1>8, BodyBegins, BodyRenamed, Kinds

LEMMA BodyCrash ==
  ASSUME TypeOK, Bodies, NEW b \in Buckets, Crash(b)
  PROVE  Bodies'
<1> DEFINE lost == tmp \cap {client[c].writer.body : c \in {d \in Clients : BucketOf[d] = b}}
<1>1. orphans' = orphans \cup lost /\ UNCHANGED <<data, tmp, nextBody>>
  BY CrashFields DEF Crash
<1>2. \A c \in Clients : client'[c] = IF BucketOf[c] = b THEN NewClient ELSE client[c]
  BY CrashFields
<1>3. \A c \in Clients : IF BucketOf[c] = b THEN ~HasWriter(c)' /\ client'[c].pc = "ready"
                         ELSE HasWriter(c)' = HasWriter(c) /\ client'[c] = client[c]
  BY <1>2, Constants DEF HasWriter
<1>4. ASSUME NEW d \in Clients PROVE HasBody(d)'
  <2>0. HasBody(d)
    BY DEF Bodies
  <2>1. CASE BucketOf[d] = b
    BY <1>3, <2>1 DEF HasBody, OldBody
  <2>2. CASE BucketOf[d] # b /\ HasWriter(d)
    <3>1. OwnBody(d) /\ client'[d] = client[d] /\ HasWriter(d)'
      BY <1>3, <2>0, <2>2, SMTT(30) DEF HasBody
    <3>2. client[d].writer.body \notin lost
      <4>1. SUFFICES ASSUME NEW c \in Clients, BucketOf[c] = b, client[c].writer.body = client[d].writer.body
                     PROVE  FALSE
        OBVIOUS
      <4>2. ~HasWriter(c)
        BY <2>2, <4>1 DEF Bodies
      <4>3. client[c].writer.body = 0
        BY <4>2, SMTT(30) DEF HasWriter, Mem!NoWriter
      <4>4. QED
        BY <3>1, <4>1, <4>3, SMTT(30) DEF OwnBody
    <3> HIDE DEF lost
    <3>3. OwnBody(d)'
      BY <1>1, <3>1, <3>2 DEF OwnBody, Ready
    <3>4. QED
      BY <3>1, <3>3 DEF HasBody
  <2>3. CASE BucketOf[d] # b /\ ~HasWriter(d)
    BY <1>1, <1>3, <2>0, <2>3 DEF HasBody, OldBody
  <2>4. QED
    BY <2>1, <2>2, <2>3
<1>5. ASSUME NEW t \in tmp' \ orphans'
      PROVE  \E d \in Clients : HasWriter(d)' /\ client'[d].writer.body = t
  <2>1. PICK d \in Clients : HasWriter(d) /\ client[d].writer.body = t
    BY <1>1 DEF Bodies
  <2>2. BucketOf[d] # b
    BY <1>1, <2>1
  <2>3. QED
    BY <1>3, <2>1, <2>2
<1>6. \A d, e \in Clients :
        HasWriter(d)' /\ HasWriter(e)' /\ d # e => client'[d].writer.body # client'[e].writer.body
  BY <1>3, SMTT(30) DEF Bodies
<1>7. tmp' \subseteq 1 .. nextBody' /\ orphans' \subseteq 1 .. nextBody'
  BY <1>1 DEF Bodies
<1>8. \A k \in Keys : data'[k] <= nextBody' /\ data'[k] \notin tmp'
  BY <1>1 DEF Bodies
<1>9. QED
  BY <1>4, <1>5, <1>6, <1>7, <1>8 DEF Bodies

LEMMA BodyStep ==
  ASSUME TypeInv, Keyed, Bodies, [Next]_vars
  PROVE  Bodies'
<1>1. TypeOK
  BY SMTT(30) DEF TypeInv
<1>2. CASE UNCHANGED vars
  BY <1>2, SMTT(30) DEF vars, Bodies, HasBody, HasWriter, OwnBody, OldBody, Ready
<1>3. QED
  BY <1>1, <1>2, BodyClient, BodyCrash, NextIsClientOrCrash, SMTT(30)

LEMMA InitBodies == Init => Bodies
<1> SUFFICES ASSUME Init PROVE Bodies
  OBVIOUS
<1>1. \A c \in Clients : ~HasWriter(c) /\ client[c].pc = "ready"
  BY Constants DEF Init, HasWriter
<1>2. \A c \in Clients : HasBody(c)
  BY <1>1 DEF HasBody, OldBody
<1>3. tmp = {} /\ orphans = {} /\ nextBody = 0 /\ \A k \in Keys : data[k] = 0
  BY DEF Init
<1>4. QED
  BY <1>1, <1>2, <1>3, SMTT(30) DEF Bodies

\* Whatever way a call ends, its temp file is gone and its mutex is free: in
\* success, by a refused condition, a failed system call between any two renames, or
\* with its process, and for any number of Bucket values over the directory.
THEOREM EveryWayOutIsClean == Spec => []WaysOutAreClean
<1>1. Init => TypeInv /\ Keyed /\ Locks /\ Bodies
  BY InitType, InitLocks, InitBodies
<1>2. TypeInv /\ Keyed /\ Locks /\ Bodies /\ [Next]_vars => (TypeInv /\ Keyed /\ Locks /\ Bodies)'
  BY TypeStep, LockStep, BodyStep
<1>3. TypeInv /\ Keyed /\ Locks /\ Bodies => WaysOutAreClean
  <2> SUFFICES ASSUME TypeInv, Locks, Bodies PROVE WaysOutAreClean
    OBVIOUS
  <2>1. \A d \in Clients : HasWriter(d) => (client[d].writer.body \in tmp \ orphans <=> ~Torn(d))
    <3>1. \A d \in Clients : HasWriter(d) => OwnBody(d)
      BY DEF Bodies, HasBody
    <3>2. QED
      BY <3>1 DEF OwnBody, Torn, Ready
  <2>2. tmp \ orphans = {client[c].writer.body : c \in {d \in Clients : HasWriter(d) /\ ~Torn(d)}}
    <3>1. \A t \in tmp \ orphans : \E c \in Clients : HasWriter(c) /\ client[c].writer.body = t
      BY DEF Bodies
    <3>2. QED
      BY <2>1, <3>1
  <2>3. ASSUME NEW b \in Buckets, lock[b] # NoClient
        PROVE  BucketOf[lock[b]] = b /\ ~Ready(lock[b])
    <3>1. lock[b] \in Clients
      BY <2>3, SMTT(30) DEF TypeInv, TypeOK
    <3>2. QED
      BY <2>3, <3>1, SMTT(30) DEF Locks
  <2>4. QED
    BY <2>2, <2>3 DEF WaysOutAreClean
<1>4. QED
  BY <1>1, <1>2, <1>3, PTL DEF Spec
=============================================================================
