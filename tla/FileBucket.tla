----------------------------- MODULE FileBucket -----------------------------
(***************************************************************************)
(* The filesystem driver of file/file.go.  An object is two files: its     *)
(* body under data/ and a sidecar with its attributes under meta/; a       *)
(* writer fills a third one under tmp/.  Each rename and each remove is a  *)
(* step.  A Bucket value has a mutex, which a call holds from the reading  *)
(* of the current version to its last rename; Sub shares the mutex, a      *)
(* second New on the same directory has one of its own.                    *)
(*                                                                         *)
(* Objects, preconditions and writers are those of module MemBucket, which *)
(* this module implements.                                                 *)
(***************************************************************************)
EXTENDS Naturals, FiniteSets

CONSTANTS
  Clients, Keys, MaxBodies, MaxVersion,   \* as in MemBucket
  Buckets,       \* Bucket values over the directory
  BucketOf,      \* BucketOf[c]: the one that c uses
  NoClient,
  MaxFailures    \* bound on failed system calls plus crashes

ASSUME FileAssumption ==
  /\ IsFiniteSet(Clients)
  /\ {MaxBodies, MaxVersion, MaxFailures} \subseteq Nat
  /\ BucketOf \in [Clients -> Buckets]
  /\ NoClient \notin Clients

VARIABLES
  data,         \* data[k]: the body in the file data/<k>, 0 if there is none
  meta,         \* meta[k]: the attributes in meta/<k>
  tmp,          \* the bodies in the temp files of writers
  nextVersion,  \* the random version tokens, numbered in the order of use
  nextBody,     \* the body handed out last
  lock,         \* lock[b]: the client that holds the mutex of b
  client,       \* client[c]: local state of c
  returned,     \* which call came to its outcome last, and what it reports
  failures,     \* failed calls and crashes so far
  orphans,      \* the temp files of processes that died
  torn          \* ghost: the keys whose body came in without its sidecar

vars == <<data, meta, tmp, nextVersion, nextBody, lock, client, returned, failures, orphans, torn>>

NoObject == [body |-> 0, of |-> 0, md |-> FALSE, version |-> 0]
NoSidecar == [of |-> 0, md |-> FALSE, version |-> 0]

\* A data file without a sidecar: the version is made of its time and size.
deriveVersion(body) == MaxVersion + body

\* The data file decides whether there is an object, the sidecar describes it; of is the
\* body that the attributes were made for, 0 where there are none.
readAttributes(k) ==
  IF data[k] = 0 THEN NoObject
  ELSE IF meta[k] = NoSidecar
       THEN [body |-> data[k], of |-> 0, md |-> FALSE, version |-> deriveVersion(data[k])]
       ELSE [body |-> data[k], of |-> meta[k].of, md |-> meta[k].md, version |-> meta[k].version]

\* What a bucket looks like from outside: a commit takes effect with its second
\* rename, a delete with its first remove.
Committed == [k \in Keys |->
  LET mid == {c \in Clients : client[c].pc = "sidecar" /\ client[c].job.key = k}
  IN  IF mid = {} THEN readAttributes(k) ELSE client[CHOOSE c \in mid : TRUE].job.current]
Callers == [c \in Clients |->
  [writer |-> client[c].writer, seen |-> client[c].seen, seenKey |-> client[c].seenKey]]

Mem == INSTANCE MemBucket WITH objects <- Committed, client <- Callers

Sidecar == [of : 0 .. MaxBodies, md : BOOLEAN, version : Mem!Tokens]

\* The object a call found and the one it is about to store.
Job == [key : Keys \cup {0}, body : 0 .. MaxBodies, of : 0 .. MaxBodies, md : BOOLEAN,
        current : Mem!Object]
NoJob == [key |-> 0, body |-> 0, of |-> 0, md |-> FALSE, current |-> NoObject]

NewClient ==
  [pc |-> "ready", job |-> NoJob, writer |-> Mem!NoWriter, seen |-> NoObject,
   seenKey |-> 0]

TypeOK ==
  /\ data \in [Keys -> 0 .. MaxBodies]
  /\ meta \in [Keys -> Sidecar] /\ \A k \in Keys : meta[k].version <= nextVersion
  /\ tmp \subseteq 1 .. MaxBodies
  /\ nextVersion \in 0 .. MaxVersion
  /\ nextBody \in 0 .. MaxBodies
  /\ lock \in [Buckets -> Clients \cup {NoClient}]
  /\ client \in [Clients ->
       [pc : {"ready", "rename", "sidecar", "unlink", "unmeta"}, job : Job,
        writer : Mem!Writer, seen : Mem!Object, seenKey : Keys \cup {0}]]
  /\ returned \in [by : Clients \cup {NoClient}, outcome : Mem!Outcomes]
  /\ failures \in 0 .. MaxFailures
  /\ orphans \subseteq 1 .. MaxBodies
  /\ torn \subseteq Keys

-----------------------------------------------------------------------------
(* The mutex and the return of a call.                                     *)

Free(c) == lock[BucketOf[c]] = NoClient
Acquire(c) == lock' = [lock EXCEPT ![BucketOf[c]] = c]
Release(c) == lock' = [lock EXCEPT ![BucketOf[c]] = NoClient]

Ready(c) == client[c].pc = "ready"
HasWriter(c) == client[c].writer # Mem!NoWriter
\* A goroutine finishes one thing before it starts the next.
Idle(c) == Ready(c) /\ ~HasWriter(c)

Reports(c, outcome) == returned' = [by |-> c, outcome |-> outcome]
Return(c, outcome) ==
  /\ client' = [client EXCEPT ![c].pc = "ready", ![c].job = NoJob]
  /\ Reports(c, outcome)
\* A writer's last call removes its temp file, unless that was renamed.
Closed(c, outcome) ==
  /\ client' = [client EXCEPT ![c].pc = "ready", ![c].job = NoJob, ![c].writer = Mem!NoWriter]
  /\ tmp' = tmp \ {client[c].writer.body}
  /\ Reports(c, outcome)

Begin(c, pc, job) ==
  /\ client' = [client EXCEPT ![c].pc = pc, ![c].job = job]
  /\ UNCHANGED returned

files == <<data, meta>>
counters == <<nextVersion, nextBody>>

\* Each call about to write a sidecar has a version left for it.
Room ==
  nextVersion + Cardinality({c \in Clients : client[c].pc \in {"rename", "sidecar"}}) < MaxVersion

-----------------------------------------------------------------------------
(* Reads: attributes and descriptor are taken under the mutex.             *)

Attributes(c, k) ==
  LET o == readAttributes(k) IN
  /\ Idle(c) /\ Free(c)
  /\ \/ /\ Mem!Exists(o)
        /\ client' = [client EXCEPT ![c].seen = o, ![c].seenKey = k]
        /\ Reports(c, "ok")
     \/ ~Mem!Exists(o) /\ Return(c, "not found")
  /\ UNCHANGED <<files, tmp, counters, lock, failures, orphans, torn>>

\* The section that is read has the length that the sidecar says.
NewRangeReader(c, k) == Attributes(c, k)

-----------------------------------------------------------------------------
(* Copy, Delete and UpdateMetadata up to their first change.               *)

Copy(c, dst, src) ==
  LET o == readAttributes(src) IN
  /\ Idle(c) /\ Free(c)
  /\ \/ /\ Mem!Exists(o) /\ Room
        /\ Acquire(c)
        /\ Begin(c, "rename", [key |-> dst, body |-> o.body, of |-> o.of, md |-> o.md,
                               current |-> readAttributes(dst)])
     \/ ~Mem!Exists(o) /\ Return(c, "not found") /\ UNCHANGED lock
  /\ UNCHANGED <<files, tmp, counters, failures, orphans, torn>>

Delete(c, k, pre) ==
  LET o == readAttributes(k) IN
  /\ Idle(c)
  /\ \/ Mem!Contradictory(pre) /\ Return(c, "invalid option") /\ UNCHANGED lock
     \/ /\ ~Mem!Contradictory(pre) /\ Free(c) /\ ~Mem!Exists(o)
        /\ Return(c, "not found")
        /\ UNCHANGED lock
     \/ /\ ~Mem!Contradictory(pre) /\ Free(c)
        /\ Mem!Exists(o) /\ ~Mem!conditionsPass(pre, o)
        /\ Return(c, "precondition failed")
        /\ UNCHANGED lock
     \/ /\ ~Mem!Contradictory(pre) /\ Free(c)
        /\ Mem!Exists(o) /\ Mem!conditionsPass(pre, o)
        /\ Acquire(c)
        /\ Begin(c, "unlink", [NoJob EXCEPT !.key = k, !.current = o])
  /\ UNCHANGED <<files, tmp, counters, failures, orphans, torn>>

\* Only the sidecar is rewritten.
UpdateMetadata(c, k) ==
  LET o == readAttributes(k) IN
  /\ Idle(c) /\ Free(c)
  /\ \/ /\ Mem!Exists(o) /\ Room
        /\ Acquire(c)
        /\ Begin(c, "sidecar", [key |-> k, body |-> o.body, of |-> o.of, md |-> TRUE,
                                current |-> o])
     \/ ~Mem!Exists(o) /\ Return(c, "not found") /\ UNCHANGED lock
  /\ UNCHANGED <<files, tmp, counters, failures, orphans, torn>>

-----------------------------------------------------------------------------
(* Writers.                                                                *)

NewWriter(c, k, pre, md5) ==
  /\ Idle(c)
  /\ \/ /\ Mem!Contradictory(pre)
        /\ Return(c, "invalid option")
        /\ UNCHANGED <<tmp, nextBody>>
     \/ /\ ~Mem!Contradictory(pre) /\ nextBody < MaxBodies
        /\ nextBody' = nextBody + 1
        /\ tmp' = tmp \cup {nextBody + 1}
        /\ client' = [client EXCEPT ![c] = [NewClient EXCEPT !.writer =
             [key |-> k, pre |-> pre, body |-> nextBody + 1, md5 |-> md5, cancelled |-> FALSE]]]
        /\ UNCHANGED returned
  /\ UNCHANGED <<files, nextVersion, lock, failures, orphans, torn>>

Cancel(c) ==
  /\ Ready(c) /\ HasWriter(c) /\ ~client[c].writer.cancelled
  /\ client' = [client EXCEPT ![c].writer.cancelled = TRUE]
  /\ UNCHANGED <<files, tmp, counters, lock, returned, failures, orphans, torn>>

\* Mutant of Close: the condition is checked without the mutex.
CloseUnlocked(c) ==
  LET w == client[c].writer
      o == readAttributes(w.key)
  IN
  /\ Ready(c) /\ HasWriter(c) /\ ~w.cancelled /\ w.md5
  /\ Mem!conditionsPass(w.pre, o) /\ Room
  /\ Begin(c, "rename", [key |-> w.key, body |-> w.body, of |-> w.body, md |-> FALSE, current |-> o])
  /\ UNCHANGED <<files, tmp, counters, lock, failures, orphans, torn>>

\* Mutant of Close: the mutex is taken first, and an error return keeps it.
CloseKeepsLock(c) ==
  /\ Ready(c) /\ HasWriter(c) /\ Free(c) /\ ~client[c].writer.md5
  /\ Acquire(c) /\ Closed(c, "invalid option")
  /\ UNCHANGED <<files, counters, failures, orphans, torn>>

\* Close up to the condition; what fails before it needs no mutex.
Close(c) ==
  LET w == client[c].writer
      o == readAttributes(w.key)
  IN
  /\ Ready(c) /\ HasWriter(c)
  /\ \/ w.cancelled /\ Closed(c, "error") /\ UNCHANGED lock
     \/ ~w.cancelled /\ ~w.md5 /\ Closed(c, "invalid option") /\ UNCHANGED lock
     \/ /\ ~w.cancelled /\ w.md5 /\ Free(c) /\ ~Mem!conditionsPass(w.pre, o)
        /\ Closed(c, "precondition failed")
        /\ UNCHANGED lock
     \/ /\ ~w.cancelled /\ w.md5 /\ Free(c) /\ Mem!conditionsPass(w.pre, o) /\ Room
        /\ Acquire(c)
        /\ Begin(c, "rename", [key |-> w.key, body |-> w.body, of |-> w.body, md |-> FALSE,
                               current |-> o])
        /\ UNCHANGED tmp
  /\ UNCHANGED <<files, counters, failures, orphans, torn>>

CloseWithError(c) ==
  /\ Ready(c) /\ HasWriter(c)
  /\ Closed(c, "ok")
  /\ UNCHANGED <<files, counters, lock, failures, orphans, torn>>

-----------------------------------------------------------------------------
(* The changes, with the mutex held.                                       *)

\* The body goes first: "data is the source of truth for existence".
RenameData(c) ==
  LET job == client[c].job IN
  /\ client[c].pc = "rename"
  /\ data' = [data EXCEPT ![job.key] = job.body]
  /\ tmp' = tmp \ {job.body}
  /\ client' = [client EXCEPT ![c].pc = "sidecar"]
  /\ UNCHANGED <<meta, counters, lock, returned, failures, orphans, torn>>

\* With a sidecar of its own an object is whole again; the metadata update or the copy
\* of a torn one, which has another's attributes or none, is as torn as that.
Mends(job) == torn' = IF job.of = job.body THEN torn \ {job.key} ELSE torn \cup {job.key}

\* Mutant of WriteSidecar: the version is kept.
WriteSidecarSameVersion(c) ==
  LET job == client[c].job IN
  /\ client[c].pc = "sidecar"
  /\ nextVersion' = nextVersion + 1
  /\ meta' = [meta EXCEPT ![job.key] =
       [of |-> job.of, md |-> job.md,
        version |-> IF Mem!Exists(job.current) THEN job.current.version ELSE nextVersion + 1]]
  /\ Release(c)
  /\ Closed(c, "ok")
  /\ Mends(job)
  /\ UNCHANGED <<data, nextBody, failures, orphans>>

\* Mutant of WriteSidecar: the sidecar of an overwritten object is left alone.
WriteSidecarOnce(c) ==
  LET job == client[c].job IN
  /\ client[c].pc = "sidecar"
  /\ IF meta[job.key] = NoSidecar
     THEN meta' = [meta EXCEPT ![job.key] =
            [of |-> job.of, md |-> job.md, version |-> nextVersion + 1]]
     ELSE UNCHANGED meta
  /\ nextVersion' = nextVersion + 1
  /\ Release(c)
  /\ Closed(c, "ok")
  /\ Mends(job)
  /\ UNCHANGED <<data, nextBody, failures, orphans>>

\* Then the sidecar, which ends the call.
WriteSidecar(c) ==
  LET job == client[c].job IN
  /\ client[c].pc = "sidecar"
  /\ nextVersion' = nextVersion + 1
  /\ meta' = [meta EXCEPT ![job.key] =
       [of |-> job.of, md |-> job.md, version |-> nextVersion + 1]]
  /\ Release(c)
  /\ Closed(c, "ok")
  /\ Mends(job)
  /\ UNCHANGED <<data, nextBody, failures, orphans>>

RemoveData(c) ==
  /\ client[c].pc = "unlink"
  /\ data' = [data EXCEPT ![client[c].job.key] = 0]
  /\ client' = [client EXCEPT ![c].pc = "unmeta"]
  /\ Reports(c, "ok")
  /\ torn' = torn \ {client[c].job.key}
  /\ UNCHANGED <<meta, tmp, counters, lock, failures, orphans>>

\* An error of the second remove is ignored: the sidecar stays behind.
RemoveSidecar(c) ==
  /\ client[c].pc = "unmeta"
  /\ \/ /\ meta' = [meta EXCEPT ![client[c].job.key] = NoSidecar]
        /\ UNCHANGED failures
     \/ /\ failures < MaxFailures /\ failures' = failures + 1
        /\ UNCHANGED meta
  /\ Release(c)
  /\ client' = [client EXCEPT ![c].pc = "ready", ![c].job = NoJob]
  /\ UNCHANGED <<data, tmp, counters, returned, orphans, torn>>

-----------------------------------------------------------------------------
(* Failed system calls and crashes.                                        *)

FailOnce == failures < MaxFailures /\ failures' = failures + 1

\* The body is in place and the sidecar that belongs to it is not.
Torn(c) == client[c].pc = "sidecar" /\ client[c].job.body # client[c].job.current.body

\* A call that fails undoes nothing; it returns the error and, if it was a
\* Close, removes the temp file.
CallFails(c) ==
  /\ client[c].pc # "unmeta"
  /\ FailOnce
  /\ IF lock[BucketOf[c]] = c THEN Release(c) ELSE UNCHANGED lock
  /\ \/ HasWriter(c) /\ Closed(c, "error")
     \/ ~HasWriter(c) /\ Return(c, "error") /\ UNCHANGED tmp
  /\ torn' = torn \cup (IF Torn(c) THEN {client[c].job.key} ELSE {})
  /\ UNCHANGED <<files, counters, orphans>>

\* The process that holds a Bucket value dies; what it renamed stays.
Crash(b) ==
  LET mine == {c \in Clients : BucketOf[c] = b} IN
  /\ FailOnce
  /\ client' = [c \in Clients |-> IF c \in mine THEN NewClient ELSE client[c]]
  /\ lock' = [lock EXCEPT ![b] = NoClient]
  /\ orphans' = orphans \cup (tmp \cap {client[c].writer.body : c \in mine})
  /\ torn' = torn \cup {client[c].job.key : c \in {d \in mine : Torn(d)}}
  /\ UNCHANGED <<files, tmp, counters, returned>>

-----------------------------------------------------------------------------

Init ==
  /\ data = [k \in Keys |-> 0]
  /\ meta = [k \in Keys |-> NoSidecar]
  /\ tmp = {}
  /\ nextVersion = 0
  /\ nextBody = 0
  /\ lock = [b \in Buckets |-> NoClient]
  /\ client = [c \in Clients |-> NewClient]
  /\ returned = [by |-> NoClient, outcome |-> "ok"]
  /\ failures = 0
  /\ orphans = {}
  /\ torn = {}

Locked(c) == RenameData(c) \/ WriteSidecar(c) \/ RemoveData(c) \/ RemoveSidecar(c)

Next ==
  \/ \E c \in Clients :
       \/ \E k \in Keys : Attributes(c, k) \/ NewRangeReader(c, k) \/ UpdateMetadata(c, k)
       \/ \E k, src \in Keys : Copy(c, k, src)
       \/ \E k \in Keys, pre \in Mem!Asked(client[c].seen) :
            Delete(c, k, pre) \/ \E md5 \in Mem!Md5(pre) : NewWriter(c, k, pre, md5)
       \/ Cancel(c) \/ Close(c) \/ CloseWithError(c) \/ CallFails(c)
       \/ Locked(c)
  \/ \E b \in Buckets : Crash(b)

Spec == Init /\ [][Next]_vars

-----------------------------------------------------------------------------
(* Safety.                                                                 *)

\* A commit that fails, or whose process dies, between its two renames: the body
\* it renamed shows up under the sidecar that was there before, or under none.
Tear ==
  /\ failures' = failures + 1
  /\ \E c \in Clients :
       /\ Torn(c) /\ client'[c].pc = "ready"
       /\ Committed' = [Committed EXCEPT ![client[c].job.key] = readAttributes(client[c].job.key)]
  /\ UNCHANGED counters

\* The file driver has "the same conditional-write semantics" (file.go:2-3) as
\* the in-memory one: every call looks like one atomic step of MemBucket, with
\* the same outcome.  The one exception is a commit torn between its renames.
IsMemBucket == Mem!Init /\ [][Mem!Next \/ Tear]_(Mem!vars)

\* "Readers take the same lock while reading committed state so they never
\* observe a half-applied commit" (file.go:13-14): whenever a reader can get the
\* mutex, a body lies beside attributes that were made for it, unless the last
\* commit of the key was torn; the next write or delete of the key mends it.
NeverHalfApplied ==
  \A c \in Clients, k \in Keys \ torn :
    Ready(c) /\ Free(c) => readAttributes(k).of = readAttributes(k).body

\* A version that a caller has read denotes, for as long as it matches, exactly
\* what the caller read: IfMatch protects a read-modify-write of the body and
\* of the metadata, across overwrites, deletes, failures and crashes, except
\* while the body has come in without its sidecar.
TokenStillMeans ==
  \A c \in Clients :
    LET now == readAttributes(client[c].seenKey) IN
    /\ client[c].seenKey \notin torn \cup {0} /\ Free(c)
    /\ Mem!Exists(now) /\ now.version = client[c].seen.version
    => now = client[c].seen

\* Every way out cleans up: only a writer that is still open, or died with its
\* process, has a temp file, and the mutex of a Bucket value is held only by a call
\* that is under way, so that no caller waits for it forever.
WaysOutAreClean ==
  /\ tmp \ orphans =
       {client[c].writer.body : c \in {d \in Clients : HasWriter(d) /\ ~Torn(d)}}
  /\ \A b \in Buckets : lock[b] # NoClient => BucketOf[lock[b]] = b /\ ~Ready(lock[b])
=============================================================================
