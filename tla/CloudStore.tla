----------------------------- MODULE CloudStore -----------------------------
(***************************************************************************)
(* What the cloud drivers s3, gcs and azureblob share: the service, which  *)
(* keeps one blob under the key that everybody uses and answers requests   *)
(* atomically, the conditions each driver puts on the wire, and the error  *)
(* each driver makes of an answer.  The service is external: it is modelled *)
(* by what the drivers rely on.                                            *)
(*                                                                         *)
(* A body is its length, in chunks; two bodies of one length are the same  *)
(* bytes.  Each body stored has a number of its own (gen); the headers are *)
(* those of the writer that stored body number hdr.                        *)
(***************************************************************************)
EXTENDS Integers, FiniteSets

CONSTANTS
  Drivers,       \* a subset of {"s3", "gcs", "azure"}
  MaxLen,        \* longest body
  MaxChanges,    \* bound on the changes of the blob, two kept for the client
  MaxFailures    \* bound on failed requests and lost answers

ASSUME CloudAssumption ==
  /\ Drivers \subseteq {"s3", "gcs", "azure"}
  /\ {MaxLen, MaxChanges, MaxFailures} \subseteq Nat

VARIABLES
  driver,     \* the driver in use
  blob,       \* the blob under the key
  changes,    \* changes of the blob so far
  failures    \* failed requests and lost answers so far

store == <<blob, changes>>

Blob == [len : 0 .. MaxLen, gen : 0 .. MaxChanges, rev : 0 .. MaxChanges, hdr : 0 .. MaxChanges]
NoBlob == [len |-> 0, gen |-> 0, rev |-> 0, hdr |-> 0]
Exists(b) == b # NoBlob

\* The version token: a hash of the content, the generation, which a change of
\* the metadata keeps, or an ETag that every change renews.  0 is no token.
Version(b) ==
  IF ~Exists(b) THEN 0
  ELSE CASE driver = "s3" -> b.len + 1
         [] driver = "gcs" -> b.gen
         [] driver = "azure" -> b.rev
Tokens == 0 .. (MaxLen + MaxChanges + 1)

CloudTypeOK ==
  /\ driver \in Drivers
  /\ blob \in Blob
  /\ changes \in 0 .. MaxChanges
  /\ failures \in 0 .. MaxFailures

FailOnce == failures < MaxFailures /\ failures' = failures + 1

-----------------------------------------------------------------------------
(* Preconditions, and what a driver makes of them.                         *)

Unconditional == [IfNotExists |-> FALSE, IfMatch |-> 0, IfNotMatch |-> 0]
Preconditions == [IfNotExists : BOOLEAN, IfMatch : Tokens, IfNotMatch : Tokens]

\* What a precondition promises its caller, whatever the driver.
Promised(pre, b) ==
  /\ pre.IfNotExists => ~Exists(b)
  /\ pre.IfMatch # 0 => Version(b) = pre.IfMatch
  /\ pre.IfNotMatch # 0 => Version(b) # pre.IfNotMatch

NoCondition == [absent |-> FALSE, match |-> 0, noneMatch |-> 0]
Conditions == [absent : BOOLEAN, match : Tokens, noneMatch : Tokens]

FirstSet(pre) ==
  CASE pre.IfNotExists -> [NoCondition EXCEPT !.absent = TRUE]
    [] ~pre.IfNotExists /\ pre.IfMatch # 0 -> [NoCondition EXCEPT !.match = pre.IfMatch]
    [] ~pre.IfNotExists /\ pre.IfMatch = 0 /\ pre.IfNotMatch # 0 ->
         [NoCondition EXCEPT !.noneMatch = pre.IfNotMatch]
    [] OTHER -> NoCondition

\* If-None-Match: *, If-Match or If-None-Match of PutObject.
applyWriteConditions(pre) == FirstSet(pre)
\* DoesNotExist, GenerationMatch or GenerationNotMatch.
gcsConditions(pre) == FirstSet(pre)
\* IfNoneMatch: *, IfMatch or IfNoneMatch of the access conditions.
modifiedConditions(pre) == FirstSet(pre)

\* The service: on gcs a generation-not-match fails if there is no object.
Accepts(cond, b) ==
  /\ cond.absent => ~Exists(b)
  /\ cond.match # 0 => Exists(b) /\ Version(b) = cond.match
  /\ cond.noneMatch # 0 => IF Exists(b) THEN Version(b) # cond.noneMatch ELSE driver # "gcs"

\* How the service words the refusal of a condition that fails.  S3 has no object to
\* match; Azure calls a failed create-only write a conflict.
Failed(cond, b) ==
  CASE driver = "s3" /\ cond.match # 0 /\ ~Exists(b) -> "404"
    [] driver = "azure" /\ cond.absent -> "409"
    [] OTHER -> "412"

\* A request that met another one in progress is refused whatever the blob: on S3 a
\* conditional one (ConditionalRequestConflict), on gcs any (Aborted of gRPC).
Conflicts(cond) ==
  CASE driver = "s3" /\ cond # NoCondition -> {"409"}
    [] driver = "gcs" -> {"aborted"}
    [] OTHER -> {}

Refusals(cond, b) ==
  Conflicts(cond) \cup (IF Accepts(cond, b) THEN {} ELSE {Failed(cond, b)})

\* Statuses of HTTP, or codes of gRPC: FailedPrecondition is 412, NotFound 404.
Answers == {"200", "400", "404", "409", "412", "416", "aborted", "none"}
Outcomes == {"ok", "not found", "precondition failed", "unsupported", "error"}

Mapped(answer, failed) ==
  CASE answer = "200" -> "ok"
    [] answer = "404" -> "not found"
    [] answer \in failed -> "precondition failed"
    [] OTHER -> "error"

s3MapError(answer) == Mapped(answer, {"412", "409"})
gcsMapError(answer) == Mapped(answer, {"412", "aborted"})
\* Mutant of azureMapError: a conflict is an error like any other.
azureMapsConflictToError(answer) == Mapped(answer, {"412"})
azureMapError(answer) == Mapped(answer, {"412", "409"})

mapError(answer) ==
  CASE driver = "s3" -> s3MapError(answer)
    [] driver = "gcs" -> gcsMapError(answer)
    [] driver = "azure" -> azureMapError(answer)

-----------------------------------------------------------------------------
(* Changes of the blob by the service.                                     *)

Room == changes < MaxChanges
\* Others, and a call that begins, leave two changes for the calls under way.
Spare == changes + 2 < MaxChanges

\* A body of length len becomes the blob, with the headers that came with it.
Store(len) ==
  /\ Room
  /\ changes' = changes + 1
  /\ blob' = [len |-> len, gen |-> changes + 1, rev |-> changes + 1, hdr |-> changes + 1]

\* The metadata change: under the headers of body number hdr.
Retag(hdr) ==
  /\ Room
  /\ changes' = changes + 1
  /\ blob' = [blob EXCEPT !.rev = changes + 1, !.hdr = hdr]

Remove == blob' = NoBlob /\ UNCHANGED changes

\* The requests of others: a write, a delete, an update of the metadata, which on
\* S3 may bring the headers of an earlier body.
Others ==
  /\ \/ \E len \in 0 .. MaxLen : Spare /\ Store(len)
     \/ Exists(blob) /\ Remove
     \/ /\ Exists(blob) /\ Spare
        /\ \E hdr \in 1 .. blob.hdr : (driver # "s3" => hdr = blob.hdr) /\ Retag(hdr)
  /\ UNCHANGED <<driver, failures>>

StoreInit ==
  /\ driver \in Drivers
  /\ blob = NoBlob
  /\ changes = 0
  /\ failures = 0
=============================================================================
