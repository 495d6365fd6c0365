----------------------------- MODULE CloudBucket ----------------------------
(***************************************************************************)
(* Writers, conditional deletes and metadata updates of the cloud drivers: *)
(* one goroutine in all the steps of its calls, among others whose         *)
(* requests change the blob in between.                                    *)
(*                                                                         *)
(* A streaming writer is two goroutines: the caller, whose Write hands     *)
(* each chunk through a pipe, and the uploader, which reads the pipe until *)
(* Close ends it and then makes the request that stores the body.  The     *)
(* caller waits on done.  An azureblob writer with a declared MD5 buffers  *)
(* the body and makes the request itself.  On gcs both goroutines belong   *)
(* to the client library, which starts the upload with the first Write or  *)
(* Close and whose CloseWithError does not wait.                           *)
(*                                                                         *)
(* S3 has neither a delete that reports a missing key nor an update of the *)
(* metadata alone: there both calls read the attributes first.             *)
(***************************************************************************)
EXTENDS CloudStore

CONSTANTS
  UploadPart,   \* a longer body goes to S3 in parts (manager.Uploader)
  MaxWrites     \* bound on the chunks written through one writer

ASSUME UploadAssumption == UploadPart \in Nat \ {0} /\ MaxWrites \in 0 .. MaxLen

VARIABLES
  client,     \* the call the goroutine is in, and its writer, if any
  returned    \* the call that returned in the last step, and what came of it

\* pc, the caller: idle, or in a call; "open" between two calls of a writer and
\* "closed" once Close or CloseWithError has returned.
\* up, the uploader: its request ends, the pipe is closed, done is closed.
\* pipe, what the uploader finds at the end of the pipe: io.EOF or an error.
\* cause, what CloseWithError was given: an error, nil or io.EOF.
\* stored, len and kept record what the service did for this call: whether it
\* stored or removed the body, the length, and whether the precondition held.
NewClient ==
  [pc |-> "idle", pre |-> Unconditional, cond |-> NoCondition, md5 |-> "none",
   up |-> "none", n |-> 0, answer |-> "none", cancelled |-> FALSE, pipe |-> "open",
   cause |-> "none", broken |-> FALSE, seen |-> 0, hdr |-> 0, stored |-> FALSE, len |-> 0, kept |-> TRUE]

Causes == {"error", "nil", "eof"}

Client ==
  [pc : {"idle", "open", "write", "close", "abort", "closed", "delete", "retag"},
   pre : Preconditions, cond : Conditions, md5 : {"none", "good", "bad"},
   up : {"none", "reading", "sending", "ended", "unblocked", "done"}, n : 0 .. MaxLen,
   answer : Answers, cancelled : BOOLEAN, pipe : {"open", "eof", "error"},
   cause : {"none"} \cup Causes, broken : BOOLEAN,
   seen : Tokens, hdr : 0 .. MaxChanges, stored : BOOLEAN, len : 0 .. MaxLen, kept : BOOLEAN]

Nothing == [call |-> "none", result |-> "ok", writer |-> NewClient]
CallNames == {"none", "close", "abort", "delete", "retag"}

\* A precondition a caller can ask for, knowing the version it saw last.
Asked(seen) ==
  {Unconditional,
   [Unconditional EXCEPT !.IfNotExists = TRUE],
   [Unconditional EXCEPT !.IfMatch = seen],
   [Unconditional EXCEPT !.IfNotMatch = seen]}

\* A client goes on with its call, or returns from it, having been w.
Goes(w) == client' = w /\ returned' = Nothing
Reports(call, result, w) == returned' = [call |-> call, result |-> result, writer |-> w]
Returns(call, result, w) ==
  client' = [NewClient EXCEPT !.seen = w.seen] /\ Reports(call, result, w)
Locally == UNCHANGED <<driver, store, failures>>
Steps(w) == Goes(w) /\ Locally

\* A new call is made when no uploader is at work; the caller may keep a closed writer.
Idle == client.pc = "idle" \/ (client.pc = "closed" /\ client.up \in {"none", "done"})
Buffered == driver = "azure" /\ client.md5 # "none"

-----------------------------------------------------------------------------
(* Attributes.                                                             *)

s3Attributes == Version(blob)
gcsAttributes == Version(blob)
azureAttributes == Version(blob)

Attributes ==
  /\ Idle
  /\ Steps([NewClient EXCEPT !.seen =
       CASE driver = "s3" -> s3Attributes
         [] driver = "gcs" -> gcsAttributes
         [] driver = "azure" -> azureAttributes])

-----------------------------------------------------------------------------
(* Writers: the caller.                                                    *)

Opened(pre, md5, cond, up) ==
  /\ Idle
  /\ Steps([NewClient EXCEPT !.pc = "open", !.pre = pre, !.cond = cond, !.md5 = md5, !.up = up,
                 !.seen = client.seen])

s3NewWriter(pre, md5) ==
  driver = "s3" /\ Opened(pre, md5, applyWriteConditions(pre), "reading")

gcsNewWriter(pre, md5) ==
  driver = "gcs" /\ Opened(pre, md5, gcsConditions(pre), "none")

\* A declared MD5 is checked by the service, in the one request of a buffered body.
azureNewWriter(pre, md5) ==
  /\ driver = "azure"
  /\ Opened(pre, md5, modifiedConditions(pre), IF md5 = "none" THEN "reading" ELSE "none")

NewWriter(pre, md5) ==
  s3NewWriter(pre, md5) \/ gcsNewWriter(pre, md5) \/ azureNewWriter(pre, md5)

\* Write blocks until the uploader has taken the chunk.
PipeWrite(up) ==
  /\ client.pc = "open" /\ client.n < MaxWrites /\ ~client.broken
  /\ Steps([client EXCEPT !.pc = "write", !.up = up])

\* The library opens the upload with the first call that needs it.
openedUp == IF client.up = "none" THEN "reading" ELSE client.up

s3Write == driver = "s3" /\ PipeWrite(client.up)
gcsWrite == driver = "gcs" /\ PipeWrite(openedUp)
azureWrite ==
  /\ driver = "azure"
  /\ \/ ~Buffered /\ PipeWrite(client.up)
     \/ /\ Buffered /\ client.pc = "open" /\ client.n < MaxWrites
        /\ Steps([client EXCEPT !.n = @ + 1])

Write == s3Write \/ gcsWrite \/ azureWrite

\* The pipe: a chunk goes over, or the read half is closed and Write fails.
PipeMoves ==
  /\ client.pc = "write" /\ client.up = "reading"
  /\ Steps([client EXCEPT !.pc = "open", !.n = @ + 1])
PipeBreaks ==
  /\ client.pc = "write" /\ client.up \in {"unblocked", "done"}
  /\ Steps([client EXCEPT !.pc = "open", !.broken = TRUE])

\* Close ends the pipe and waits for done.
PipeClose(up) ==
  /\ client.pc = "open"
  /\ Steps([client EXCEPT !.pc = "close", !.pipe = "eof", !.up = up])

\* A closed writer of s3 or azureblob: if w.closed { return nil }.
CalledAgain(call) ==
  client.pc = "closed" /\ UNCHANGED client /\ Reports(call, "ok", client) /\ Locally

s3Close == driver = "s3" /\ (PipeClose(client.up) \/ CalledAgain("close"))
\* The library waits for done again, and returns the same error.
gcsClose ==
  /\ driver = "gcs"
  /\ \/ PipeClose(openedUp)
     \/ client.pc = "closed" /\ Steps([client EXCEPT !.pc = "close"])
azureClose ==
  /\ driver = "azure"
  /\ \/ ~Buffered /\ PipeClose(client.up)
     \/ Buffered /\ PipeClose("sending")
     \/ CalledAgain("close")

Close == s3Close \/ gcsClose \/ azureClose

\* What Close reports: w.err, nil until the uploader sets it.
writerErr(w) ==
  IF w.up \in {"ended", "unblocked", "done"} THEN mapError(w.answer) ELSE "ok"

\* Close or CloseWithError returns: of a closed writer s3 and azureblob know no more
\* than that, the gcs library all.
Leaves(call, result) ==
  /\ Reports(call, result, client) /\ Locally
  /\ client' = IF driver = "gcs" THEN [client EXCEPT !.pc = "closed"]
               ELSE [NewClient EXCEPT !.pc = "closed", !.seen = client.seen]

\* Mutant of CloseReturns: Close does not wait for the uploader.
CloseReturnsEarly == client.pc = "close" /\ Leaves("close", writerErr(client))

\* <-done, and the error of the uploader.
CloseReturns ==
  /\ client.pc = "close"
  /\ client.up = "done" \/ (Buffered /\ client.up = "ended")
  /\ Leaves("close", writerErr(client))

\* CloseWithError gives an error to the reader of the pipe and waits for done.
PipeAbort(cause, pipe) ==
  /\ client.pc = "open"
  /\ Steps([client EXCEPT !.pc = "abort", !.cause = cause, !.pipe = pipe])

\* To the reader of the pipe io.EOF is the end of the body.  In place of nil the
\* drivers give an error of their own.
readAs(cause) == IF cause = "eof" THEN "eof" ELSE "error"

\* Mutant of s3CloseWithError: the pipe is closed without the cause.
s3CloseWithoutCause(cause) == driver = "s3" /\ PipeAbort(cause, "eof")

s3CloseWithError(cause) ==
  driver = "s3" /\ (PipeAbort(cause, readAs(cause)) \/ CalledAgain("abort"))

\* The driver passes any cause on to the library, which does nothing before the
\* upload is opened; to its pipe nil is io.EOF.
gcsCloseWithError(cause) ==
  /\ driver = "gcs" /\ Locally
  /\ Reports("abort", "ok", client)
  /\ \/ /\ client.pc = "closed" \/ (client.pc = "open" /\ client.up = "none")
        /\ UNCHANGED client
     \/ /\ client.pc = "open" /\ client.up # "none"
        /\ client' = [client EXCEPT !.pc = "closed", !.cause = cause,
                        !.pipe = IF cause = "nil" THEN "eof" ELSE readAs(cause)]

\* A buffered body is dropped.
azureCloseWithError(cause) ==
  /\ driver = "azure"
  /\ \/ ~Buffered /\ PipeAbort(cause, readAs(cause))
     \/ Buffered /\ client.pc = "open" /\ Leaves("abort", "ok")
     \/ CalledAgain("abort")

CloseWithError(cause) ==
  s3CloseWithError(cause) \/ gcsCloseWithError(cause) \/ azureCloseWithError(cause)

AbortReturns ==
  client.pc = "abort" /\ client.up = "done" /\ Leaves("abort", "ok")

\* The context of the writer ends before the upload does.
Cancel ==
  /\ client.up \in {"reading", "sending"} \/ (client.pc = "open" /\ client.up = "none")
  /\ ~client.cancelled
  /\ Steps([client EXCEPT !.cancelled = TRUE])

-----------------------------------------------------------------------------
(* Writers: the uploader.                                                  *)

Ended(answer) ==
  [client EXCEPT !.up = "ended", !.answer = answer]

\* The pipe ends: with io.EOF the body is complete, with any other error the
\* upload is given up.
ReadsEof ==
  /\ client.up = "reading" /\ client.pipe = "eof"
  /\ Steps([client EXCEPT !.up = "sending"])
ReadsCause ==
  /\ client.up = "reading" /\ client.pipe = "error"
  /\ Steps(Ended("none"))

\* A wrong MD5 is refused, except in the parts of a long body, which go to S3
\* without it.
BadMD5(w) == w.md5 = "bad" /\ ~(driver = "s3" /\ w.n > UploadPart)

\* The request stores the body, or is refused; its answer may get lost, upon
\* which the upload fails, or the client library tries once more.  Of an upload
\* in parts this is the last request, which makes the parts the blob.
UploadRequest ==
  LET w == client
      did(new) == [new EXCEPT !.stored = TRUE, !.len = w.n, !.kept = @ /\ Promised(w.pre, blob)]
  IN
  /\ w.up = "sending"
  /\ UNCHANGED driver
  /\ \/ /\ ~BadMD5(w) /\ Accepts(w.cond, blob)
        /\ Store(w.n)
        /\ \/ UNCHANGED failures /\ Goes(did(Ended("200")))
           \/ FailOnce /\ Goes(did(Ended("none")))
           \/ FailOnce /\ Spare /\ Goes(did(w))
     \/ /\ \E answer \in Refusals(w.cond, blob) \cup (IF BadMD5(w) THEN {"400"} ELSE {}) :
             Goes(Ended(answer))
        /\ UNCHANGED <<store, failures>>

\* In the goroutine of a streaming writer; in Close of a buffered one.
startStream == ~Buffered /\ UploadRequest
commitBuffered == Buffered /\ UploadRequest

\* The upload fails before its request has done anything.
UploadFails ==
  /\ client.up \in {"reading", "sending"}
  /\ \/ client.cancelled /\ UNCHANGED failures
     \/ FailOnce
  /\ Goes(Ended("none"))
  /\ UNCHANGED <<driver, store>>

\* w.err is set; the read half of the pipe is closed; done is closed.
Unblock ==
  /\ client.up = "ended" /\ ~Buffered
  /\ Steps([client EXCEPT !.up = "unblocked"])

\* Mutant of Signal: done is closed only if the upload succeeded.
SignalOnSuccess ==
  /\ client.up = "unblocked" /\ client.answer = "200"
  /\ Steps([client EXCEPT !.up = "done"])

Signal ==
  /\ client.up = "unblocked"
  /\ Steps([client EXCEPT !.up = "done"])

-----------------------------------------------------------------------------
(* Delete.                                                                 *)

\* The request: removed, refused or, on S3 without a condition, nothing to do.
\* The answer may get lost.
DeleteRequest(w, idempotent) ==
  LET end(removed) == [w EXCEPT !.stored = removed, !.kept = Promised(w.pre, blob)] IN
  /\ UNCHANGED driver
  /\ \/ /\ Exists(blob) /\ Accepts(w.cond, blob)
        /\ Remove
        /\ \/ Returns("delete", "ok", end(TRUE)) /\ UNCHANGED failures
           \/ Returns("delete", "error", end(TRUE)) /\ FailOnce
     \/ /\ Exists(blob)
        /\ \E answer \in Refusals(w.cond, blob) :
             Returns("delete", mapError(answer), end(FALSE))
        /\ UNCHANGED <<store, failures>>
     \/ /\ ~Exists(blob)
        /\ Returns("delete", mapError(IF idempotent THEN "200" ELSE "404"), end(FALSE))
        /\ UNCHANGED <<store, failures>>

\* A client about to make a call under a precondition.
Calling(pre, cond) ==
  [NewClient EXCEPT !.pre = pre, !.cond = cond, !.seen = client.seen]

gcsDelete(pre) ==
  /\ driver = "gcs" /\ Idle
  /\ DeleteRequest(Calling(pre, gcsConditions(pre)), FALSE)
azureDelete(pre) ==
  /\ driver = "azure" /\ Idle
  /\ DeleteRequest(Calling(pre, modifiedConditions(pre)), FALSE)

\* Only IfMatch can be asked of S3, and DeleteObject does not report a missing
\* key: the attributes are read first.
s3Delete(pre) ==
  LET w == Calling(pre, applyWriteConditions(pre))
      supported == ~pre.IfNotExists /\ pre.IfNotMatch = 0
  IN
  /\ driver = "s3" /\ Idle /\ Locally
  /\ \/ ~supported /\ Returns("delete", "unsupported", w)
     \/ supported /\ ~Exists(blob) /\ Returns("delete", mapError("404"), w)
     \/ supported /\ Exists(blob) /\ Goes([w EXCEPT !.pc = "delete"])

s3DeleteObject ==
  client.pc = "delete" /\ DeleteRequest(client, client.cond = NoCondition)

Delete(pre) == s3Delete(pre) \/ gcsDelete(pre) \/ azureDelete(pre)

-----------------------------------------------------------------------------
(* UpdateMetadata.                                                         *)

Updated(w, hdr) ==
  /\ UNCHANGED driver
  /\ \/ /\ Exists(blob)
        /\ Retag(hdr)
        /\ \/ Returns("retag", "ok", w) /\ UNCHANGED failures
           \/ Returns("retag", "error", w) /\ FailOnce
     \/ /\ ~Exists(blob)
        /\ Returns("retag", mapError("404"), w)
        /\ UNCHANGED <<store, failures>>

gcsUpdateMetadata ==
  driver = "gcs" /\ Idle /\ Spare /\ Updated(Calling(Unconditional, NoCondition), blob.hdr)
azureUpdateMetadata ==
  driver = "azure" /\ Idle /\ Spare /\ Updated(Calling(Unconditional, NoCondition), blob.hdr)

\* S3 copies the object onto itself, with the headers of the attributes read before.
s3UpdateMetadata ==
  LET w == Calling(Unconditional, NoCondition) IN
  /\ driver = "s3" /\ Idle /\ Spare /\ Locally
  /\ \/ Exists(blob) /\ Goes([w EXCEPT !.pc = "retag", !.hdr = blob.hdr])
     \/ ~Exists(blob) /\ Returns("retag", mapError("404"), w)
s3CopyOntoItself ==
  client.pc = "retag" /\ Updated(client, client.hdr)

UpdateMetadata == s3UpdateMetadata \/ gcsUpdateMetadata \/ azureUpdateMetadata

-----------------------------------------------------------------------------

BucketInit == client = NewClient /\ returned = Nothing

CallerStep ==
  \/ Attributes
  \/ \E pre \in Asked(client.seen) :
       \/ Delete(pre)
       \/ Spare /\ \E md5 \in {"none", "good", "bad"} :
            (md5 = "good" => driver = "azure") /\ NewWriter(pre, md5)
  \/ UpdateMetadata
  \/ Write \/ Close \/ Cancel
  \/ \E cause \in Causes : CloseWithError(cause)

\* What goes on once a call has been made, without the caller's doing.
BusyStep ==
  \/ PipeMoves \/ PipeBreaks \/ CloseReturns \/ AbortReturns
  \/ ReadsEof \/ ReadsCause \/ startStream \/ commitBuffered \/ UploadFails \/ Unblock \/ Signal
  \/ s3DeleteObject \/ s3CopyOntoItself

-----------------------------------------------------------------------------
(* Properties.                                                             *)

BucketTypeOK ==
  /\ client \in Client
  /\ returned \in [call : CallNames, result : Outcomes, writer : Client]

\* A call that returns nil has done what it says.  Close of an open writer, and on
\* gcs every Close, has stored all that Write took, and the precondition held each
\* time the service stored it, although the uploader fails, is refused or retried in
\* a goroutine of its own; a wrong MD5 gets through only in a long body on S3.
\* Delete has removed the blob, and its precondition held of what it removed; only
\* two unconditional deletes on S3 can both return nil for one blob.
NilMeansDone ==
  LET w == returned.writer IN
  returned.result = "ok" =>
    /\ returned.call = "close" /\ w.pc = "close" =>
         /\ w.stored /\ w.len = w.n /\ w.kept
         /\ w.md5 = "bad" => driver = "s3" /\ w.n > UploadPart
    /\ returned.call = "delete" =>
         w.kept /\ (w.stored \/ (driver = "s3" /\ w.cond = NoCondition))

\* What the service stores of a writer, it stores under the precondition of the
\* caller and after Close, or after CloseWithError was given io.EOF or, on gcs, nil:
\* no other cause publishes the part of the body that was written.
OnlyClosedIsStored ==
  \A w \in {client, returned.writer} :
    w.stored /\ w.up # "none" =>
      /\ w.kept
      /\ w.pc \in {"close", "abort", "closed"}
      /\ w.cause \in {"none", "eof"} \/ (driver = "gcs" /\ w.cause = "nil")

\* A refused condition is reported as ErrPreconditionFailed and as nothing else,
\* except by S3 for a key that has gone; a writer that was refused after it was
\* stored lost an answer.  The lock, the queue and the watcher decide by this error.
RefusalIsNamed ==
  LET w == returned.writer IN
  returned.call = "close" /\ w.pc = "close" =>
    /\ w.answer \in {"409", "412", "aborted"} <=> returned.result = "precondition failed"
    /\ returned.result = "not found" => driver = "s3" /\ w.cond.match # 0
    /\ returned.result = "precondition failed" /\ w.stored => failures > 0

\* Every Write, Close, CloseWithError, Delete and UpdateMetadata returns: a failed
\* upload unblocks the pipe and closes done.
CallsReturn ==
  client.pc \notin {"idle", "open", "closed"} ~> client.pc \in {"idle", "open", "closed"}

-----------------------------------------------------------------------------
(* What the documentation says, and TLC refutes.                           *)

\* docs/architecture.md: an aborted writer leaves nothing behind.
AbortLeavesNothing == client.cause # "none" => ~client.stored

\* docs/architecture.md: a declared MD5 is validated.
MD5IsValidated ==
  returned.call = "close" /\ returned.writer.pc = "close" /\ returned.result = "ok" =>
    returned.writer.md5 # "bad"
=============================================================================
