------------------------------ MODULE CrossCopy -----------------------------
(***************************************************************************)
(* Server-side copies of the blob to another key (Copy) or to another      *)
(* bucket (XCopyFrom, whose CopyOperation a goroutine brings to its end).  *)
(*   gcs    one rewrite;                                                   *)
(*   s3     one CopyObject or, for XCopyFrom of a large blob, a multipart  *)
(*          upload whose parts are copied by an errgroup;                  *)
(*   azure  a copy that the service may go on with by itself, while the    *)
(*          driver polls the status that it leaves at the target.          *)
(* Others go on changing the source.                                       *)
(***************************************************************************)
EXTENDS CloudStore

CONSTANTS
  MaxSingle,       \* largest blob that one CopyObject copies
  PartSize,        \* size of a part, before it is scaled
  MaxParts,        \* parts of an upload
  Concurrency,     \* parts copied at a time
  MaxPollErrors    \* failed polls in a row that end a copy (3 in the code)

ASSUME CopyAssumption ==
  /\ MaxSingle \in Nat
  /\ {PartSize, MaxParts, Concurrency, MaxPollErrors} \subseteq Nat \ {0}

VARIABLES
  copy,      \* the copy, and the CopyOperation
  target     \* the target: its length and the blobs its body and headers come from

Part == 0 .. (MaxParts - 1)
NoTarget == [len |-> 0, gens |-> {}, hdr |-> 0]

\* from: the source as read first.  parts, upload, stored: the multipart upload and
\* the parts that the service holds; late: requests given up but not over.
\* status: what the service says of an Azure copy.  polls: pollErrors; streak: the
\* polls that failed in a row.  err: what run returns; opErr, the handle's.
NewCopy ==
  [pc |-> "none", sync |-> FALSE, from |-> NoBlob, parts |-> [i \in Part |-> "none"],
   gens |-> {}, upload |-> "none", stored |-> {}, late |-> {}, abortFailed |-> FALSE,
   straggled |-> FALSE, status |-> "none", polls |-> 0, streak |-> 0, cancelled |-> FALSE,
   err |-> "ok", opErr |-> "ok"]

Copy ==
  [pc : {"none", "head", "single", "create", "parts", "complete", "abort", "rewrite",
         "url", "start", "poll", "returned", "set", "done"},
   sync : BOOLEAN, from : Blob, parts : [Part -> {"none", "todo", "flying", "done", "failed"}],
   gens : SUBSET (1 .. MaxChanges), upload : {"none", "open", "completed", "aborted"},
   stored : SUBSET Part, late : SUBSET Part, abortFailed : BOOLEAN, straggled : BOOLEAN,
   status : {"none", "pending", "success", "failed"}, polls : 0 .. MaxPollErrors,
   streak : 0 .. MaxPollErrors, cancelled : BOOLEAN, err : Outcomes, opErr : Outcomes]

source == <<driver, blob, changes>>
Only(new) == copy' = new /\ UNCHANGED <<source, target, failures>>
Ends(answer) == [copy EXCEPT !.pc = "returned", !.err = mapError(answer)]

\* The body and the headers of one version of the source.
Snapshot == [len |-> blob.len, gens |-> {blob.gen}, hdr |-> blob.hdr]

\* A request fails: its context has ended, or it just fails.
RequestFails == (copy.cancelled /\ UNCHANGED failures) \/ FailOnce

-----------------------------------------------------------------------------
(* Parts.                                                                  *)

CeilDiv(a, b) == (a + b - 1) \div b

partSize(size) ==
  IF CeilDiv(size, PartSize) > MaxParts THEN CeilDiv(size, MaxParts) ELSE PartSize

\* Mutant of partCount: the division rounds down.
partCountRoundedDown(size) == size \div partSize(size)
partCount(size) == CeilDiv(size, partSize(size))

partStart(size, i) == i * partSize(size)
partEnd(size, i) ==
  LET end == partStart(size, i) + partSize(size) - 1 IN IF end >= size THEN size - 1 ELSE end

InState(state) == {i \in Part : copy.parts[i] = state}

-----------------------------------------------------------------------------
(* Starting, cancelling and ending a copy.                                 *)

Begins(sync, pc) ==
  /\ copy.pc = "none"
  /\ Only([copy EXCEPT !.pc = pc, !.sync = sync])

s3Copy == driver = "s3" /\ Begins(TRUE, "single")
gcsCopy == driver = "gcs" /\ Begins(TRUE, "rewrite")
azureCopy == driver = "azure" /\ Begins(TRUE, "start")
s3XCopyFrom == driver = "s3" /\ Begins(FALSE, "head")
gcsXCopyFrom == driver = "gcs" /\ Begins(FALSE, "rewrite")
azureXCopyFrom == driver = "azure" /\ Begins(FALSE, "url")

CancelCopy ==
  /\ copy.pc \notin {"none", "returned", "set", "done"} /\ ~copy.cancelled
  /\ Only([copy EXCEPT !.cancelled = TRUE])

\* Mutant of StartCopyOperation: only a success closes Done.
SignalsSuccess ==
  \/ copy.pc = "returned" /\ Only([copy EXCEPT !.pc = "set", !.opErr = copy.err])
  \/ copy.pc = "set" /\ copy.opErr = "ok" /\ Only([copy EXCEPT !.pc = "done"])

\* The goroutine: the error is set under the mutex, then Done is closed.
StartCopyOperation ==
  \/ copy.pc = "returned" /\ Only([copy EXCEPT !.pc = "set", !.opErr = copy.err])
  \/ copy.pc = "set" /\ Only([copy EXCEPT !.pc = "done"])

-----------------------------------------------------------------------------
(* One request: the rewrite of gcs, CopyObject of S3.                      *)

CopyInOne(fits) ==
  \/ /\ Exists(blob) /\ fits
     /\ target' = Snapshot
     /\ \/ copy' = [Ends("200") EXCEPT !.from = blob] /\ UNCHANGED failures
        \/ copy' = Ends("none") /\ RequestFails
     /\ UNCHANGED source
  \/ ~Exists(blob) /\ Only(Ends("404"))
  \/ Exists(blob) /\ ~fits /\ Only(Ends("400"))
  \/ RequestFails /\ copy' = Ends("none") /\ UNCHANGED <<source, target>>

rewrite == copy.pc = "rewrite" /\ CopyInOne(TRUE)
single == copy.pc = "single" /\ CopyInOne(blob.len <= MaxSingle)

-----------------------------------------------------------------------------
(* S3: a large blob.                                                       *)

\* run: the size of the source decides.
headObject ==
  /\ copy.pc = "head"
  /\ \/ ~Exists(blob) /\ Only(Ends("404"))
     \/ /\ Exists(blob)
        /\ Only([copy EXCEPT !.from = blob,
                   !.pc = IF blob.len <= MaxSingle THEN "single" ELSE "create"])
     \/ RequestFails /\ copy' = Ends("none") /\ UNCHANGED <<source, target>>

Split(size) == [i \in Part |-> IF i < partCount(size) THEN "todo" ELSE "none"]

createMultipartUpload ==
  /\ copy.pc = "create" /\ UNCHANGED <<source, target>>
  /\ \/ /\ copy' = [copy EXCEPT !.pc = "parts", !.upload = "open", !.parts = Split(copy.from.len)]
        /\ UNCHANGED failures
     \/ RequestFails /\ copy' = Ends("none")
     \/ RequestFails /\ copy' = [Ends("none") EXCEPT !.upload = "open"]

\* g.Go starts the parts in order, as many at a time as the limit says.
startPart(i) ==
  /\ copy.pc = "parts" /\ copy.parts[i] = "todo"
  /\ \A j \in InState("todo") : i <= j
  /\ Cardinality(InState("flying")) < Concurrency
  /\ Only([copy EXCEPT !.parts[i] = "flying"])

PartIsThere(i) == Exists(blob) /\ partEnd(copy.from.len, i) < blob.len

\* errgroup keeps the error of the part that fails first.
PartFails(i, answer) ==
  [copy EXCEPT !.parts[i] = "failed",
               !.err = IF InState("failed") = {} THEN mapError(answer) ELSE @]

\* The part is copied from the source as it is now.  gctx ends with the first part
\* that fails; a request given up on may still be carried out.
uploadPartCopy(i) ==
  /\ copy.parts[i] = "flying" /\ UNCHANGED <<source, target>>
  /\ \/ /\ PartIsThere(i)
        /\ copy' = [copy EXCEPT !.parts[i] = "done", !.stored = @ \cup {i},
                                !.gens = @ \cup {blob.gen}]
        /\ UNCHANGED failures
     \/ /\ ~PartIsThere(i) /\ UNCHANGED failures
        /\ copy' = PartFails(i, IF Exists(blob) THEN "416" ELSE "404")
     \/ /\ RequestFails \/ (InState("failed") # {} /\ UNCHANGED failures)
        /\ \/ copy' = PartFails(i, "none")
           \/ copy' = [PartFails(i, "none") EXCEPT !.late = @ \cup {i}]

\* A request given up on is carried out after all, or comes to nothing.
Straggles(i) ==
  /\ i \in copy.late
  /\ \/ Only([copy EXCEPT !.late = @ \ {i}])
     \/ Only([copy EXCEPT !.late = @ \ {i}, !.stored = @ \cup {i},
                          !.straggled = @ \/ copy.upload # "open"])

\* g.Wait, with the error of the part that failed first.
waitParts ==
  /\ copy.pc = "parts" /\ InState("todo") \cup InState("flying") = {}
  /\ Only(IF InState("failed") = {} THEN [copy EXCEPT !.pc = "complete"]
          ELSE [copy EXCEPT !.pc = "abort"])

Assembled ==
  [len |-> partEnd(copy.from.len, partCount(copy.from.len) - 1) + 1,
   gens |-> copy.gens, hdr |-> copy.from.hdr]
Completed == [copy EXCEPT !.upload = "completed", !.stored = {}]

\* Mutant of completeMultipartUpload: an upload that is not completed is left behind.
completeOrLeave ==
  /\ copy.pc = "complete" /\ UNCHANGED source
  /\ \/ /\ target' = Assembled /\ UNCHANGED failures
        /\ copy' = [Completed EXCEPT !.pc = "returned", !.err = "ok"]
     \/ RequestFails /\ copy' = Ends("none") /\ UNCHANGED target

completeMultipartUpload ==
  /\ copy.pc = "complete" /\ UNCHANGED source
  /\ \/ /\ target' = Assembled /\ UNCHANGED failures
        /\ copy' = [Completed EXCEPT !.pc = "returned", !.err = "ok"]
     \/ /\ target' = Assembled /\ RequestFails
        /\ copy' = [Completed EXCEPT !.pc = "abort", !.err = "error"]
     \/ /\ UNCHANGED target /\ RequestFails
        /\ \E answer \in Answers \ {"200"} :
             copy' = [copy EXCEPT !.pc = "abort", !.err = mapError(answer)]

\* abort has a context of its own; its error is dropped.
abort ==
  /\ copy.pc = "abort" /\ UNCHANGED <<source, target>>
  /\ \/ /\ copy' = [copy EXCEPT !.pc = "returned", !.stored = {},
                                !.upload = IF @ = "open" THEN "aborted" ELSE @]
        /\ UNCHANGED failures
     \/ FailOnce /\ copy' = [copy EXCEPT !.pc = "returned", !.abortFailed = TRUE]

-----------------------------------------------------------------------------
(* Azure: a copy that is polled.                                           *)

\* The URL of a source in another account is signed, which the source bucket may
\* lack the means for.
sourceURL ==
  /\ copy.pc = "url"
  /\ Only([copy EXCEPT !.pc = "start"]) \/ Only(Ends("none"))

\* The service copies at once, or goes on with it later.
startCopyFromURL ==
  /\ copy.pc = "start" /\ UNCHANGED source
  /\ \/ ~Exists(blob) /\ copy' = Ends("404") /\ UNCHANGED <<target, failures>>
     \/ /\ Exists(blob) /\ target' = Snapshot /\ UNCHANGED failures
        /\ copy' = [Ends("200") EXCEPT !.from = blob, !.status = "success"]
     \/ /\ Exists(blob) /\ UNCHANGED target
        /\ \/ /\ copy' = [copy EXCEPT !.pc = "poll", !.from = blob, !.status = "pending"]
              /\ UNCHANGED failures
           \/ RequestFails /\ copy' = [Ends("none") EXCEPT !.from = blob, !.status = "pending"]
     \/ RequestFails /\ copy' = Ends("none") /\ UNCHANGED target

\* The service, to the end: whatever becomes of the driver, and only if the source
\* is still the one it began with.
azureService ==
  /\ copy.status = "pending" /\ UNCHANGED <<source, failures>>
  /\ \/ /\ blob.gen = copy.from.gen
        /\ copy' = [copy EXCEPT !.status = "success"]
        /\ target' = Snapshot
     \/ copy' = [copy EXCEPT !.status = "failed"] /\ UNCHANGED target

\* A poll that fails: the third in a row ends the copy.
PollFails ==
  LET more == [copy EXCEPT !.polls = @ + 1, !.streak = @ + 1] IN
  /\ RequestFails /\ UNCHANGED <<source, target>>
  /\ copy' = IF copy.cancelled \/ more.polls >= MaxPollErrors
             THEN [more EXCEPT !.pc = "returned", !.err = "error"] ELSE more

\* What GetProperties says ends the loop, unless the copy is pending; then the
\* driver sleeps, which ends with the context.
Polled(polls) ==
  Only(CASE copy.status = "success" -> Ends("200")
         [] copy.status = "pending" /\ copy.cancelled -> Ends("none")
         [] copy.status = "pending" /\ ~copy.cancelled ->
              [copy EXCEPT !.polls = polls, !.streak = 0]
         [] OTHER -> Ends("none"))

\* Mutant of pollCopyStatus: pollErrors is not reset.
pollWithoutReset == copy.pc = "poll" /\ (Polled(copy.polls) \/ PollFails)

pollCopyStatus == copy.pc = "poll" /\ (Polled(0) \/ PollFails)

-----------------------------------------------------------------------------

CopyInit == copy = NewCopy /\ target = NoTarget

CopyCaller ==
  \/ s3Copy \/ gcsCopy \/ azureCopy \/ s3XCopyFrom \/ gcsXCopyFrom \/ azureXCopyFrom
  \/ CancelCopy

CopyStep ==
  \/ rewrite \/ single \/ headObject \/ createMultipartUpload
  \/ \E i \in Part : startPart(i) \/ uploadPartCopy(i)
  \/ waitParts \/ completeMultipartUpload \/ abort
  \/ sourceURL \/ startCopyFromURL \/ pollCopyStatus
  \/ StartCopyOperation

CopyService == azureService \/ \E i \in Part : Straggles(i)

-----------------------------------------------------------------------------
(* Properties.                                                             *)

CopyTypeOK ==
  /\ copy \in Copy
  /\ target \in [len : 0 .. MaxLen, gens : SUBSET (1 .. MaxChanges), hdr : 0 .. MaxChanges]

\* Once Done is closed Err is the outcome of the copy, and if that is nil the target
\* has the body and the headers of one version of the source, whole: however the
\* copy was split, and whatever failed, was polled or was cancelled meanwhile.  Of a
\* source that was overwritten during a multipart copy only the length is certain.
DoneMeansCopied ==
  copy.pc = "done" =>
    /\ copy.opErr = copy.err
    /\ copy.opErr = "ok" =>
         /\ target.len = copy.from.len /\ target.hdr = copy.from.hdr
         /\ target.gens = {copy.from.gen} \/ (copy.upload = "completed" /\ blob.gen # copy.from.gen)

\* A copy that is over leaves no parts behind, however it failed, unless the abort
\* failed or a request that was given up on is carried out after the abort.
NoOrphanedParts == copy.pc = "done" /\ copy.stored # {} => copy.abortFailed \/ copy.straggled

\* Polls that fail end a copy only MaxPollErrors in a row, so that one that is going
\* well survives isolated failures.
PollErrorsAreTolerated ==
  copy.pc = "returned" /\ copy.polls > 0 /\ copy.err = "error" =>
    copy.cancelled \/ copy.status = "failed" \/ copy.streak = MaxPollErrors

\* A copy that was started is done at some time: Done is closed after a success, a
\* failure and a cancellation alike.
CopyEnds == copy.pc # "none" ~> copy.pc = "done"
=============================================================================
