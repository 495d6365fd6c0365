----------------------------- MODULE CloudProofs -----------------------------
(***************************************************************************)
(* Proofs about the cloud drivers, their bucket calls, range readers and   *)
(* copies: for bodies and parts of every length, every pattern of          *)
(* failures, lost answers and retries, and any number of changes of the    *)
(* blob by others.                                                         *)
(***************************************************************************)
EXTENDS Cloud, TLAPS

\* A leaf goes to Zenon unless it names another prover.
USE ZenonT(30)

-----------------------------------------------------------------------------
(* The inductive invariant of the bucket calls.                            *)

Finished == {"ended", "unblocked", "done"}

\* What goes over the wire is the one precondition that the caller asked for.
Asks(w) ==
  /\ \E seen \in Tokens : w.pre \in Asked(seen)
  /\ w.cond = FirstSet(w.pre)

\* What an uploader has done, and how its answer came about, after so many failures.
Uploads(w, failed) ==
  /\ w.kept
  /\ w.answer # "none" => w.up \in Finished
  /\ w.stored => w.up \in Finished \cup {"sending"} /\ w.len = w.n
  /\ w.answer = "200" => w.stored /\ ~BadMD5(w)
  /\ w.stored /\ w.answer # "200" => failed > 0
  /\ w.answer = "409" => driver # "gcs"
  /\ w.answer = "aborted" => driver = "gcs"
  /\ w.answer = "404" => driver = "s3" /\ w.cond.match # 0

\* A buffered writer makes its request in Close; a delete in two steps is S3's.
Placed(w) ==
  /\ driver = "azure" /\ w.md5 # "none" => w.pc # "write" /\ (w.up # "none" => w.pc = "close")
  /\ w.pc = "delete" => driver = "s3" /\ w.up = "none"
  /\ w.pc = "write" => w.n < MaxLen

\* A body ends with Close, or with a CloseWithError whose cause the pipe takes for
\* the end, and is not sent before.
Closing(w) ==
  /\ w.pc \in {"open", "write"} => w.cause = "none"
  /\ w.up = "sending" \/ w.stored => w.pipe = "eof"
  /\ w.pipe = "eof" =>
       /\ w.pc \in {"close", "abort", "closed"}
       /\ w.cause \in {"none", "eof"} \/ (driver = "gcs" /\ w.cause = "nil")

\* OnlyClosedIsStored, of one writer.
Published(w) ==
  w.stored /\ w.up # "none" =>
    /\ w.kept
    /\ w.pc \in {"close", "abort", "closed"}
    /\ w.cause \in {"none", "eof"} \/ (driver = "gcs" /\ w.cause = "nil")

WriterInv(w, failed) ==
  w \in Client /\ Asks(w) /\ Uploads(w, failed) /\ Placed(w) /\ Closing(w)

ReturnedInv ==
  /\ returned \in [call : CallNames, result : Outcomes, writer : Client]
  /\ NilMeansDone
  /\ RefusalIsNamed
  /\ Published(returned.writer)

CallsInv == CloudTypeOK /\ WriterInv(client, failures) /\ ReturnedInv

\* The goroutine is a client, or has called nothing.
BucketInv ==
  /\ role = "client" => CallsInv
  /\ role # "client" => client = NewClient /\ returned = Nothing

-----------------------------------------------------------------------------
(* The inductive invariant of the range readers.                           *)

\* Where the end of the range is, in the blob that the reader goes by.
Reach(r) ==
  LET there == larger(r.known - r.start, 0) IN
  IF r.length >= 0 THEN smaller(r.length, there) ELSE there

\* The sizes are those of the blob whose body was opened last.
Sized(r) ==
  /\ r.open => r.opened
  /\ r.opened => r.size = r.len /\ r.known <= r.len

\* A body with bytes left is where the caller was told, and one with none left is
\* at the end: what has been read and what is left of the body make up the range.
InPlace(r) ==
  r.open =>
    /\ r.at <= r.end
    /\ r.at < r.end =>
         /\ r.at = r.start + r.pos /\ r.told = r.pos
         /\ driver = "gcs" /\ r.length >= 0 => r.end <= r.start + r.length
    /\ driver = "gcs" \/ rangeSize(r) > r.pos => r.pos + (r.end - r.at) >= Reach(r)

ReadsInv ==
  /\ CloudTypeOK /\ ReaderTypeOK
  /\ Sized(reader) /\ InPlace(reader)
  /\ ReadsInPlace /\ EndIsTheEnd

\* The goroutine is a reader, or has read nothing.
ReaderInv ==
  /\ role = "reader" => ReadsInv
  /\ role # "reader" => reader = NoReader /\ got = Nil

-----------------------------------------------------------------------------
(* The service.                                                            *)

LEMMA Constants ==
  /\ MaxLen \in Nat /\ MaxChanges \in Nat /\ MaxFailures \in Nat
  /\ Drivers \subseteq {"s3", "gcs", "azure"}
  /\ MaxWrites \in 0 .. MaxLen
BY CloudAssumption, UploadAssumption

LEMMA StoreTypes ==
  ASSUME CloudTypeOK, NEW len \in 0 .. MaxLen, Store(len)
  PROVE  blob' \in Blob /\ changes' \in 0 .. MaxChanges
BY Constants, SMTT(30) DEF CloudTypeOK, Store, Room, Blob

LEMMA RetagTypes ==
  ASSUME CloudTypeOK, NEW hdr \in 0 .. MaxChanges, Retag(hdr)
  PROVE  blob' \in Blob /\ changes' \in 0 .. MaxChanges
<1>1. blob \in Blob /\ changes' = changes + 1 /\ changes + 1 \in 0 .. MaxChanges
  BY Constants, SMTT(30) DEF CloudTypeOK, Retag, Room
<1> QED
  BY <1>1 DEF Retag, Blob

LEMMA RemoveTypes ==
  ASSUME CloudTypeOK, Remove
  PROVE  blob' \in Blob /\ changes' \in 0 .. MaxChanges
BY Constants, SMTT(30) DEF CloudTypeOK, Remove, NoBlob, Blob

LEMMA OthersTypes ==
  ASSUME CloudTypeOK, Others
  PROVE  CloudTypeOK' /\ driver' = driver /\ failures' = failures
<1>1. blob' \in Blob /\ changes' \in 0 .. MaxChanges
  <2>1. ASSUME NEW len \in 0 .. MaxLen, Store(len) PROVE blob' \in Blob /\ changes' \in 0 .. MaxChanges
    BY <2>1, StoreTypes
  <2>2. ASSUME NEW hdr \in 1 .. blob.hdr, Retag(hdr) PROVE blob' \in Blob /\ changes' \in 0 .. MaxChanges
    <3>1. hdr \in 0 .. MaxChanges
      BY Constants, SMTT(30) DEF CloudTypeOK, Blob
    <3> QED
      BY <2>2, <3>1, RetagTypes
  <2>3. CASE Remove
    BY <2>3, RemoveTypes
  <2> QED
    BY <2>1, <2>2, <2>3 DEF Others
<1> QED
  BY <1>1 DEF Others, CloudTypeOK

LEMMA FailTypes ==
  ASSUME CloudTypeOK, FailOnce
  PROVE  failures' \in 0 .. MaxFailures /\ failures' > 0
BY Constants, SMTT(30) DEF CloudTypeOK, FailOnce

LEMMA Versions ==
  ASSUME CloudTypeOK
  PROVE  Version(blob) \in Tokens
BY Constants, SMTT(30) DEF CloudTypeOK, Version, Blob, Tokens

\* A precondition that is set alone is what the service checks.
LEMMA AcceptedIsPromised ==
  ASSUME CloudTypeOK, NEW seen \in Tokens, NEW pre \in Asked(seen), Accepts(FirstSet(pre), blob)
  PROVE  Promised(pre, blob)
<1>1. CASE pre = Unconditional
  BY <1>1 DEF Promised, Unconditional
<1>2. CASE pre = [Unconditional EXCEPT !.IfNotExists = TRUE]
  BY <1>2 DEF Promised, Unconditional, FirstSet, Accepts, NoCondition
<1>3. CASE pre = [Unconditional EXCEPT !.IfMatch = seen]
  BY <1>3 DEF Promised, Unconditional, FirstSet, Accepts, NoCondition
<1>4. CASE pre = [Unconditional EXCEPT !.IfNotMatch = seen]
  BY <1>4, Constants DEF Promised, Unconditional, FirstSet, Accepts, NoCondition, Version, Tokens
<1> QED
  BY <1>1, <1>2, <1>3, <1>4 DEF Asked

\* Only an unconditional call goes out without a condition.
LEMMA NoConditionIsNone ==
  ASSUME NEW seen \in Tokens, NEW pre \in Asked(seen), FirstSet(pre) = NoCondition
  PROVE  Promised(pre, blob)
<1>1. CASE pre = Unconditional
  BY <1>1 DEF Promised, Unconditional
<1>2. CASE pre = [Unconditional EXCEPT !.IfNotExists = TRUE]
  BY <1>2 DEF Promised, Unconditional, FirstSet, NoCondition
<1>3. CASE pre = [Unconditional EXCEPT !.IfMatch = seen]
  BY <1>3 DEF Promised, Unconditional, FirstSet, NoCondition
<1>4. CASE pre = [Unconditional EXCEPT !.IfNotMatch = seen]
  BY <1>4 DEF Promised, Unconditional, FirstSet, NoCondition
<1> QED
  BY <1>1, <1>2, <1>3, <1>4 DEF Asked

\* What the drivers make of the answers to an upload.
LEMMA Maps ==
  ASSUME CloudTypeOK, NEW answer \in Answers
  PROVE  /\ mapError(answer) \in Outcomes
         /\ mapError(answer) = "ok" <=> answer = "200"
         /\ mapError(answer) = "not found" <=> answer = "404"
         /\ (answer = "409" => driver # "gcs") /\ (answer = "aborted" => driver = "gcs") =>
              (mapError(answer) = "precondition failed" <=> answer \in {"409", "412", "aborted"})
BY Constants DEF CloudTypeOK, Answers, Outcomes, mapError, s3MapError, gcsMapError, azureMapError, Mapped

LEMMA Refused ==
  ASSUME CloudTypeOK, NEW cond, NEW answer \in Refusals(cond, blob)
  PROVE  /\ answer \in {"404", "409", "412", "aborted"}
         /\ answer = "409" => driver # "gcs"
         /\ answer = "aborted" => driver = "gcs"
         /\ answer = "404" => driver = "s3" /\ cond.match # 0
<1>1. CASE answer \in Conflicts(cond)
  BY <1>1, Constants DEF CloudTypeOK, Conflicts
<1>2. CASE answer = Failed(cond, blob)
  BY <1>2, Constants DEF CloudTypeOK, Failed
<1> QED
  BY <1>1, <1>2 DEF Refusals

LEMMA AskedTypes ==
  ASSUME NEW seen \in Tokens, NEW pre \in Asked(seen)
  PROVE  pre \in Preconditions /\ FirstSet(pre) \in Conditions
<1>1. 0 \in Tokens
  BY Constants, SMTT(30) DEF Tokens
<1>2. pre \in Preconditions
  <2>1. Unconditional \in Preconditions
    BY <1>1 DEF Unconditional, Preconditions
  <2> QED
    BY <2>1 DEF Asked, Preconditions
<1>3. FirstSet(pre) \in Conditions
  BY <1>1, <1>2 DEF FirstSet, Preconditions, Conditions, NoCondition
<1> QED
  BY <1>2, <1>3

-----------------------------------------------------------------------------
(* How a call goes on, or returns.                                         *)

LEMMA NewClientType == NewClient \in Client
<1>1. 0 \in Tokens
  BY Constants, SMTT(30) DEF Tokens
<1>2. Unconditional \in Preconditions /\ NoCondition \in Conditions
  BY <1>1 DEF Unconditional, NoCondition, Preconditions, Conditions
<1> QED
  BY <1>1, <1>2, Constants, SMTT(30) DEF NewClient, Client, Answers, Causes

LEMMA GoesKeeps ==
  ASSUME NEW w, WriterInv(w, failures'), Goes(w), CloudTypeOK', driver' = driver
  PROVE  CallsInv'
<1>1. WriterInv(client, failures)'
  BY SMTT(30) DEF Goes, WriterInv, Asks, Uploads, Placed, Closing, BadMD5
<1>2. returned' = Nothing
  BY DEF Goes
<1>4. ReturnedInv'
  BY <1>2, NewClientType DEF ReturnedInv, NilMeansDone, RefusalIsNamed, Published, Nothing, NewClient,
     CallNames, Outcomes
<1> QED
  BY <1>1, <1>4 DEF CallsInv

LEMMA StepsKeep ==
  ASSUME CallsInv, NEW w, WriterInv(w, failures), Steps(w)
  PROVE  CallsInv'
<1>1. CloudTypeOK' /\ driver' = driver /\ failures' = failures /\ Goes(w)
  BY DEF CallsInv, Steps, Locally, store, CloudTypeOK
<1> QED
  BY <1>1, GoesKeeps

\* A writer that has nothing to do is as good as new.
LEMMA NewKeeps ==
  ASSUME NEW seen \in Tokens, NEW failed
  PROVE  WriterInv([NewClient EXCEPT !.seen = seen], failed)
<1> DEFINE w == [NewClient EXCEPT !.seen = seen]
<1>1. w \in Client
  BY NewClientType DEF Client
<1>2. Unconditional \in Asked(seen) /\ FirstSet(Unconditional) = NoCondition
  BY DEF Asked, FirstSet, Unconditional
<1>3. Asks(w)
  BY <1>2 DEF Asks, NewClient
<1>4. Uploads(w, failed) /\ Placed(w) /\ Closing(w)
  BY DEF Uploads, Placed, Closing, NewClient
<1> QED
  BY <1>1, <1>3, <1>4 DEF WriterInv

\* What is to be shown of a call that returns.
Reported(call, result, w, failed) ==
  /\ call \in CallNames /\ result \in Outcomes /\ w \in Client
  /\ Published(w)
  /\ call = "close" /\ w.pc = "close" =>
       WriterInv(w, failed) /\ w.up \in Finished /\ result = mapError(w.answer)
  /\ call = "delete" /\ result = "ok" =>
       w.kept /\ (w.stored \/ (driver = "s3" /\ w.cond = NoCondition))

LEMMA ReportedReturns ==
  ASSUME CloudTypeOK', driver' = driver, NEW call, NEW result, NEW w,
         Reported(call, result, w, failures'),
         Reports(call, result, w)
  PROVE  ReturnedInv'
<1>1. CloudTypeOK' /\ returned' \in [call : CallNames, result : Outcomes, writer : Client]
  BY DEF Reported, Reports
<1>2. returned'.call = call /\ returned'.result = result /\ returned'.writer = w
  BY DEF Reports
<1>3. w.answer \in Answers
  BY DEF Reported, Client
<1>4. Published(w)'
  BY DEF Reported, Published
<1>5. CASE call = "close" /\ w.pc = "close"
  <2>1. mapError(w.answer)' = mapError(w.answer)
    BY DEF mapError, s3MapError, gcsMapError, azureMapError
  <2>2. Uploads(w, failures') /\ w.kept
    BY <1>5 DEF Reported, WriterInv, Uploads
  <2>3. /\ result = "ok" <=> w.answer = "200"
        /\ result = "not found" <=> w.answer = "404"
        /\ result = "precondition failed" <=> w.answer \in {"409", "412", "aborted"}
    <3>1. result = mapError(w.answer) /\ driver \in Drivers
      BY <1>5 DEF Reported, CloudTypeOK
    <3>2. (w.answer = "409" => driver # "gcs") /\ (w.answer = "aborted" => driver = "gcs")
      BY <2>2 DEF Uploads
    <3> QED
      BY <1>3, <3>1, <3>2, Constants DEF Answers, mapError, s3MapError, gcsMapError, azureMapError, Mapped
  <2>4. NilMeansDone'
    BY <1>2, <1>5, <2>2, <2>3 DEF NilMeansDone, Uploads, BadMD5
  <2>5. RefusalIsNamed'
    BY <1>2, <1>5, <2>2, <2>3 DEF RefusalIsNamed, Uploads
  <2> QED
    BY <1>1, <1>2, <1>4, <2>4, <2>5 DEF ReturnedInv, Published
<1>6. CASE ~(call = "close" /\ w.pc = "close")
  <2>1. NilMeansDone'
    BY <1>2, <1>6 DEF NilMeansDone, Reported
  <2>2. RefusalIsNamed'
    BY <1>2, <1>6 DEF RefusalIsNamed
  <2> QED
    BY <1>1, <1>2, <1>4, <2>1, <2>2 DEF ReturnedInv, Published
<1> QED
  BY <1>5, <1>6

LEMMA ReturnsKeep ==
  ASSUME CloudTypeOK', driver' = driver, NEW call, NEW result, NEW w,
         Reported(call, result, w, failures'), Returns(call, result, w)
  PROVE  CallsInv'
<1>1. ReturnedInv'
  BY ReportedReturns DEF Returns
<1>2. w.seen \in Tokens
  BY DEF Reported, Client
<1>3. WriterInv([NewClient EXCEPT !.seen = w.seen], failures')
  BY <1>2, NewKeeps
<1>4. WriterInv(client, failures)'
  BY <1>3 DEF Returns, WriterInv, Asks, Uploads, Placed, Closing, BadMD5
<1> QED
  BY <1>1, <1>4 DEF CallsInv

\* A writer that is stored is stored under its precondition and once its body ended.
LEMMA WriterPublished ==
  ASSUME NEW w, NEW failed, Uploads(w, failed), Closing(w)
  PROVE  Published(w)
BY DEF Uploads, Closing, Published

\* A call that returns without a trace in the writer.
LEMMA NothingNew ==
  ASSUME CallsInv, NEW call, NEW result, Reported(call, result, client, failures),
         UNCHANGED client, Reports(call, result, client), Locally
  PROVE  CallsInv'
<1>1. CloudTypeOK' /\ driver' = driver /\ failures' = failures
  BY DEF CallsInv, Locally, store, CloudTypeOK
<1>2. ReturnedInv'
  BY <1>1, ReportedReturns
<1>3. WriterInv(client, failures)'
  BY <1>1, SMTT(30) DEF CallsInv, WriterInv, Asks, Uploads, Placed, Closing, BadMD5
<1> QED
  BY <1>1, <1>2, <1>3 DEF CallsInv

\* What Close and CloseWithError leave of a writer.
LEMMA LeavesKeep ==
  ASSUME CallsInv, client.pc # "delete", NEW call, NEW result, Reported(call, result, client, failures),
         client.up = "done" \/ driver # "gcs", Leaves(call, result)
  PROVE  CallsInv'
<1>1. CloudTypeOK' /\ driver' = driver /\ failures' = failures /\ Reports(call, result, client)
  BY DEF CallsInv, Leaves, Locally, store, CloudTypeOK
<1>2. ReturnedInv'
  BY <1>1, ReportedReturns
<1>3. client \in Client /\ client.seen \in Tokens
  BY DEF CallsInv, WriterInv, Client
<1>4. CASE driver = "gcs"
  <2> DEFINE w == [client EXCEPT !.pc = "closed"]
  <2>1. w \in Client /\ w.pre = client.pre /\ w.cond = client.cond
    BY <1>3 DEF Client
  <2>2. Uploads(w, failures)
    BY <1>3 DEF CallsInv, WriterInv, Uploads, Client, BadMD5
  <2>3. Placed(w)
    BY <1>3, <1>4 DEF Placed, Client
  <2>4. Closing(w)
    BY <1>3 DEF CallsInv, WriterInv, Closing, Client
  <2>5. WriterInv(w, failures)
    BY <2>1, <2>2, <2>3, <2>4 DEF CallsInv, WriterInv, Asks
  <2>6. client' = w
    BY <1>4 DEF Leaves
  <2> HIDE DEF w
  <2>7. WriterInv(client, failures)'
    BY <1>1, <2>5, <2>6, SMTT(30) DEF WriterInv, Asks, Uploads, Placed, Closing, BadMD5
  <2> QED
    BY <1>1, <1>2, <2>7 DEF CallsInv
<1>5. CASE driver # "gcs"
  <2> DEFINE w == [NewClient EXCEPT !.pc = "closed", !.seen = client.seen]
  <2>1. w \in Client
    BY <1>3, NewClientType DEF Client
  <2>2. Unconditional \in Asked(client.seen) /\ FirstSet(Unconditional) = NoCondition
    BY DEF Asked, FirstSet, Unconditional
  <2>3. Asks(w)
    BY <1>3, <2>2 DEF Asks, NewClient
  <2>4. Uploads(w, failures) /\ Placed(w) /\ Closing(w)
    BY DEF Uploads, Placed, Closing, NewClient
  <2>5. WriterInv(w, failures)
    BY <2>1, <2>3, <2>4 DEF WriterInv
  <2>6. client' = w
    BY <1>5 DEF Leaves
  <2> HIDE DEF w
  <2>7. WriterInv(client, failures)'
    BY <1>1, <2>5, <2>6, SMTT(30) DEF WriterInv, Asks, Uploads, Placed, Closing, BadMD5
  <2> QED
    BY <1>1, <1>2, <2>7 DEF CallsInv
<1> QED
  BY <1>4, <1>5

-----------------------------------------------------------------------------
(* The caller.                                                             *)

LEMMA ClientTypes ==
  ASSUME CallsInv
  PROVE  /\ client \in Client /\ client.seen \in Tokens
         /\ Asks(client) /\ Uploads(client, failures) /\ Placed(client) /\ Closing(client)
         /\ CloudTypeOK /\ driver \in {"s3", "gcs", "azure"}
BY Constants DEF CallsInv, WriterInv, Client, CloudTypeOK

LEMMA AttributesKeeps ==
  ASSUME CallsInv, Attributes
  PROVE  CallsInv'
<1>1. Steps([NewClient EXCEPT !.seen = Version(blob)])
  BY ClientTypes DEF Attributes, s3Attributes, gcsAttributes, azureAttributes
<1>2. Version(blob) \in Tokens
  BY Versions DEF CallsInv
<1> QED
  BY <1>1, <1>2, NewKeeps, StepsKeep

LEMMA NewWriterKeeps ==
  ASSUME CallsInv, NEW pre \in Asked(client.seen), NEW md5 \in {"none", "good", "bad"},
         NewWriter(pre, md5)
  PROVE  CallsInv'
<1> DEFINE w(up) == [NewClient EXCEPT !.pc = "open", !.pre = pre, !.cond = FirstSet(pre),
                       !.md5 = md5, !.up = up, !.seen = client.seen]
<1>1. PICK up \in {"reading", "none"} :
        Steps(w(up)) /\ (driver = "azure" /\ md5 # "none" => up = "none")
  BY DEF NewWriter, s3NewWriter, gcsNewWriter, azureNewWriter, Opened, applyWriteConditions,
         gcsConditions, modifiedConditions
<1>2. client.seen \in Tokens
  BY ClientTypes
<1>3. pre \in Preconditions /\ FirstSet(pre) \in Conditions
  BY <1>2, AskedTypes
<1>4. w(up) \in Client
  BY <1>2, <1>3, NewClientType DEF Client
<1>5. Asks(w(up))
  BY <1>2 DEF Asks, NewClient
<1>6. Uploads(w(up), failures) /\ Closing(w(up))
  BY DEF Uploads, Closing, NewClient
<1>7. Placed(w(up))
  BY <1>1 DEF Placed, NewClient
<1>8. WriterInv(w(up), failures)
  BY <1>4, <1>5, <1>6, <1>7 DEF WriterInv
<1> QED
  BY <1>1, <1>8, StepsKeep

\* A step of a writer that leaves its precondition alone.
LEMMA MovesKeep ==
  ASSUME CallsInv, NEW w \in Client, w.pre = client.pre, w.cond = client.cond,
         Uploads(w, failures), Placed(w), Closing(w), Steps(w)
  PROVE  CallsInv'
<1>1. WriterInv(w, failures)
  BY ClientTypes DEF WriterInv, Asks
<1> QED
  BY <1>1, StepsKeep

LEMMA PipeWriteKeeps ==
  ASSUME CallsInv, ~Buffered, NEW up, up = client.up \/ (up = "reading" /\ client.up = "none"),
         PipeWrite(up)
  PROVE  CallsInv'
<1> DEFINE w == [client EXCEPT !.pc = "write", !.up = up]
<1>1. w \in Client /\ w.pre = client.pre /\ w.cond = client.cond
  <2>1. up \in {"none", "reading", "sending", "ended", "unblocked", "done"}
    BY ClientTypes DEF Client
  <2> QED
    BY <2>1, ClientTypes DEF Client
<1>2. Uploads(w, failures)
  <2>1. CASE up = client.up
    BY <2>1, ClientTypes DEF Uploads, Client, BadMD5
  <2>2. CASE up = "reading" /\ client.up = "none"
    <3>1. ~client.stored /\ client.answer = "none"
      BY <2>2, ClientTypes DEF Uploads, Finished
    <3> QED
      BY <2>2, <3>1, ClientTypes DEF Uploads, Client
  <2> QED
    BY <2>1, <2>2
<1>3. Placed(w)
  <2>1. client.n < MaxLen
    BY ClientTypes, Constants, SMTT(30) DEF PipeWrite, Client
  <2> QED
    BY <2>1, ClientTypes DEF Placed, Client, Buffered
<1>4. Closing(w)
  BY ClientTypes DEF Closing, Client, PipeWrite
<1> QED
  BY <1>1, <1>2, <1>3, <1>4, MovesKeep DEF PipeWrite

LEMMA BufferedWriteKeeps ==
  ASSUME CallsInv, Buffered, client.pc = "open", client.n < MaxWrites,
         Steps([client EXCEPT !.n = @ + 1])
  PROVE  CallsInv'
<1> DEFINE w == [client EXCEPT !.n = @ + 1]
<1>1. w \in Client /\ w.pre = client.pre /\ w.cond = client.cond
  BY ClientTypes, Constants, SMTT(30) DEF Client
<1>2. Uploads(w, failures)
  BY ClientTypes DEF Uploads, Client, Placed, Buffered, Finished
<1>3. Placed(w) /\ Closing(w)
  BY ClientTypes DEF Placed, Closing, Client
<1> QED
  BY <1>1, <1>2, <1>3, MovesKeep

LEMMA WriteKeeps ==
  ASSUME CallsInv, Write
  PROVE  CallsInv'
<1>1. CASE gcsWrite
  BY <1>1, PipeWriteKeeps DEF gcsWrite, openedUp, Buffered
<1>2. CASE s3Write \/ azureWrite
  BY <1>2, PipeWriteKeeps, BufferedWriteKeeps DEF s3Write, azureWrite, Buffered
<1> QED
  BY <1>1, <1>2 DEF Write

LEMMA PipeMovesKeeps ==
  ASSUME CallsInv, PipeMoves
  PROVE  CallsInv'
<1> DEFINE w == [client EXCEPT !.pc = "open", !.n = @ + 1]
<1>1. w \in Client /\ w.pre = client.pre /\ w.cond = client.cond
  <2>1. client \in Client /\ client.n + 1 \in 0 .. MaxLen
    BY ClientTypes, Constants, SMTT(30) DEF Client, Placed, PipeMoves
  <2> QED
    BY <2>1 DEF Client
<1>2. Uploads(w, failures)
  BY ClientTypes DEF Uploads, Client, Finished, PipeMoves
<1>3. Placed(w) /\ Closing(w)
  BY ClientTypes DEF Placed, Closing, Client, PipeMoves
<1> QED
  BY <1>1, <1>2, <1>3, MovesKeep DEF PipeMoves

LEMMA PipeBreaksKeeps ==
  ASSUME CallsInv, PipeBreaks
  PROVE  CallsInv'
<1> DEFINE w == [client EXCEPT !.pc = "open", !.broken = TRUE]
<1>1. w \in Client /\ w.pre = client.pre /\ w.cond = client.cond
  BY ClientTypes DEF Client
<1>2. Uploads(w, failures)
  BY ClientTypes DEF Uploads, Client, BadMD5
<1>3. Placed(w) /\ Closing(w)
  BY ClientTypes DEF Placed, Closing, Client, PipeBreaks
<1> QED
  BY <1>1, <1>2, <1>3, MovesKeep DEF PipeBreaks

LEMMA PipeCloseKeeps ==
  ASSUME CallsInv, NEW up \in {"reading", "sending", client.up},
         up = client.up \/ client.up = "none",
         PipeClose(up)
  PROVE  CallsInv'
<1> DEFINE w == [client EXCEPT !.pc = "close", !.pipe = "eof", !.up = up]
<1>1. w \in Client /\ w.pre = client.pre /\ w.cond = client.cond
  BY ClientTypes DEF Client
<1>2. Uploads(w, failures)
  BY ClientTypes DEF Uploads, Client, Finished, BadMD5
<1>3. Placed(w)
  BY ClientTypes DEF Placed, Client
<1>4. Closing(w)
  BY ClientTypes DEF Closing, Client, PipeClose
<1> QED
  BY <1>1, <1>2, <1>3, <1>4, MovesKeep DEF PipeClose

\* A closed writer of s3 or azureblob returns nil.
LEMMA CalledAgainKeeps ==
  ASSUME CallsInv, NEW call \in {"close", "abort"}, CalledAgain(call)
  PROVE  CallsInv'
<1>1. Published(client)
  BY ClientTypes, WriterPublished
<1>2. Reported(call, "ok", client, failures)
  BY <1>1, ClientTypes DEF Reported, CalledAgain, CallNames, Outcomes
<1> QED
  BY <1>2, NothingNew DEF CalledAgain

LEMMA CloseOnceMoreKeeps ==
  ASSUME CallsInv, driver = "gcs", client.pc = "closed", Steps([client EXCEPT !.pc = "close"])
  PROVE  CallsInv'
<1> DEFINE w == [client EXCEPT !.pc = "close"]
<1>1. w \in Client /\ w.pre = client.pre /\ w.cond = client.cond
  BY ClientTypes DEF Client
<1>2. Uploads(w, failures)
  BY ClientTypes DEF Uploads, Client, BadMD5
<1>3. Placed(w) /\ Closing(w)
  BY ClientTypes DEF Placed, Closing, Client
<1> QED
  BY <1>1, <1>2, <1>3, MovesKeep

LEMMA CloseKeeps ==
  ASSUME CallsInv, Close
  PROVE  CallsInv'
<1>1. ASSUME PipeClose(client.up) PROVE CallsInv'
  BY <1>1, PipeCloseKeeps
<1>2. ASSUME PipeClose(openedUp) PROVE CallsInv'
  BY <1>2, PipeCloseKeeps DEF openedUp
<1>3. ASSUME Buffered, PipeClose("sending") PROVE CallsInv'
  <2>1. client.up = "none"
    BY <1>3, ClientTypes DEF Placed, Buffered, PipeClose
  <2> QED
    BY <1>3, <2>1, PipeCloseKeeps
<1>4. ASSUME CalledAgain("close") PROVE CallsInv'
  BY <1>4, CalledAgainKeeps
<1> QED
  BY <1>1, <1>2, <1>3, <1>4, CloseOnceMoreKeeps DEF Close, s3Close, gcsClose, azureClose

\* A Close that returns reports the answer that its uploader got.
LEMMA CloseReturnsKeeps ==
  ASSUME CallsInv, CloseReturns
  PROVE  CallsInv'
<1>1. client.up \in Finished /\ Leaves("close", mapError(client.answer))
  BY DEF CloseReturns, writerErr, Finished
<1>2. mapError(client.answer) \in Outcomes
  BY ClientTypes, Maps DEF Client
<1>3. Published(client)
  BY ClientTypes, WriterPublished
<1>4. Reported("close", mapError(client.answer), client, failures)
  BY <1>1, <1>2, <1>3, ClientTypes DEF Reported, CallNames, CallsInv
<1>5. client.pc # "delete" /\ (client.up = "done" \/ driver # "gcs")
  BY DEF CloseReturns, Buffered
<1> QED
  BY <1>1, <1>4, <1>5, LeavesKeep

LEMMA PipeAbortKeeps ==
  ASSUME CallsInv, ~Buffered, NEW cause \in Causes, PipeAbort(cause, readAs(cause))
  PROVE  CallsInv'
<1> DEFINE w == [client EXCEPT !.pc = "abort", !.cause = cause, !.pipe = readAs(cause)]
<1>1. w \in Client /\ w.pre = client.pre /\ w.cond = client.cond
  BY ClientTypes DEF Client, readAs
<1>2. Uploads(w, failures)
  BY ClientTypes DEF Uploads, Client, BadMD5
<1>3. Placed(w)
  BY ClientTypes DEF Placed, Client, Buffered
<1>4. client.up # "sending" /\ ~client.stored
  BY ClientTypes DEF Closing, PipeAbort
<1>5. Closing(w)
  BY <1>4, ClientTypes DEF Closing, Client, readAs
<1> QED
  BY <1>1, <1>2, <1>3, <1>5, MovesKeep DEF PipeAbort

LEMMA AbortReported ==
  ASSUME CallsInv
  PROVE  Reported("abort", "ok", client, failures)
<1>1. Published(client)
  BY ClientTypes, WriterPublished
<1> QED
  BY <1>1, ClientTypes DEF Reported, CallNames, Outcomes

\* On gcs CloseWithError returns while the uploader goes on.
LEMMA AbortOnGcsKeeps ==
  ASSUME CallsInv, NEW cause \in Causes, gcsCloseWithError(cause)
  PROVE  CallsInv'
<1>1. driver = "gcs" /\ Locally /\ Reports("abort", "ok", client)
  BY DEF gcsCloseWithError
<1>2. CloudTypeOK' /\ driver' = driver /\ failures' = failures
  BY <1>1 DEF CallsInv, Locally, store, CloudTypeOK
<1>3. CASE UNCHANGED client
  BY <1>1, <1>3, AbortReported, NothingNew
<1>4. CASE client.pc = "open" /\ client.up # "none"
  <2> DEFINE pipe == IF cause = "nil" THEN "eof" ELSE readAs(cause)
  <2> DEFINE w == [client EXCEPT !.pc = "closed", !.cause = cause, !.pipe = pipe]
  <2>1. client' = w
    BY <1>4 DEF gcsCloseWithError
  <2>2. pipe \in {"eof", "error"} /\ (pipe = "eof" => cause \in {"nil", "eof"})
    BY DEF readAs
  <2> HIDE DEF pipe
  <2>3. w \in Client /\ w.pre = client.pre /\ w.cond = client.cond
    BY <2>2, ClientTypes DEF Client
  <2>4. Uploads(w, failures)
    BY ClientTypes DEF Uploads, Client, BadMD5
  <2>5. Placed(w)
    BY <1>1, ClientTypes DEF Placed, Client
  <2>6. client.up # "sending" /\ ~client.stored
    BY <1>4, ClientTypes DEF Closing
  <2>7. Closing(w)
    BY <1>1, <2>2, <2>6, ClientTypes DEF Closing, Client
  <2>8. WriterInv(w, failures)
    BY <2>3, <2>4, <2>5, <2>7, ClientTypes DEF WriterInv, Asks
  <2> HIDE DEF w
  <2>9. WriterInv(client, failures)'
    BY <1>2, <2>1, <2>8, SMTT(30) DEF WriterInv, Asks, Uploads, Placed, Closing, BadMD5
  <2>10. ReturnedInv'
    BY <1>1, <1>2, AbortReported, ReportedReturns
  <2> QED
    BY <1>2, <2>9, <2>10 DEF CallsInv
<1> QED
  BY <1>3, <1>4 DEF gcsCloseWithError

LEMMA CloseWithErrorKeeps ==
  ASSUME CallsInv, NEW cause \in Causes, CloseWithError(cause)
  PROVE  CallsInv'
<1>1. ASSUME Buffered, client.pc = "open", Leaves("abort", "ok") PROVE CallsInv'
  BY <1>1, AbortReported, LeavesKeep DEF Buffered
<1>2. ASSUME CalledAgain("abort") PROVE CallsInv'
  BY <1>2, CalledAgainKeeps
<1>3. ASSUME ~Buffered, PipeAbort(cause, readAs(cause)) PROVE CallsInv'
  BY <1>3, PipeAbortKeeps
<1>4. CASE s3CloseWithError(cause)
  BY <1>2, <1>3, <1>4 DEF s3CloseWithError, Buffered
<1>5. CASE azureCloseWithError(cause)
  BY <1>1, <1>2, <1>3, <1>5 DEF azureCloseWithError
<1> QED
  BY <1>4, <1>5, AbortOnGcsKeeps DEF CloseWithError

LEMMA AbortReturnsKeeps ==
  ASSUME CallsInv, AbortReturns
  PROVE  CallsInv'
BY AbortReported, LeavesKeep DEF AbortReturns

LEMMA CancelKeeps ==
  ASSUME CallsInv, Cancel
  PROVE  CallsInv'
<1> DEFINE w == [client EXCEPT !.cancelled = TRUE]
<1>1. w \in Client /\ w.pre = client.pre /\ w.cond = client.cond
  BY ClientTypes DEF Client
<1>2. Uploads(w, failures)
  BY ClientTypes DEF Uploads, Client, BadMD5
<1>3. Placed(w) /\ Closing(w)
  BY ClientTypes DEF Placed, Closing, Client
<1> QED
  BY <1>1, <1>2, <1>3, MovesKeep DEF Cancel

-----------------------------------------------------------------------------
(* The uploader.                                                           *)

LEMMA ReadsEofKeeps ==
  ASSUME CallsInv, ReadsEof
  PROVE  CallsInv'
<1> DEFINE w == [client EXCEPT !.up = "sending"]
<1>1. w \in Client /\ w.pre = client.pre /\ w.cond = client.cond
  BY ClientTypes DEF Client
<1>2. Uploads(w, failures)
  BY ClientTypes DEF Uploads, Client, ReadsEof, Finished, BadMD5
<1>3. Placed(w) /\ Closing(w)
  BY ClientTypes DEF Placed, Closing, Client, ReadsEof
<1> QED
  BY <1>1, <1>2, <1>3, MovesKeep DEF ReadsEof

\* An upload that ends without an answer, having stored nothing or lost it.
LEMMA EndedWithout ==
  ASSUME CallsInv, NEW failed \in Nat, failed >= failures,
         client.up \in {"reading", "sending"}
  PROVE  WriterInv(Ended("none"), failed)
<1> DEFINE w == [client EXCEPT !.up = "ended", !.answer = "none"]
<1>1. w \in Client /\ w.pre = client.pre /\ w.cond = client.cond
  BY ClientTypes DEF Client, Answers
<1>2. failures \in Nat
  BY ClientTypes, Constants, SMTT(30) DEF CloudTypeOK
<1>3. Uploads(w, failed)
  BY <1>2, ClientTypes, SMTT(30) DEF Uploads, Client, Finished, BadMD5
<1>4. Placed(w) /\ Closing(w)
  BY ClientTypes DEF Placed, Closing, Client
<1> QED
  BY <1>1, <1>3, <1>4, ClientTypes DEF WriterInv, Asks, Ended

LEMMA ReadsCauseKeeps ==
  ASSUME CallsInv, ReadsCause
  PROVE  CallsInv'
<1>1. failures \in Nat /\ failures >= failures
  BY ClientTypes, Constants, SMTT(30) DEF CloudTypeOK
<1> QED
  BY <1>1, EndedWithout, StepsKeep DEF ReadsCause

LEMMA UploadFailsKeeps ==
  ASSUME CallsInv, UploadFails
  PROVE  CallsInv'
<1>1. failures' \in 0 .. MaxFailures /\ failures' >= failures
  BY ClientTypes, Constants, SMTT(30) DEF UploadFails, FailOnce, CloudTypeOK
<1>2. CloudTypeOK' /\ driver' = driver /\ Goes(Ended("none"))
  BY <1>1, ClientTypes DEF UploadFails, store, CloudTypeOK
<1>3. WriterInv(Ended("none"), failures')
  BY <1>1, Constants, EndedWithout, SMTT(30) DEF UploadFails
<1> QED
  BY <1>2, <1>3, GoesKeeps

\* The body is stored: the answer comes, is lost, or is lost and asked for again.
LEMMA StoredKeeps ==
  ASSUME CallsInv, client.up = "sending", ~BadMD5(client),
         NEW w \in Client, w.pc = client.pc, w.pre = client.pre, w.cond = client.cond,
         w.md5 = client.md5, w.n = client.n, w.pipe = client.pipe, w.cause = client.cause,
         w.stored, w.len = client.n, w.kept,
         w.up \in {"sending", "ended"}, w.answer \in {"200", "none"},
         w.answer = "200" => w.up = "ended",
         NEW failed \in Nat, w.answer = "none" => failed > 0
  PROVE  WriterInv(w, failed)
<1>1. Uploads(w, failed)
  BY ClientTypes DEF Uploads, Finished, BadMD5
<1>2. Placed(w) /\ Closing(w)
  BY ClientTypes DEF Placed, Closing
<1> QED
  BY <1>1, <1>2, ClientTypes DEF WriterInv, Asks

\* The request is refused.
LEMMA RefusedKeeps ==
  ASSUME CallsInv, client.up = "sending", NEW answer \in {"400", "404", "409", "412", "aborted"},
         answer = "409" => driver # "gcs",
         answer = "aborted" => driver = "gcs",
         answer = "404" => driver = "s3" /\ client.cond.match # 0
  PROVE  WriterInv(Ended(answer), failures)
<1> DEFINE w == [client EXCEPT !.up = "ended", !.answer = answer]
<1>1. w \in Client /\ w.pre = client.pre /\ w.cond = client.cond
  BY ClientTypes DEF Client, Answers
<1>2. Uploads(w, failures)
  BY ClientTypes, SMTT(30) DEF Uploads, Client, Finished, BadMD5
<1>3. Placed(w) /\ Closing(w)
  BY ClientTypes DEF Placed, Closing, Client
<1> QED
  BY <1>1, <1>2, <1>3, ClientTypes DEF WriterInv, Asks, Ended

LEMMA UploadRequestKeeps ==
  ASSUME CallsInv, UploadRequest
  PROVE  CallsInv'
<1> DEFINE kept == client.kept /\ Promised(client.pre, blob)
           did(new) == [new EXCEPT !.stored = TRUE, !.len = client.n,
                          !.kept = @ /\ Promised(client.pre, blob)]
<1>1. client.up = "sending" /\ driver' = driver
  BY DEF UploadRequest
<1>2. failures \in Nat /\ client \in Client /\ client.n \in 0 .. MaxLen /\ client.answer = "none"
  BY <1>1, ClientTypes, Constants, SMTT(30) DEF CloudTypeOK, Client, Uploads, Finished
<1>3. ASSUME ~BadMD5(client), Accepts(client.cond, blob), Store(client.n),
             \/ UNCHANGED failures /\ Goes(did(Ended("200")))
             \/ FailOnce /\ Goes(did(Ended("none")))
             \/ FailOnce /\ Goes(did(client))
      PROVE  CallsInv'
  <2>1. /\ Store(client.n)
        /\ \/ UNCHANGED failures /\ Goes(did(Ended("200")))
           \/ FailOnce /\ Goes(did(Ended("none")))
           \/ FailOnce /\ Goes(did(client))
    BY <1>3
  <2>2. CloudTypeOK'
    BY <1>1, <1>2, <2>1, ClientTypes, StoreTypes, FailTypes DEF CloudTypeOK
  <2>3. kept = TRUE
    BY ClientTypes, AcceptedIsPromised, <1>3 DEF Asks, Uploads
  <2>4. failures' \in Nat
    BY <2>2, Constants, SMTT(30) DEF CloudTypeOK
  <2>5. CASE UNCHANGED failures /\ Goes(did(Ended("200")))
    <3> DEFINE w == did(Ended("200"))
    <3>1. /\ w \in Client /\ w.pc = client.pc /\ w.pre = client.pre /\ w.cond = client.cond
          /\ w.md5 = client.md5 /\ w.n = client.n /\ w.pipe = client.pipe /\ w.cause = client.cause
          /\ w.stored /\ w.len = client.n /\ w.kept /\ w.up = "ended" /\ w.answer = "200"
      BY <1>2, <2>3 DEF Client, Answers, Ended
    <3>2. WriterInv(w, failures')
      BY <1>1, <1>3, <2>4, <3>1, StoredKeeps
    <3> QED
      BY <1>1, <2>2, <2>5, <3>2, GoesKeeps
  <2>6. CASE FailOnce /\ Goes(did(Ended("none")))
    <3> DEFINE w == did(Ended("none"))
    <3>1. /\ w \in Client /\ w.pc = client.pc /\ w.pre = client.pre /\ w.cond = client.cond
          /\ w.md5 = client.md5 /\ w.n = client.n /\ w.pipe = client.pipe /\ w.cause = client.cause
          /\ w.stored /\ w.len = client.n /\ w.kept /\ w.up = "ended" /\ w.answer = "none"
      BY <1>2, <2>3 DEF Client, Answers, Ended
    <3>2. failures' > 0
      BY <2>6, FailTypes, ClientTypes
    <3>3. WriterInv(w, failures')
      BY <1>1, <1>3, <2>4, <3>1, <3>2, StoredKeeps
    <3> QED
      BY <1>1, <2>2, <2>6, <3>3, GoesKeeps
  <2>7. CASE FailOnce /\ Goes(did(client))
    <3> DEFINE w == did(client)
    <3>1. /\ w \in Client /\ w.pc = client.pc /\ w.pre = client.pre /\ w.cond = client.cond
          /\ w.md5 = client.md5 /\ w.n = client.n /\ w.pipe = client.pipe /\ w.cause = client.cause
          /\ w.stored /\ w.len = client.n /\ w.kept /\ w.up = "sending" /\ w.answer = "none"
      BY <1>1, <1>2, <2>3 DEF Client, Answers
    <3>2. failures' > 0
      BY <2>7, FailTypes, ClientTypes
    <3>3. WriterInv(w, failures')
      BY <1>1, <1>3, <2>4, <3>1, <3>2, StoredKeeps
    <3> QED
      BY <1>1, <2>2, <2>7, <3>3, GoesKeeps
  <2> QED
    BY <2>1, <2>5, <2>6, <2>7
<1>4. ASSUME NEW answer \in Refusals(client.cond, blob) \cup {"400"},
             Goes(Ended(answer)), UNCHANGED <<store, failures>>
      PROVE  CallsInv'
  <2>1. CloudTypeOK' /\ failures' = failures
    BY <1>1, <1>4, ClientTypes DEF CloudTypeOK, store
  <2>2. WriterInv(Ended(answer), failures')
    BY <1>1, <2>1, ClientTypes, Refused, RefusedKeeps
  <2> QED
    BY <1>1, <1>4, <2>1, <2>2, GoesKeeps
<1> QED
  BY <1>3, <1>4 DEF UploadRequest

LEMMA UnblockKeeps ==
  ASSUME CallsInv, Unblock
  PROVE  CallsInv'
<1> DEFINE w == [client EXCEPT !.up = "unblocked"]
<1>1. w \in Client /\ w.pre = client.pre /\ w.cond = client.cond
  BY ClientTypes DEF Client
<1>2. Uploads(w, failures)
  BY ClientTypes DEF Uploads, Client, Finished, BadMD5
<1>3. Placed(w) /\ Closing(w)
  BY ClientTypes DEF Placed, Closing, Client, Unblock, Buffered
<1> QED
  BY <1>1, <1>2, <1>3, MovesKeep DEF Unblock

LEMMA SignalKeeps ==
  ASSUME CallsInv, Signal
  PROVE  CallsInv'
<1> DEFINE w == [client EXCEPT !.up = "done"]
<1>1. w \in Client /\ w.pre = client.pre /\ w.cond = client.cond
  BY ClientTypes DEF Client
<1>2. Uploads(w, failures)
  BY ClientTypes DEF Uploads, Client, Finished, BadMD5
<1>3. Placed(w) /\ Closing(w)
  BY ClientTypes DEF Placed, Closing, Client, Signal
<1> QED
  BY <1>1, <1>2, <1>3, MovesKeep DEF Signal

-----------------------------------------------------------------------------
(* Delete and UpdateMetadata.                                              *)

LEMMA DeleteRequestKeeps ==
  ASSUME CallsInv, NEW w \in Client, w.up = "none", Asks(w), NEW idempotent \in BOOLEAN,
         idempotent => driver = "s3" /\ w.cond = NoCondition,
         DeleteRequest(w, idempotent)
  PROVE  CallsInv'
<1> DEFINE end(removed) == [w EXCEPT !.stored = removed, !.kept = Promised(w.pre, blob)]
<1>1. driver' = driver
  BY DEF DeleteRequest
<1>2. Promised(w.pre, blob) \in BOOLEAN
  BY DEF Promised
<1>3. ASSUME NEW removed \in BOOLEAN
      PROVE  /\ end(removed) \in Client /\ end(removed).cond = w.cond /\ end(removed).up = "none"
             /\ end(removed).stored = removed /\ end(removed).kept = Promised(w.pre, blob)
  BY <1>2, <1>3 DEF Client
<1>4. ASSUME NEW removed \in BOOLEAN, NEW result \in Outcomes,
             result = "ok" =>
               Promised(w.pre, blob) /\ (removed \/ (driver = "s3" /\ w.cond = NoCondition)),
             CloudTypeOK', Returns("delete", result, end(removed))
      PROVE  CallsInv'
  <2> DEFINE e == end(removed)
  <2>1. /\ e \in Client /\ e.cond = w.cond /\ e.up = "none" /\ e.stored = removed
        /\ e.kept = Promised(w.pre, blob)
    BY <1>3, <1>4
  <2> HIDE DEF e
  <2>2. Reported("delete", result, e, failures')
    BY <1>4, <2>1 DEF Reported, CallNames, Published
  <2>3. Returns("delete", result, e)
    BY <1>4 DEF e
  <2> QED
    BY <1>1, <1>4, <2>2, <2>3, ReturnsKeep
<1>5. ASSUME Exists(blob), Accepts(w.cond, blob), Remove,
             \/ Returns("delete", "ok", end(TRUE)) /\ UNCHANGED failures
             \/ Returns("delete", "error", end(TRUE)) /\ FailOnce
      PROVE  CallsInv'
  <2>1. /\ Remove
        /\ \/ Returns("delete", "ok", end(TRUE)) /\ UNCHANGED failures
           \/ Returns("delete", "error", end(TRUE)) /\ FailOnce
    BY <1>5
  <2>2. CloudTypeOK'
    BY <1>1, <2>1, ClientTypes, RemoveTypes, FailTypes DEF CloudTypeOK
  <2>3. Promised(w.pre, blob)
    BY <1>5, ClientTypes, AcceptedIsPromised DEF Asks
  <2>4. "ok" \in Outcomes /\ "error" \in Outcomes
    BY DEF Outcomes
  <2> QED
    BY <1>4, <2>1, <2>2, <2>3, <2>4
<1>6. ASSUME NEW answer \in Refusals(w.cond, blob),
             Returns("delete", mapError(answer), end(FALSE)), UNCHANGED <<store, failures>>
      PROVE  CallsInv'
  <2>1. CloudTypeOK'
    BY <1>1, <1>6, ClientTypes DEF CloudTypeOK, store
  <2>2. answer \in {"404", "409", "412", "aborted"}
    BY ClientTypes, Refused
  <2>3. mapError(answer) \in Outcomes /\ mapError(answer) # "ok"
    BY <2>2, ClientTypes, Maps DEF Answers
  <2> QED
    BY <1>4, <1>6, <2>1, <2>3
<1>7. ASSUME Returns("delete", mapError(IF idempotent THEN "200" ELSE "404"), end(FALSE)),
             UNCHANGED <<store, failures>>
      PROVE  CallsInv'
  <2>1. /\ Returns("delete", mapError(IF idempotent THEN "200" ELSE "404"), end(FALSE))
        /\ UNCHANGED <<store, failures>>
    BY <1>7
  <2>2. CloudTypeOK'
    BY <1>1, <2>1, ClientTypes DEF CloudTypeOK, store
  <2>3. CASE idempotent
    <3>1. mapError("200") \in Outcomes
      BY ClientTypes, Maps DEF Answers
    <3>2. Promised(w.pre, blob)
      BY <2>3, NoConditionIsNone DEF Asks
    <3> QED
      BY <1>4, <2>1, <2>2, <2>3, <3>1, <3>2
  <2>4. CASE ~idempotent
    <3>1. mapError("404") \in Outcomes /\ mapError("404") # "ok"
      BY ClientTypes, Maps DEF Answers
    <3> QED
      BY <1>4, <2>1, <2>2, <2>4, <3>1
  <2> QED
    BY <2>3, <2>4
<1> QED
  BY <1>5, <1>6, <1>7 DEF DeleteRequest

LEMMA CallingTypes ==
  ASSUME CallsInv, NEW pre \in Asked(client.seen)
  PROVE  LET w == Calling(pre, FirstSet(pre)) IN
         /\ w \in Client /\ w.pre = pre /\ w.cond = FirstSet(pre)
         /\ w.pc = "idle" /\ w.up = "none" /\ w.answer = "none" /\ w.md5 = "none"
         /\ w.cause = "none" /\ w.pipe = "open" /\ ~w.stored /\ w.kept
         /\ Asks(w)
<1> DEFINE w == Calling(pre, FirstSet(pre))
<1>1. client.seen \in Tokens
  BY ClientTypes
<1>2. pre \in Preconditions /\ FirstSet(pre) \in Conditions
  BY <1>1, AskedTypes
<1>3. w \in Client
  BY <1>1, <1>2, NewClientType DEF Calling, Client
<1>4. /\ w.pre = pre /\ w.cond = FirstSet(pre)
      /\ w.pc = "idle" /\ w.up = "none" /\ w.answer = "none" /\ w.md5 = "none"
      /\ w.cause = "none" /\ w.pipe = "open" /\ ~w.stored /\ w.kept
  BY DEF Calling, NewClient
<1> HIDE DEF w
<1>5. Asks(w)
  BY <1>1, <1>4 DEF Asks
<1> QED
  BY <1>3, <1>4, <1>5 DEF w

LEMMA DeleteKeeps ==
  ASSUME CallsInv, NEW pre \in Asked(client.seen), Delete(pre)
  PROVE  CallsInv'
<1> DEFINE w == Calling(pre, FirstSet(pre))
<1>1. /\ w \in Client /\ w.pre = pre /\ w.cond = FirstSet(pre)
      /\ w.pc = "idle" /\ w.up = "none" /\ w.answer = "none" /\ w.md5 = "none"
      /\ w.cause = "none" /\ w.pipe = "open" /\ ~w.stored /\ w.kept
      /\ Asks(w)
  BY CallingTypes
<1>2. CASE gcsDelete(pre) \/ azureDelete(pre)
  <2>1. DeleteRequest(w, FALSE)
    BY <1>2 DEF gcsDelete, azureDelete, gcsConditions, modifiedConditions
  <2> QED
    BY <1>1, <2>1, DeleteRequestKeeps
<1>3. CASE s3Delete(pre)
  <2>1. /\ driver = "s3" /\ Locally
        /\ \/ Returns("delete", "unsupported", w)
           \/ Returns("delete", mapError("404"), w)
           \/ Goes([w EXCEPT !.pc = "delete"])
    BY <1>3 DEF s3Delete, applyWriteConditions
  <2>2. CloudTypeOK' /\ driver' = driver /\ failures' = failures
    BY <2>1, ClientTypes DEF Locally, store, CloudTypeOK
  <2>3. mapError("404") \in Outcomes /\ mapError("404") # "ok"
    BY ClientTypes, Maps DEF Answers
  <2> HIDE DEF w
  <2>4. Reported("delete", "unsupported", w, failures') /\ Reported("delete", mapError("404"), w, failures')
    BY <1>1, <2>3 DEF Reported, CallNames, Outcomes, Published
  <2>5. CASE Goes([w EXCEPT !.pc = "delete"])
    <3> DEFINE d == [w EXCEPT !.pc = "delete"]
    <3>1. d \in Client /\ d.pre = pre /\ d.cond = FirstSet(pre)
      BY <1>1 DEF Client
    <3>2. Uploads(d, failures) /\ Placed(d) /\ Closing(d)
      BY <1>1, <2>1 DEF Uploads, Placed, Closing, Client
    <3>3. WriterInv(d, failures')
      BY <1>1, <2>2, <3>1, <3>2 DEF WriterInv, Asks
    <3> QED
      BY <2>2, <2>5, <3>3, GoesKeeps
  <2> QED
    BY <2>1, <2>2, <2>4, <2>5, ReturnsKeep
<1> QED
  BY <1>2, <1>3 DEF Delete

LEMMA DeleteObjectKeeps ==
  ASSUME CallsInv, s3DeleteObject
  PROVE  CallsInv'
<1>1. (client.cond = NoCondition) \in BOOLEAN
  OBVIOUS
<1>2. driver = "s3" /\ client.up = "none"
  BY ClientTypes DEF s3DeleteObject, Placed
<1> QED
  BY <1>1, <1>2, ClientTypes, DeleteRequestKeeps DEF s3DeleteObject

LEMMA UpdatedKeeps ==
  ASSUME CallsInv, NEW w \in Client, ~w.stored, NEW hdr \in 0 .. MaxChanges, Updated(w, hdr)
  PROVE  CallsInv'
<1>1. driver' = driver
  BY DEF Updated
<1>2. CloudTypeOK'
  BY <1>1, ClientTypes, RetagTypes, FailTypes DEF Updated, CloudTypeOK, store
<1>3. mapError("404") \in Outcomes /\ "ok" \in Outcomes /\ "error" \in Outcomes
  BY ClientTypes, Maps DEF Answers, Outcomes
<1>4. PICK result \in Outcomes : Returns("retag", result, w)
  BY <1>3 DEF Updated
<1>5. Reported("retag", result, w, failures')
  BY DEF Reported, CallNames, Published
<1> QED
  BY <1>1, <1>2, <1>4, <1>5, ReturnsKeep

LEMMA CopyOntoItselfKeeps ==
  ASSUME CallsInv, s3CopyOntoItself
  PROVE  CallsInv'
<1>1. client \in Client /\ client.hdr \in 0 .. MaxChanges
  BY ClientTypes DEF Client
<1>2. ~client.stored
  BY ClientTypes DEF s3CopyOntoItself, Closing
<1> QED
  BY <1>1, <1>2, UpdatedKeeps DEF s3CopyOntoItself

LEMMA UpdateMetadataKeeps ==
  ASSUME CallsInv, UpdateMetadata
  PROVE  CallsInv'
<1>1. blob.hdr \in 0 .. MaxChanges
  BY ClientTypes DEF CloudTypeOK, Blob
<1> DEFINE w == Calling(Unconditional, NoCondition)
<1>2. Unconditional \in Asked(client.seen) /\ FirstSet(Unconditional) = NoCondition
  BY DEF Asked, FirstSet, Unconditional
<1>3. /\ w \in Client /\ w.pc = "idle" /\ w.up = "none" /\ w.answer = "none" /\ w.md5 = "none"
      /\ w.cause = "none" /\ w.pipe = "open" /\ ~w.stored /\ w.kept
      /\ Asks(w)
  BY <1>2, CallingTypes
<1> HIDE DEF w
<1>4. CASE gcsUpdateMetadata \/ azureUpdateMetadata
  <2>1. Updated(w, blob.hdr)
    BY <1>4 DEF gcsUpdateMetadata, azureUpdateMetadata, w
  <2> QED
    BY <1>1, <1>3, <2>1, UpdatedKeeps
<1>5. CASE s3UpdateMetadata
  <2>1. CloudTypeOK' /\ driver' = driver /\ failures' = failures
    BY <1>5, ClientTypes DEF s3UpdateMetadata, Locally, store, CloudTypeOK
  <2>2. CASE Returns("retag", mapError("404"), w)
    <3>1. mapError("404") \in Outcomes
      BY ClientTypes, Maps DEF Answers
    <3>2. Reported("retag", mapError("404"), w, failures')
      BY <1>3, <3>1 DEF Reported, CallNames, Published
    <3> QED
      BY <2>1, <2>2, <3>2, ReturnsKeep
  <2>3. CASE Goes([w EXCEPT !.pc = "retag", !.hdr = blob.hdr])
    <3> DEFINE d == [w EXCEPT !.pc = "retag", !.hdr = blob.hdr]
    <3>1. d \in Client /\ d.pre = w.pre /\ d.cond = w.cond
      BY <1>1, <1>3 DEF Client
    <3>2. Uploads(d, failures) /\ Placed(d) /\ Closing(d)
      BY <1>3 DEF Uploads, Placed, Closing, Client
    <3>3. WriterInv(d, failures')
      BY <1>3, <2>1, <3>1, <3>2 DEF WriterInv, Asks
    <3> QED
      BY <2>1, <2>3, <3>3, GoesKeeps
  <2> QED
    BY <1>5, <2>2, <2>3 DEF s3UpdateMetadata, w
<1> QED
  BY <1>4, <1>5 DEF UpdateMetadata

-----------------------------------------------------------------------------
(* The invariant of the bucket calls holds for ever.                       *)

LEMMA CallerStepKeeps ==
  ASSUME CallsInv, CallerStep
  PROVE  CallsInv'
<1>1. ASSUME NEW pre \in Asked(client.seen), Delete(pre) PROVE CallsInv'
  BY <1>1, DeleteKeeps
<1>2. ASSUME NEW pre \in Asked(client.seen), NEW md5 \in {"none", "good", "bad"}, NewWriter(pre, md5)
      PROVE  CallsInv'
  BY <1>2, NewWriterKeeps
<1>3. ASSUME NEW cause \in Causes, CloseWithError(cause) PROVE CallsInv'
  BY <1>3, CloseWithErrorKeeps
<1>4. CASE Attributes \/ UpdateMetadata \/ Write \/ Close \/ Cancel
  BY <1>4, AttributesKeeps, UpdateMetadataKeeps, WriteKeeps, CloseKeeps, CancelKeeps
<1> QED
  BY <1>1, <1>2, <1>3, <1>4 DEF CallerStep

LEMMA BusyStepKeeps ==
  ASSUME CallsInv, BusyStep
  PROVE  CallsInv'
<1>1. CASE PipeMoves \/ PipeBreaks \/ CloseReturns \/ AbortReturns \/ ReadsEof \/ ReadsCause
  BY <1>1, PipeMovesKeeps, PipeBreaksKeeps, CloseReturnsKeeps, AbortReturnsKeeps, ReadsEofKeeps,
     ReadsCauseKeeps
<1>2. CASE startStream \/ commitBuffered \/ UploadFails \/ Unblock \/ Signal
  BY <1>2, UploadRequestKeeps, UploadFailsKeeps, UnblockKeeps, SignalKeeps
     DEF startStream, commitBuffered
<1>3. CASE s3DeleteObject \/ s3CopyOntoItself
  BY <1>3, DeleteObjectKeeps, CopyOntoItselfKeeps
<1> QED
  BY <1>1, <1>2, <1>3 DEF BusyStep

\* What others do shows in the blob only.
LEMMA ElsewhereCalls ==
  ASSUME CallsInv, Others, returned' = Nothing, client' = client
  PROVE  CallsInv'
<1>1. CloudTypeOK' /\ driver' = driver /\ failures' = failures
  BY ClientTypes, OthersTypes
<1>2. Goes(client) /\ WriterInv(client, failures')
  BY <1>1 DEF Goes, CallsInv
<1> QED
  BY <1>1, <1>2, GoesKeeps

LEMMA BucketInit0 == Init => BucketInv
<1> SUFFICES ASSUME Init PROVE BucketInv
  OBVIOUS
<1>1. CloudTypeOK
  BY Constants, SMTT(30) DEF Init, StoreInit, CloudTypeOK, NoBlob, Blob
<1>2. client = NewClient /\ returned = Nothing
  BY DEF Init, BucketInit
<1>3. 0 \in Tokens /\ Unconditional \in Asked(0) /\ FirstSet(Unconditional) = NoCondition
  BY Constants, SMTT(30) DEF Tokens, Asked, FirstSet, Unconditional
<1>4. WriterInv(NewClient, failures)
  <2>1. Asks(NewClient)
    BY <1>3 DEF Asks, NewClient
  <2>2. Uploads(NewClient, failures) /\ Placed(NewClient) /\ Closing(NewClient)
    BY DEF Uploads, Placed, Closing, NewClient
  <2> QED
    BY <2>1, <2>2, NewClientType DEF WriterInv
<1>5. NewClient \in Client
  BY <1>4 DEF WriterInv
<1>6. ReturnedInv
  BY <1>2, <1>5 DEF ReturnedInv, NilMeansDone, RefusalIsNamed, Published, Nothing, NewClient, CallNames, Outcomes
<1> QED
  BY <1>1, <1>2, <1>4, <1>6 DEF BucketInv, CallsInv

LEMMA BucketStep ==
  BucketInv /\ [Next]_vars => BucketInv'
<1> SUFFICES ASSUME BucketInv, [Next]_vars PROVE BucketInv'
  OBVIOUS
<1>1. CASE Calls \/ Busy
  <2>1. role = "client" /\ role' = role /\ (CallerStep \/ BusyStep)
    BY <1>1 DEF Calls, Busy
  <2> QED
    BY <2>1, CallerStepKeeps, BusyStepKeeps DEF BucketInv
<1>2. CASE Reads \/ Copies \/ Copying \/ Serves
  BY <1>2 DEF BucketInv, Reads, Copies, Copying, Serves, bucketVars
<1>3. CASE Elsewhere
  <2>1. role' = role /\ Others /\ returned' = Nothing /\ client' = client
    BY <1>3 DEF Elsewhere
  <2> QED
    BY <2>1, ElsewhereCalls DEF BucketInv
<1>4. CASE UNCHANGED vars
  <2>1. UNCHANGED <<role, driver, blob, changes, failures, client, returned>>
    BY <1>4 DEF vars, bucketVars
  <2>2. CASE role = "client"
    <3>1. CallsInv
      BY <2>2 DEF BucketInv
    <3>2. CloudTypeOK'
      BY <2>1, <3>1 DEF CallsInv, CloudTypeOK
    <3>3. WriterInv(client, failures)'
      BY <2>1, <3>1, SMTT(30) DEF CallsInv, WriterInv, Asks, Uploads, Placed, Closing, BadMD5
    <3>4. ReturnedInv'
      BY <2>1, <3>1 DEF CallsInv, ReturnedInv, NilMeansDone, RefusalIsNamed, Published
    <3> QED
      BY <2>1, <2>2, <3>2, <3>3, <3>4 DEF BucketInv, CallsInv
  <2>3. CASE role # "client"
    BY <2>1, <2>3 DEF BucketInv
  <2> QED
    BY <2>2, <2>3
<1> QED
  BY <1>1, <1>2, <1>3, <1>4 DEF Next

\* The inductive invariant of the bucket calls: what a writer has sent, stored and
\* been answered at each point of its life (the writers of s3.go, gcs.go, azureblob.go).
THEOREM BucketInvariant == Spec => []BucketInv
<1> QED
  BY BucketInit0, BucketStep, PTL DEF Spec

\* A Close or Delete that returns nil has stored or removed what it says, under its
\* precondition each time: for bodies of every length, and whatever fails, is lost or
\* retried and whatever others store meanwhile; Close of a writer that is not closed
\* yet, and on gcs any Close (Close and Delete of s3.go, gcs.go and
\* azureblob.go).
THEOREM NilIsKept == Spec => []NilMeansDone
<1>1. BucketInv => NilMeansDone
  BY SMTT(30) DEF BucketInv, CallsInv, ReturnedInv, NilMeansDone, Nothing
<1> QED
  BY <1>1, BucketInvariant, PTL

\* A refused condition is reported as ErrPreconditionFailed and as nothing else, save
\* by S3 for a key that has gone, and a writer refused after it was stored lost an
\* answer (mapError of the three drivers).
THEOREM RefusalsAreNamed == Spec => []RefusalIsNamed
<1>1. BucketInv => RefusalIsNamed
  <2>1. role = "client" /\ BucketInv => RefusalIsNamed
    BY DEF BucketInv, CallsInv, ReturnedInv
  <2>2. role # "client" /\ BucketInv => returned.call = "none"
    BY SMTT(30) DEF BucketInv, Nothing
  <2>3. returned.call = "none" => RefusalIsNamed
    BY DEF RefusalIsNamed
  <2> QED
    BY <2>1, <2>2, <2>3
<1> QED
  BY <1>1, BucketInvariant, PTL

\* The service stores the body of a writer under its precondition and only after
\* Close, or after a CloseWithError with io.EOF or, on gcs, nil: with any other cause
\* an aborted writer stores nothing, save on gcs before its upload is opened, where
\* CloseWithError has no effect (CloseWithError of s3.go, gcs.go and azureblob.go).
THEOREM AbortedIsNotStored == Spec => []OnlyClosedIsStored
<1>1. BucketInv => OnlyClosedIsStored
  <2> SUFFICES ASSUME BucketInv PROVE Published(client) /\ Published(returned.writer)
    BY DEF OnlyClosedIsStored, Published
  <2>1. CASE role = "client"
    BY <2>1, WriterPublished DEF BucketInv, CallsInv, ReturnedInv, WriterInv
  <2>2. CASE role # "client"
    <3>1. client = NewClient /\ returned.writer = NewClient
      BY <2>2, SMTT(30) DEF BucketInv, Nothing
    <3>2. ~NewClient.stored
      BY DEF NewClient
    <3> QED
      BY <3>1, <3>2 DEF Published
  <2> QED
    BY <2>1, <2>2
<1> QED
  BY <1>1, BucketInvariant, PTL

-----------------------------------------------------------------------------
(* Range readers: opening a body.                                          *)

\* A reader that opens a body: one that has been opened before, or a new one.
Opens(r, pos) ==
  /\ r \in Reader /\ Sized(r) /\ pos \in Positions
  /\ r.opened \/ (r.size = -1 /\ pos = 0)

LEMMA RangeSizes ==
  ASSUME NEW r \in Reader
  PROVE  /\ rangeSize(r) \in Int /\ rangeSize(r) <= MaxLen
         /\ r.length >= 0 => rangeSize(r) \in 0 .. r.length
         /\ r.size >= 0 => rangeSize(r) >= 0
BY Constants, SMTT(30) DEF Reader, Offsets, rangeSize, smaller, larger

\* The range that is left, from the offset that was asked for.
LEMMA Clamps ==
  ASSUME NEW r \in Reader, NEW pos \in Positions
  PROVE  LET c == Clamped(r, pos)
             m == Remaining(r, pos)
         IN
         /\ c \in 0 .. pos
         /\ r.length < 0 => c = pos /\ m = -1
         /\ r.length >= 0 => /\ m \in 0 .. MaxLen /\ c + m = rangeSize(r) /\ c <= MaxLen
                             /\ m > 0 => c = pos
BY RangeSizes, Constants, SMTT(30) DEF Clamped, Remaining, smaller, Positions, Reader, Offsets

\* The range that goes over the wire, and what the service sends of it.
LEMMA RangesSent ==
  ASSUME CloudTypeOK, NEW from \in Nat, NEW m \in -1 .. MaxLen
  PROVE  LET range == Ranged(from, m) IN
         /\ range.first = from
         /\ range.last \in Int /\ range.last + 1 >= from
         /\ m < 0 => range.last + 1 > MaxLen
         /\ m > 0 => range.last + 1 = from + m
         /\ m = 0 => range.last + 1 = (IF driver = "gcs" THEN from ELSE from + 1)
         /\ Satisfiable(range) => from = 0 \/ from < blob.len \/ m = 0
<1> DEFINE range == Ranged(from, m)
<1>1. driver \in {"s3", "gcs", "azure"} /\ blob.len \in 0 .. MaxLen
  BY Constants DEF CloudTypeOK, Blob
<1>2. range = IF driver = "gcs" THEN gcsRange(from, m) ELSE byteRange(from, m)
  BY <1>1 DEF Ranged, rangeHeader, azureRange
<1>3. CASE from <= 0 /\ m < 0
  <2>1. range = Whole
    BY <1>2, <1>3, SMTT(30) DEF gcsRange, byteRange
  <2> QED
    BY <1>3, <2>1, Constants, SMTT(30) DEF Whole
<1>4. CASE ~(from <= 0 /\ m < 0) /\ m # 0
  <2>1. range = [whole |-> FALSE, first |-> from,
                 last |-> from + (IF m < 0 THEN MaxLen ELSE larger(m, 1) - 1)]
    BY <1>2, <1>4 DEF gcsRange, byteRange
  <2>2. range.first = from /\ ~range.whole
        /\ range.last = from + (IF m < 0 THEN MaxLen ELSE m - 1)
    BY <1>4, <2>1, SMTT(30) DEF larger
  <2> HIDE DEF range
  <2> QED
    BY <1>1, <1>4, <2>2, Constants, SMTT(30) DEF Satisfiable, range
<1>5. CASE m = 0
  <2>1. range.first = from /\ range.last = (IF driver = "gcs" THEN from - 1 ELSE from)
    BY <1>2, <1>5, SMTT(30) DEF gcsRange, byteRange, larger
  <2> QED
    BY <1>1, <1>5, <2>1, SMTT(30)
<1> QED
  BY <1>3, <1>4, <1>5

LEMMA BodyTypes ==
  ASSUME NEW r \in Reader, NEW c \in Positions, NEW pos \in Positions, NEW range,
         SizeFrom(range) \in -1 .. MaxLen, blob.len \in Offsets, range.first \in Positions,
         (IF r.size < 0 \/ r.length < 0 THEN blob.len ELSE smaller(blob.len, r.len)) \in Offsets,
         smaller(range.last + 1, larger(blob.len, range.first)) \in Positions
  PROVE  [Body(r, c, range) EXCEPT !.told = pos] \in Reader
BY DEF Body, Reader

\* A request that succeeds opens a body in place.
LEMMA BodyOpens ==
  ASSUME CloudTypeOK, NEW r, NEW pos, Opens(r, pos),
         driver = "gcs" \/ Remaining(r, pos) # 0 \/ r.size < 0,
         Satisfiable(Ranged(r.start + Clamped(r, pos), Remaining(r, pos))),
         NEW b,
         b = [Body(r, Clamped(r, pos), Ranged(r.start + Clamped(r, pos), Remaining(r, pos)))
                EXCEPT !.told = pos]
  PROVE  b \in Reader /\ Sized(b) /\ InPlace(b)
<1> DEFINE c == Clamped(r, pos)
           m == Remaining(r, pos)
           from == r.start + c
           range == Ranged(from, m)
           known == IF r.size < 0 \/ r.length < 0 THEN blob.len ELSE smaller(blob.len, r.len)
           end == smaller(range.last + 1, larger(blob.len, from))
<1>1. /\ r \in Reader /\ pos \in Positions /\ Sized(r) /\ (r.opened \/ (r.size = -1 /\ pos = 0))
      /\ r.start \in 0 .. MaxLen /\ r.length \in -1 .. MaxLen /\ r.size \in -1 .. MaxLen
      /\ r.len \in 0 .. MaxLen /\ pos \in 0 .. (2 * MaxLen)
  BY DEF Opens, Reader, Offsets, Positions
<1>2. blob.len \in 0 .. MaxLen /\ driver \in {"s3", "gcs", "azure"}
  BY Constants DEF CloudTypeOK, Blob
<1>3. /\ c \in 0 .. pos
      /\ r.length < 0 => c = pos /\ m = -1
      /\ r.length >= 0 => /\ m \in 0 .. MaxLen /\ c + m = rangeSize(r) /\ c <= MaxLen
                          /\ m > 0 => c = pos
  BY <1>1, Clamps
<1>4. m \in -1 .. MaxLen /\ c \in Nat /\ from \in Nat
  BY <1>1, <1>3, Constants, SMTT(30)
<1> HIDE DEF c, m
<1>5. /\ range.first = from
      /\ range.last \in Int /\ range.last + 1 >= from
      /\ m < 0 => range.last + 1 > MaxLen
      /\ m > 0 => range.last + 1 = from + m
      /\ m = 0 => range.last + 1 = (IF driver = "gcs" THEN from ELSE from + 1)
      /\ from = 0 \/ from < blob.len \/ m = 0
  BY <1>4, RangesSent DEF c, m
<1>6. known \in 0 .. MaxLen /\ known <= blob.len
  BY <1>1, <1>2, Constants, SMTT(30) DEF smaller
<1>7. rangeSize(r) \in Int /\ (r.length >= 0 => rangeSize(r) \in 0 .. r.length)
  BY <1>1, RangeSizes
<1>8. r.length >= 0 => rangeSize(r) >= smaller(r.length, larger(known - r.start, 0))
  BY <1>1, <1>2, <1>6, Constants, SMTT(30) DEF rangeSize, smaller, larger, Sized
<1>9. SizeFrom(range) = blob.len
  BY <1>2 DEF SizeFrom, totalFromContentRange, azureTotalFromContentRange
<1>10. /\ b.opened = TRUE /\ b.closed = FALSE /\ b.open = TRUE /\ b.pos = c /\ b.told = pos
       /\ b.size = blob.len /\ b.len = blob.len /\ b.known = known /\ b.at = from /\ b.end = end
       /\ b.start = r.start /\ b.length = r.length
  BY <1>1, <1>5, <1>9 DEF Body, Reader, c, m
<1> HIDE DEF known, range
\* What is left of the body and what precedes it reach the end of the range, in the
\* blob that the request went by.
<1>11. /\ from <= end
       /\ driver = "gcs" /\ r.length >= 0 => end <= r.start + rangeSize(r) \/ from = end
       /\ c + (end - from) >= (IF r.length >= 0 THEN smaller(r.length, larger(known - r.start, 0))
                               ELSE larger(known - r.start, 0))
  <2>1. r.start \in Nat /\ r.length \in Int /\ m \in Int /\ known \in Int
        /\ (r.length >= 0 => m >= 0)
    BY <1>1, <1>3, <1>4, <1>6, Constants, SMTT(30)
  <2> DEFINE over == IF driver = "gcs" THEN 0 ELSE 1
  <2>2. /\ over \in 0 .. 1
        /\ r.length >= 0 => m >= 0 /\ c + m = rangeSize(r)
        /\ m < 0 => range.last + 1 > MaxLen
        /\ m > 0 => range.last + 1 = r.start + c + m
        /\ m = 0 => range.last + 1 = r.start + c + over
        /\ r.start + c = 0 \/ r.start + c < blob.len \/ m = 0
    BY <1>3, <1>5, <2>1, SMTT(30)
  <2> HIDE DEF over
  <2>3. /\ r.start + c <= end
        /\ over = 0 /\ r.length >= 0 => end <= r.start + rangeSize(r) \/ r.start + c = end
        /\ c + (end - (r.start + c)) >=
             (IF r.length >= 0 THEN smaller(r.length, larger(known - r.start, 0))
              ELSE larger(known - r.start, 0))
    <3> DEFINE last == range.last
               len == blob.len
               size == rangeSize(r)
               start == r.start
               length == r.length
    <3>1. /\ start \in Nat /\ length \in Int /\ c \in Nat /\ m \in Int /\ last \in Int
          /\ len \in 0 .. MaxLen /\ known \in Int /\ size \in Int /\ known <= len
          /\ length < 0 => m = -1
          /\ length >= 0 => size >= smaller(length, larger(known - start, 0))
      BY <1>2, <1>3, <1>4, <1>5, <1>6, <1>7, <1>8, <2>1
    <3>2. /\ length >= 0 => m >= 0 /\ c + m = size
          /\ m < 0 => last + 1 > MaxLen
          /\ m > 0 => last + 1 = start + c + m
          /\ m = 0 => last + 1 = start + c + over
          /\ start + c = 0 \/ start + c < len \/ m = 0
      BY <2>2
    <3>3. end = smaller(last + 1, larger(len, start + c))
      OBVIOUS
    <3> HIDE DEF last, len, size, start, length, end
    <3> DEFINE stop == smaller(last + 1, larger(len, start + c))
               there == larger(known - start, 0)
    <3>4. over \in 0 .. 1 /\ last + 1 >= start + c
      BY <1>5, <2>2 DEF last, start
    <3>5. /\ stop \in Int /\ start + c <= stop
          /\ stop = last + 1 \/ stop = len \/ stop = start + c
          /\ stop <= last + 1 /\ (stop = last + 1 \/ stop >= len)
      BY <3>1, <3>4, Constants, SMTT(30) DEF smaller, larger
    <3>6. there \in Int /\ (there = 0 \/ there = known - start) /\ there >= 0
      BY <3>1, SMTT(30) DEF larger
    <3>7. /\ smaller(length, there) <= length /\ smaller(length, there) <= there
          /\ smaller(length, there) \in Int
      BY <3>1, <3>6, SMTT(30) DEF smaller
    <3> DEFINE part == smaller(length, there)
    <3>8. length >= 0 => size >= part
      BY <3>1
    <3>9. over = 0 /\ length >= 0 => stop <= start + size \/ start + c = stop
      <4> HIDE DEF stop, there, part
      <4> QED
        BY <3>1, <3>2, <3>4, <3>5, Constants, SMTT(30)
    <3>10. length >= 0 => c + (stop - (start + c)) >= part
      <4> HIDE DEF stop, there, part
      <4> QED
        BY <3>1, <3>2, <3>4, <3>5, <3>6, <3>7, <3>8, Constants, SMTT(30) DEF part
    <3>11. length < 0 => c + (stop - (start + c)) >= there
      <4> HIDE DEF stop, there, part
      <4> QED
        BY <3>1, <3>2, <3>4, <3>5, <3>6, Constants, SMTT(30)
    <3> QED
      BY <3>1, <3>3, <3>5, <3>9, <3>10, <3>11, SMTT(30) DEF last, len, size, start, length
  <2> QED
    BY <2>3 DEF over
<1>12. from <= 2 * MaxLen /\ end \in 0 .. (2 * MaxLen)
  BY <1>1, <1>2, <1>3, <1>4, <1>5, <1>11, Constants, SMTT(30) DEF smaller, larger
<1>13. from < end => c = pos
  <2>1. m = 0 => driver = "gcs" \/ pos = 0
    BY <1>1, SMTT(30) DEF Sized, m
  <2> QED
    BY <1>1, <1>2, <1>3, <1>4, <1>5, <2>1, Constants, SMTT(30) DEF smaller, larger
<1> HIDE DEF from, end
<1>14. b \in Reader
  <2>1. /\ c \in Positions /\ SizeFrom(range) \in -1 .. MaxLen /\ blob.len \in Offsets
        /\ known \in Offsets /\ range.first \in Positions /\ end \in Positions
    BY <1>1, <1>2, <1>3, <1>4, <1>5, <1>6, <1>9, <1>12, Constants, SMTT(30) DEF Positions, Offsets
  <2>2. end = smaller(range.last + 1, larger(blob.len, range.first))
    BY <1>5 DEF end
  <2> QED
    BY <1>1, <2>1, <2>2, BodyTypes DEF known, range, from, c, m
<1>15. Sized(b)
  BY <1>6, <1>10 DEF Sized
<1>16. InPlace(b)
  <2>1. Reach(b) = (IF r.length >= 0 THEN smaller(r.length, larger(known - r.start, 0))
                    ELSE larger(known - r.start, 0))
    BY <1>10, SMTT(30) DEF Reach
  <2>2. b.at < b.end => b.at = b.start + b.pos /\ b.told = b.pos
    BY <1>10, <1>13 DEF from
  <2>3. b.at < b.end /\ driver = "gcs" /\ b.length >= 0 => b.end <= b.start + b.length
    <3>1. from < end /\ driver = "gcs" /\ r.length >= 0 => end <= r.start + rangeSize(r)
      BY <1>4, <1>11, <1>12, Constants, SMTT(30)
    <3>2. r.length >= 0 => rangeSize(r) <= r.length
      BY <1>1, <1>7, SMTT(30)
    <3> QED
      BY <1>1, <1>7, <1>10, <1>12, <3>1, <3>2, Constants, SMTT(30)
  <2> QED
    BY <1>10, <1>11, <2>1, <2>2, <2>3 DEF InPlace
<1> QED
  BY <1>14, <1>15, <1>16

\* A call of a reader that returns no bytes.
LEMMA ReaderGoesOn ==
  ASSUME CloudTypeOK', NEW r \in Reader, Sized(r), InPlace(r), driver' = driver,
         reader' = r, got' = Nil
  PROVE  ReadsInv'
<1>1. ReaderTypeOK'
  BY Constants, SMTT(30) DEF ReaderTypeOK, Nil, Positions
<1>2. Sized(reader)' /\ InPlace(reader)'
  BY DEF Sized, InPlace, Reach, rangeSize
<1>3. ReadsInPlace' /\ EndIsTheEnd'
  BY DEF ReadsInPlace, EndIsTheEnd, Nil
<1> QED
  BY <1>1, <1>2, <1>3 DEF ReadsInv

LEMMA Shut ==
  ASSUME NEW r \in Reader, Sized(r)
  PROVE  LET s == [r EXCEPT !.open = FALSE] IN s \in Reader /\ Sized(s) /\ InPlace(s)
BY DEF Reader, Sized, InPlace

LEMMA RequestKeeps ==
  ASSUME CloudTypeOK, NEW r, NEW pos, Opens(r, pos),
         driver = "gcs" \/ Remaining(r, pos) # 0 \/ r.size < 0,
         Request(r, pos, r.start + Clamped(r, pos)), got' = Nil, readerOnly
  PROVE  ReadsInv'
<1> DEFINE range == Ranged(r.start + Clamped(r, pos), Remaining(r, pos))
           b == [Body(r, Clamped(r, pos), range) EXCEPT !.told = pos]
           s == [r EXCEPT !.open = FALSE]
<1>1. CloudTypeOK' /\ driver' = driver
  BY FailTypes DEF Request, readerOnly, store, CloudTypeOK
<1>2. CASE Satisfiable(range) /\ reader' = b
  <2>1. b \in Reader /\ Sized(b) /\ InPlace(b)
    BY <1>2, BodyOpens
  <2> QED
    BY <1>1, <1>2, <2>1, ReaderGoesOn
<1>3. CASE reader' = s
  <2>1. s \in Reader /\ Sized(s) /\ InPlace(s)
    BY Shut DEF Opens
  <2> QED
    BY <1>1, <1>3, <2>1, ReaderGoesOn
<1> QED
  BY <1>2, <1>3 DEF Request

LEMMA EmptyOrRequestKeeps ==
  ASSUME CloudTypeOK, driver # "gcs", NEW r, NEW pos, Opens(r, pos),
         EmptyOrRequest(r, pos), got' = Nil, readerOnly
  PROVE  ReadsInv'
<1>1. CASE Remaining(r, pos) # 0 \/ r.size < 0
  BY <1>1, RequestKeeps, SMTT(30) DEF EmptyOrRequest, Opens, Reader
<1>2. CASE ~(Remaining(r, pos) # 0 \/ r.size < 0)
  <2> DEFINE b == [r EXCEPT !.open = TRUE, !.closed = FALSE, !.at = 0, !.end = 0,
                            !.pos = Clamped(r, pos), !.told = pos]
  <2>1. r.size >= 0 /\ r.opened /\ r \in Reader /\ Sized(r) /\ pos \in Positions
    BY <1>2, SMTT(30) DEF EmptyOrRequest, Opens, Reader
  <2>2. CloudTypeOK' /\ driver' = driver /\ reader' = b
    BY <1>2 DEF EmptyOrRequest, readerOnly, store, CloudTypeOK
  <2>3. Clamped(r, pos) \in 0 .. pos /\ rangeSize(r) = Clamped(r, pos)
    BY <1>2, <2>1, Clamps, SMTT(30) DEF Reader
  <2>4. Clamped(r, pos) \in Positions /\ 0 \in Positions
    BY <2>1, <2>3, Constants, SMTT(30) DEF Positions
  <2>5. b \in Reader
    BY <2>1, <2>4 DEF Reader
  <2>6. Sized(b)
    BY <2>1 DEF Sized, Reader
  <2>7. /\ b.at = 0 /\ b.end = 0 /\ b.pos = Clamped(r, pos)
        /\ b.size = r.size /\ b.length = r.length /\ b.start = r.start
    BY <2>1 DEF Reader
  <2>8. rangeSize(b) = rangeSize(r)
    BY <2>7, SMTT(30) DEF rangeSize
  <2>9. InPlace(b)
    BY <2>3, <2>7, <2>8, SMTT(30) DEF InPlace
  <2> QED
    BY <2>2, <2>5, <2>6, <2>9, ReaderGoesOn
<1> QED
  BY <1>1, <1>2

\* A reader that has been opened seeks; a new one is opened from its start.
LEMMA SeekKeeps ==
  ASSUME ReadsInv, NEW offset \in -MaxLen .. MaxLen,
         s3Seek(offset) \/ gcsSeek(offset) \/ azureSeek(offset)
  PROVE  ReadsInv'
<1>1. PICK pos \in Positions :
        /\ reader.opened /\ got' = Nil /\ readerOnly
        /\ \/ driver = "gcs" /\ gcsReopen(reader, pos)
           \/ driver \in {"s3", "azure"} /\ EmptyOrRequest(reader, pos)
  BY DEF s3Seek, gcsSeek, azureSeek, Seeks, s3Reopen, azureReopen
<1>2. Opens(reader, pos)
  BY <1>1 DEF ReadsInv, ReaderTypeOK, Opens
<1> QED
  BY <1>1, <1>2, RequestKeeps, EmptyOrRequestKeeps DEF ReadsInv, gcsReopen

LEMMA NewRangeReaderKeeps ==
  ASSUME ReadsInv, NEW start \in Offsets, NEW length \in -1 .. MaxLen,
         \/ s3NewRangeReader(start, length)
         \/ gcsNewRangeReader(start, length)
         \/ azureNewRangeReader(start, length)
  PROVE  ReadsInv'
<1> DEFINE r == [NoReader EXCEPT !.start = start, !.length = length]
<1>1. /\ got' = Nil /\ readerOnly
      /\ \/ driver = "gcs" /\ gcsReopen(r, 0)
         \/ driver \in {"s3", "azure"} /\ EmptyOrRequest(r, 0)
  BY DEF s3NewRangeReader, gcsNewRangeReader, azureNewRangeReader, Ranges, s3Reopen, azureReopen
<1>2. Opens(r, 0)
  <2>1. NoReader \in Reader /\ 0 \in Positions
    BY Constants, SMTT(30) DEF NoReader, Reader, Positions, Offsets
  <2>2. r \in Reader
    BY <2>1 DEF Reader
  <2>3. r.size = -1 /\ r.open = FALSE /\ r.opened = FALSE
    BY DEF NoReader
  <2> HIDE DEF r
  <2> QED
    BY <2>1, <2>2, <2>3 DEF Opens, Sized
<1> HIDE DEF r
<1> QED
  BY <1>1, <1>2, RequestKeeps, EmptyOrRequestKeeps DEF ReadsInv, gcsReopen

-----------------------------------------------------------------------------
(* Range readers: reading.                                                 *)

LEMMA ReadReturns ==
  ASSUME ReadsInv, CloudTypeOK', driver' = driver,
         NEW r \in Reader, Sized(r), InPlace(r), reader' = r,
         NEW kind \in {"byte", "eof", "error"}, Gets(kind),
         kind = "byte" => /\ reader.at = r.start + reader.told
                          /\ r.length >= 0 => reader.told < r.length,
         kind = "eof" => r.pos >= Reach(r)
  PROVE  ReadsInv'
<1>1. got'.kind = kind /\ got'.at = reader.at /\ got'.told = reader.told
  BY DEF Gets
<1>2. ReaderTypeOK'
  BY DEF ReaderTypeOK, ReadsInv, Reader, Gets
<1>3. Sized(reader)' /\ InPlace(reader)'
  BY DEF Sized, InPlace, Reach, rangeSize
<1>4. ReadsInPlace'
  BY <1>1 DEF ReadsInPlace
<1>5. EndIsTheEnd'
  BY <1>1 DEF EndIsTheEnd, Reach
<1> QED
  BY <1>2, <1>3, <1>4, <1>5 DEF ReadsInv

LEMMA ReaderTypes ==
  ASSUME ReadsInv
  PROVE  /\ reader \in Reader /\ Sized(reader) /\ InPlace(reader) /\ CloudTypeOK
         /\ reader.start \in 0 .. MaxLen /\ reader.length \in -1 .. MaxLen
         /\ {reader.pos, reader.told, reader.at, reader.end} \subseteq 0 .. (2 * MaxLen)
         /\ reader.known \in 0 .. MaxLen
BY DEF ReadsInv, ReaderTypeOK, Reader, Offsets, Positions

LEMMA KeepsRead ==
  ASSUME ReadsInv, readerOnly, NEW kind \in {"eof", "error"}, Keeps(kind),
         kind = "eof" => reader.pos >= Reach(reader)
  PROVE  ReadsInv'
<1>1. CloudTypeOK' /\ driver' = driver /\ reader' = reader /\ Gets(kind)
  BY ReaderTypes DEF Keeps, readerOnly, store, CloudTypeOK
<1> QED
  BY <1>1, ReaderTypes, ReadReturns

\* The byte read is in place, and the body goes on behind it.
LEMMA ByteRead ==
  ASSUME ReadsInv, readerOnly, driver = "gcs" \/ rangeSize(reader) > reader.pos,
         reader.open, reader.at < reader.end, Gets("byte"),
         reader' = [reader EXCEPT !.at = @ + 1, !.pos = @ + 1, !.told = @ + 1],
         UNCHANGED failures
  PROVE  ReadsInv'
<1> DEFINE r == [reader EXCEPT !.at = @ + 1, !.pos = @ + 1, !.told = @ + 1]
<1>1. CloudTypeOK' /\ driver' = driver
  BY ReaderTypes DEF readerOnly, store, CloudTypeOK
<1>2. /\ reader.at = reader.start + reader.pos /\ reader.told = reader.pos
      /\ driver = "gcs" /\ reader.length >= 0 => reader.end <= reader.start + reader.length
      /\ reader.pos + (reader.end - reader.at) >= Reach(reader)
  BY ReaderTypes DEF InPlace
<1>3. /\ reader.at + 1 \in Positions /\ reader.pos + 1 \in Positions
      /\ reader.told + 1 \in Positions
  BY <1>2, ReaderTypes, Constants, SMTT(30) DEF Positions
<1>4. r \in Reader
  BY <1>3, ReaderTypes DEF Reader
<1>5. /\ r.at = reader.at + 1 /\ r.pos = reader.pos + 1 /\ r.told = reader.told + 1
      /\ r.open = reader.open /\ r.opened = reader.opened /\ r.end = reader.end
      /\ r.start = reader.start /\ r.length = reader.length /\ r.size = reader.size
      /\ r.len = reader.len /\ r.known = reader.known
  BY ReaderTypes DEF Reader
<1> HIDE DEF r
<1>6. Sized(r)
  BY <1>5, ReaderTypes DEF Sized
<1>7. Reach(r) = Reach(reader)
  BY <1>5 DEF Reach
<1>8. Reach(reader) \in Int
  BY ReaderTypes, Constants, SMTT(30) DEF Reach, smaller, larger
<1>9. InPlace(r)
  BY <1>2, <1>5, <1>7, <1>8, ReaderTypes, Constants, SMTT(30) DEF InPlace
<1>10. reader.length >= 0 => reader.told < reader.length
  <2>1. reader.length >= 0 => rangeSize(reader) \in 0 .. reader.length
    BY ReaderTypes, RangeSizes
  <2> QED
    BY <1>2, <2>1, ReaderTypes, Constants, SMTT(30)
<1> QED
  BY <1>1, <1>2, <1>4, <1>5, <1>6, <1>9, <1>10, ReadReturns DEF r

LEMMA BodyReadKeeps ==
  ASSUME ReadsInv, readerOnly, driver = "gcs" \/ rangeSize(reader) > reader.pos, BodyRead
  PROVE  ReadsInv'
<1>1. CASE /\ reader.open /\ reader.at < reader.end /\ Gets("byte")
           /\ reader' = [reader EXCEPT !.at = @ + 1, !.pos = @ + 1, !.told = @ + 1]
           /\ UNCHANGED failures
  BY <1>1, ByteRead
<1>2. CASE reader.open /\ reader.at = reader.end /\ Keeps("eof")
  <2>1. reader.pos >= Reach(reader)
    BY <1>2, ReaderTypes, SMTT(30) DEF InPlace
  <2> QED
    BY <1>2, <2>1, KeepsRead
<1>3. CASE Keeps("error")
  BY <1>3, KeepsRead
<1>4. CASE FailOnce /\ Gets("error") /\ reader' = [reader EXCEPT !.open = FALSE]
  <2> DEFINE s == [reader EXCEPT !.open = FALSE]
  <2>1. CloudTypeOK' /\ driver' = driver
    BY <1>4, ReaderTypes, FailTypes DEF readerOnly, store, CloudTypeOK
  <2>2. s \in Reader /\ Sized(s) /\ InPlace(s)
    BY ReaderTypes, Shut
  <2> QED
    BY <1>4, <2>1, <2>2, ReadReturns
<1> QED
  BY <1>1, <1>2, <1>3, <1>4 DEF BodyRead

LEMMA ReadKeeps ==
  ASSUME ReadsInv, s3Read \/ gcsRead \/ azureRead
  PROVE  ReadsInv'
<1>1. CASE gcsRead
  BY <1>1, KeepsRead, BodyReadKeeps DEF gcsRead
<1>2. CASE s3Read \/ azureRead
  <2>1. reader.opened /\ readerOnly
    BY <1>2 DEF s3Read, azureRead, ClampedRead
  <2>2. CASE Keeps("error")
    BY <2>1, <2>2, KeepsRead
  <2>3. CASE rangeSize(reader) <= reader.pos /\ Keeps("eof")
    <3>1. reader.size = reader.len /\ reader.known <= reader.len /\ reader.len \in 0 .. MaxLen
      BY <2>1, ReaderTypes DEF Sized, Reader, Offsets
    <3>2. rangeSize(reader) >= Reach(reader)
      BY <3>1, ReaderTypes, Constants, SMTT(30) DEF rangeSize, Reach, smaller, larger
    <3>3. rangeSize(reader) \in Int /\ Reach(reader) \in Int
      BY ReaderTypes, RangeSizes, Constants, SMTT(30) DEF Reach, smaller, larger
    <3>4. reader.pos >= Reach(reader)
      BY <2>3, <3>2, <3>3, ReaderTypes, Constants, SMTT(30)
    <3> QED
      BY <2>1, <2>3, <3>4, KeepsRead
  <2>4. CASE rangeSize(reader) > reader.pos /\ BodyRead
    BY <2>1, <2>4, BodyReadKeeps
  <2> QED
    BY <1>2, <2>2, <2>3, <2>4 DEF s3Read, azureRead, ClampedRead
<1> QED
  BY <1>1, <1>2

LEMMA ReaderCloseKeeps ==
  ASSUME ReadsInv, s3ReaderClose \/ gcsReaderClose \/ azureReaderClose
  PROVE  ReadsInv'
<1> DEFINE s == [reader EXCEPT !.closed = TRUE, !.open = FALSE]
<1>1. Closes
  BY DEF s3ReaderClose, gcsReaderClose, azureReaderClose
<1>2. CloudTypeOK' /\ driver' = driver /\ got' = Nil /\ reader' = s
  BY <1>1, ReaderTypes DEF Closes, readerOnly, store, CloudTypeOK
<1>3. s \in Reader /\ Sized(s) /\ InPlace(s)
  BY ReaderTypes DEF Reader, Sized, InPlace
<1> QED
  BY <1>2, <1>3, ReaderGoesOn

-----------------------------------------------------------------------------
(* The invariant of the readers holds for ever.                            *)

LEMMA ReaderStepKeeps ==
  ASSUME ReadsInv, ReaderStep
  PROVE  ReadsInv'
<1>1. ASSUME NEW start \in Offsets, NEW length \in -1 .. MaxLen,
             \/ s3NewRangeReader(start, length)
             \/ gcsNewRangeReader(start, length)
             \/ azureNewRangeReader(start, length)
      PROVE  ReadsInv'
  BY <1>1, NewRangeReaderKeeps
<1>2. ASSUME NEW offset \in -MaxLen .. MaxLen,
             s3Seek(offset) \/ gcsSeek(offset) \/ azureSeek(offset)
      PROVE  ReadsInv'
  BY <1>2, SeekKeeps
<1>3. CASE s3Read \/ gcsRead \/ azureRead
  BY <1>3, ReadKeeps
<1>4. CASE s3ReaderClose \/ gcsReaderClose \/ azureReaderClose
  BY <1>4, ReaderCloseKeeps
<1> QED
  BY <1>1, <1>2, <1>3, <1>4 DEF ReaderStep

LEMMA ReaderInit0 == Init => ReaderInv
<1> SUFFICES ASSUME Init PROVE ReaderInv
  BY SMTT(30)
<1>1. CloudTypeOK
  BY Constants, SMTT(30) DEF Init, StoreInit, CloudTypeOK, NoBlob, Blob
<1>2. reader = NoReader /\ got = Nil
  BY DEF Init, ReaderInit
<1>3. ReaderTypeOK
  BY <1>2, Constants, SMTT(30) DEF ReaderTypeOK, NoReader, Nil, Reader, Offsets, Positions
<1>4. Sized(reader) /\ InPlace(reader)
  BY <1>2 DEF Sized, InPlace, NoReader
<1>5. ReadsInPlace /\ EndIsTheEnd
  BY <1>2 DEF ReadsInPlace, EndIsTheEnd, Nil
<1> QED
  BY <1>1, <1>2, <1>3, <1>4, <1>5 DEF ReaderInv, ReadsInv

LEMMA ReaderNext ==
  ReaderInv /\ [Next]_vars => ReaderInv'
<1> SUFFICES ASSUME ReaderInv, [Next]_vars PROVE ReaderInv'
  BY SMTT(30)
<1>1. CASE Reads
  <2>1. role = "reader" /\ role' = role /\ ReaderStep
    BY <1>1 DEF Reads
  <2> QED
    BY <2>1, ReaderStepKeeps DEF ReaderInv
<1>2. CASE Calls \/ Busy \/ Copies \/ Copying \/ Serves
  BY <1>2 DEF ReaderInv, Calls, Busy, Copies, Copying, Serves, readerVars
<1>3. CASE Elsewhere
  <2>1. role' = role /\ Others /\ got' = Nil /\ reader' = reader
    BY <1>3 DEF Elsewhere
  <2>2. ASSUME ReadsInv PROVE ReadsInv'
    BY <2>1, <2>2, ReaderTypes, OthersTypes, ReaderGoesOn
  <2> QED
    BY <2>1, <2>2 DEF ReaderInv
<1>4. CASE UNCHANGED vars
  <2>1. UNCHANGED <<role, driver, blob, changes, failures, reader, got>>
    BY <1>4 DEF vars, readerVars
  <2> QED
    BY <2>1 DEF ReaderInv, ReadsInv, CloudTypeOK, ReaderTypeOK, Sized, InPlace, Reach, rangeSize,
       ReadsInPlace, EndIsTheEnd
<1> QED
  BY <1>1, <1>2, <1>3, <1>4 DEF Next

\* The inductive invariant of the range readers: where a body is, and how much of the
\* range it still has (the readers of s3.go, gcs.go and azureblob.go).
THEOREM ReaderInvariant == Spec => []ReaderInv
<1> QED
  BY ReaderInit0, ReaderNext, PTL DEF Spec

\* A byte that Read returns is the one at the offset the caller was told, inside the
\* range: for every range and blob, across seeks past the end, failed requests, and
\* blobs that others replace between two requests (Read and Seek of the three drivers).
THEOREM BytesAreInPlace == Spec => []ReadsInPlace
<1>1. ReaderInv => ReadsInPlace
  BY SMTT(30) DEF ReaderInv, ReadsInv, ReadsInPlace, Nil
<1> QED
  BY <1>1, ReaderInvariant, PTL

\* Read reports the end at the end of the range and never before, however the sizes
\* of the blob and of partial answers differ (rangeSize, and the totals taken from
\* Content-Range, of the three drivers).
THEOREM EndsAreReal == Spec => []EndIsTheEnd
<1>1. ReaderInv => EndIsTheEnd
  BY SMTT(30) DEF ReaderInv, ReadsInv, EndIsTheEnd, Nil
<1> QED
  BY <1>1, ReaderInvariant, PTL

-----------------------------------------------------------------------------
(* The parts of a multipart copy.                                          *)

\* Division of natural numbers.
LEMMA Division ==
  ASSUME NEW x \in Nat, NEW b \in Nat \ {0}
  PROVE  /\ x \div b \in Nat
         /\ x = b * (x \div b) + (x % b)
         /\ 0 <= x % b /\ x % b < b
  BY SMTT(30)

\* A common factor cancels.
LEMMA Cancels ==
  ASSUME NEW x \in Int, NEW y \in Int, NEW p \in Nat \ {0}, x * p < y * p
  PROVE  x < y
  BY SMTT(30)

\* Division rounded up (s3/crosscopy.go:100-105).
LEMMA RoundedUp ==
  ASSUME NEW a \in Nat, NEW b \in Nat \ {0}
  PROVE  /\ CeilDiv(a, b) \in Nat
         /\ a <= CeilDiv(a, b) * b
         /\ (CeilDiv(a, b) - 1) * b < a
<1> DEFINE q == CeilDiv(a, b)
<1>1. a + b - 1 \in Nat
  BY SMTT(30)
<1>2. q \in Nat /\ a + b - 1 = b * q + ((a + b - 1) % b) /\ 0 <= (a + b - 1) % b /\ (a + b - 1) % b < b
  BY <1>1, Division DEF CeilDiv
<1>3. b * q <= a + b - 1 /\ a + b - 1 < b * q + b
  BY <1>2, SMTT(30)
<1>4. b * q = q * b /\ (q - 1) * b = q * b - b
  BY <1>2, SMTT(30)
<1> QED
  BY <1>2, <1>3, <1>4, SMTT(30)

LEMMA PartSizeIsPositive ==
  ASSUME NEW size \in Nat \ {0}
  PROVE  partSize(size) \in Nat \ {0}
<1>1. PartSize \in Nat \ {0} /\ MaxParts \in Nat \ {0}
  BY CopyAssumption
<1>2. CeilDiv(size, MaxParts) \in Nat /\ size <= CeilDiv(size, MaxParts) * MaxParts
  BY <1>1, RoundedUp
<1>3. CeilDiv(size, MaxParts) # 0
  BY <1>1, <1>2, SMTT(30)
<1> QED
  BY <1>1, <1>2, <1>3 DEF partSize

\* However large the blob, its parts are at most as many as an upload may have,
\* at least one, and together they reach its last byte: scaling the part size
\* (s3/crosscopy.go:100-105) and cutting the last part short (118-127) fit.
THEOREM PartsFit ==
  ASSUME NEW size \in Nat \ {0}
  PROVE  /\ partCount(size) \in 1 .. MaxParts
         /\ partEnd(size, partCount(size) - 1) = size - 1
<1> DEFINE p == partSize(size)
           n == partCount(size)
<1>1. PartSize \in Nat \ {0} /\ MaxParts \in Nat \ {0} /\ p \in Nat \ {0}
  BY CopyAssumption, PartSizeIsPositive, SMTT(30)
<1>2. n \in Nat /\ size <= n * p /\ (n - 1) * p < size
  BY <1>1, RoundedUp DEF partCount
<1>3. n # 0
  BY <1>1, <1>2, SMTT(30)
<1>4. n <= MaxParts
  <2>1. CASE CeilDiv(size, PartSize) > MaxParts
    <3>1. p = CeilDiv(size, MaxParts)
      BY <2>1 DEF partSize
    <3>2. size <= p * MaxParts
      BY <1>1, <3>1, RoundedUp
    <3>3. (n - 1) * p < MaxParts * p
      BY <1>1, <1>2, <3>2, SMTT(30)
    <3>4. n - 1 < MaxParts
      BY <1>1, <1>2, <3>3, Cancels, SMTT(30)
    <3> QED
      BY <1>1, <1>2, <3>4, SMTT(30)
  <2>2. CASE ~(CeilDiv(size, PartSize) > MaxParts)
    <3>1. CeilDiv(size, PartSize) \in Nat
      BY <1>1, RoundedUp, SMTT(30)
    <3> QED
      BY <1>1, <2>2, <3>1, SMTT(30) DEF partSize, partCount
  <2> QED
    BY <2>1, <2>2
<1>5. partStart(size, n - 1) + p - 1 >= size - 1
  <2>1. partStart(size, n - 1) + p = n * p
    BY <1>1, <1>2, SMTT(30) DEF partStart
  <2>2. n * p \in Nat
    BY <1>1, <1>2, SMTT(30)
  <2>3. partStart(size, n - 1) \in Int
    BY <1>1, <1>2, SMTT(30) DEF partStart
  <2> QED
    BY <1>1, <1>2, <2>1, <2>2, <2>3, SMTT(30)
<1>6. partStart(size, n - 1) \in Int
  BY <1>1, <1>2, SMTT(30) DEF partStart
<1> HIDE DEF p, n
<1>7. partEnd(size, n - 1) = size - 1
  BY <1>1, <1>5, <1>6, SMTT(30) DEF partEnd, p
<1> QED
  BY <1>1, <1>2, <1>3, <1>4, <1>7, SMTT(30) DEF n

-----------------------------------------------------------------------------
(* The inductive invariant of a copy.                                      *)

Early == {"none", "head", "single", "create", "rewrite", "url", "start", "poll"}
Over == {"returned", "set", "done"}

\* The source, and the version of it that was read first: a body number is used
\* once, and what it numbers does not change; its headers do, on S3 only.
SourceInv ==
  /\ driver \in Drivers /\ blob \in Blob /\ changes \in 0 .. MaxChanges
  /\ blob.gen <= changes /\ copy.from.gen <= changes
  /\ Exists(blob) => blob.gen >= 1
  /\ driver = "azure" /\ copy.from.gen >= 1 /\ blob.gen = copy.from.gen =>
       blob.len = copy.from.len /\ blob.hdr = copy.from.hdr

\* What the service holds of a multipart upload is still being assembled, was
\* removed, or is there because the abort failed or a request came late.
UploadInv ==
  /\ copy.pc \in Early => copy.stored = {} /\ copy.late = {}
  /\ copy.pc \in Early => \A i \in Part : copy.parts[i] = "none"
  /\ \A i \in Part : copy.parts[i] = "flying" => copy.pc = "parts"
  /\ copy.pc \in Over /\ copy.stored # {} => copy.abortFailed \/ copy.straggled
  /\ copy.pc \in Over /\ copy.late # {} => copy.upload # "open" \/ copy.abortFailed

\* The parts copied so far are of the version read first, unless that is gone.
PartsInv ==
  /\ copy.pc \in Early => copy.gens = {}
  /\ copy.pc \in {"create", "parts", "complete"} =>
       /\ copy.from.gen >= 1 /\ copy.from.len >= 1
       /\ blob.gen = copy.from.gen => copy.gens \subseteq {copy.from.gen}
  /\ copy.pc \in {"parts", "complete"} => copy.parts[0] # "none"
  /\ (\E i \in Part : copy.parts[i] = "done") => copy.gens # {}
  /\ copy.pc = "complete" => \A i \in Part : copy.parts[i] \in {"none", "done"}
  /\ copy.pc = "parts" /\ (\E i \in Part : copy.parts[i] = "failed") => copy.err # "ok"
  /\ copy.pc = "abort" => copy.err # "ok"

\* pollErrors counts the failures in a row, and only the last of them, the end of
\* the copy or that of the context ends the loop.
PollInv ==
  /\ copy.polls = copy.streak
  /\ copy.pc \notin Over \cup {"poll"} => copy.polls = 0
  /\ copy.pc = "poll" => copy.polls < MaxPollErrors
  /\ copy.pc \in Over /\ copy.polls # 0 /\ copy.err = "error" =>
       copy.cancelled \/ copy.status = "failed" \/ copy.streak = MaxPollErrors

\* The target has the source as it was read first.
IsCopied == target.len = copy.from.len /\ target.hdr = copy.from.hdr /\ target.gens = {copy.from.gen}

\* The target while Azure copies, and the outcome.
ResultInv ==
  /\ copy.status = "pending" => driver = "azure" /\ copy.from.gen >= 1
  /\ copy.pc \in {"url", "start", "poll"} => driver = "azure"
  /\ copy.pc = "poll" => copy.from.gen >= 1 /\ copy.status # "none"
  /\ copy.pc = "poll" /\ copy.status = "success" => IsCopied
  /\ copy.pc \notin Over \cup {"poll"} => copy.status = "none"
  /\ copy.pc \in Over /\ copy.err = "ok" =>
       /\ copy.status # "pending"
       /\ copy.from.gen >= 1
       /\ \/ IsCopied
          \/ /\ target.len = copy.from.len /\ target.hdr = copy.from.hdr
             /\ copy.upload = "completed" /\ blob.gen # copy.from.gen
  /\ copy.pc \in {"set", "done"} => copy.opErr = copy.err

\* The copier.
CopierInv == CopyTypeOK /\ SourceInv /\ UploadInv /\ PartsInv /\ PollInv /\ ResultInv

\* The inductive invariant; the other roles have no copy.
CopyInv ==
  /\ role = "copier" => CopierInv
  /\ role # "copier" => copy = NewCopy

-----------------------------------------------------------------------------
(* Every step of the copier keeps its invariant.                           *)

\* CopyConstants and sets as the provers need them.
LEMMA CopyConstants ==
  /\ MaxSingle \in Nat /\ MaxParts \in Nat \ {0} /\ MaxPollErrors \in Nat \ {0}
  /\ MaxLen \in Nat /\ MaxChanges \in Nat
  /\ Drivers \subseteq {"s3", "gcs", "azure"}
  /\ 0 \in Part
BY CopyAssumption, CloudAssumption, SMTT(30) DEF Part

\* No copy is under way, or over, before one is asked for.
LEMMA NotCopying == NewCopy.pc # "done" /\ NewCopy.pc # "returned"
BY SMTT(30) DEF NewCopy

\* What the drivers make of the answers a copy meets (s3.go:890-921,
\* gcs.go:717-738, azureblob.go:1075-1095).
LEMMA MapsAnswers ==
  ASSUME CopierInv
  PROVE  /\ mapError("200") = "ok"
         /\ mapError("404") = "not found"
         /\ mapError("400") = "error" /\ mapError("416") = "error" /\ mapError("none") = "error"
         /\ \A answer \in Answers \ {"200"} : mapError(answer) \in Outcomes \ {"ok"}
<1>1. driver \in {"s3", "gcs", "azure"}
  BY CopyConstants DEF CopierInv, SourceInv
<1>2. \A answer \in Answers \ {"200"} : mapError(answer) \in Outcomes \ {"ok"}
  BY <1>1 DEF mapError, s3MapError, gcsMapError, azureMapError, Mapped, Answers, Outcomes
<1> QED
  BY <1>1, <1>2 DEF mapError, s3MapError, gcsMapError, azureMapError, Mapped

\* Copy and XCopyFrom begin.
LEMMA BeginsKeeps ==
  ASSUME CopierInv,
         NEW sync \in BOOLEAN,
         NEW pc \in {"head", "single", "rewrite", "url", "start"},
         pc \in {"url", "start"} => driver = "azure",
         Begins(sync, pc)
  PROVE  CopierInv'
<1> USE CopyConstants DEF Early, Over, source, CopyTypeOK, Copy
<1>1. SourceInv /\ CopyTypeOK /\ UploadInv /\ PartsInv /\ PollInv /\ ResultInv
  BY DEF CopierInv
<1>2. CopyTypeOK'
  BY <1>1 DEF Begins, Only, Outcomes
<1>3. SourceInv'
  BY <1>1 DEF Begins, Only, SourceInv
<1>4. UploadInv'
  BY <1>1 DEF Begins, Only, UploadInv
<1>5. PartsInv'
  BY <1>1, SMTT(30) DEF Begins, Only, PartsInv
<1>6. PollInv'
  BY <1>1 DEF Begins, Only, PollInv
<1>7. ResultInv'
  BY <1>1, SMTT(30) DEF Begins, Only, ResultInv, IsCopied
<1> QED
  BY <1>2, <1>3, <1>4, <1>5, <1>6, <1>7 DEF CopierInv

\* The context of the copy ends.
LEMMA CopyCancelKeeps ==
  ASSUME CopierInv,
         CancelCopy
  PROVE  CopierInv'
<1> USE CopyConstants DEF Early, Over, source, CopyTypeOK, Copy
<1>1. SourceInv /\ CopyTypeOK /\ UploadInv /\ PartsInv /\ PollInv /\ ResultInv
  BY DEF CopierInv
<1>2. CopyTypeOK'
  BY <1>1 DEF CancelCopy, Only, Outcomes
<1>3. SourceInv'
  BY <1>1 DEF CancelCopy, Only, SourceInv
<1>4. UploadInv'
  BY <1>1 DEF CancelCopy, Only, UploadInv
<1>5. PartsInv'
  BY <1>1, SMTT(30) DEF CancelCopy, Only, PartsInv
<1>6. PollInv'
  BY <1>1 DEF CancelCopy, Only, PollInv
<1>7. ResultInv'
  BY <1>1 DEF CancelCopy, Only, ResultInv, IsCopied
<1> QED
  BY <1>2, <1>3, <1>4, <1>5, <1>6, <1>7 DEF CopierInv

\* StartCopyOperation: the error is set.
LEMMA ReportsKeeps ==
  ASSUME CopierInv,
         copy.pc = "returned",
         copy' = [copy EXCEPT !.pc = "set", !.opErr = copy.err],
         UNCHANGED <<source, target>>
  PROVE  CopierInv'
<1> USE CopyConstants DEF Early, Over, source, CopyTypeOK, Copy
<1>1. SourceInv /\ CopyTypeOK /\ UploadInv /\ PartsInv /\ PollInv /\ ResultInv
  BY DEF CopierInv
<1>2. CopyTypeOK'
  BY <1>1 DEF Outcomes
<1>3. SourceInv'
  BY <1>1 DEF SourceInv
<1>4. UploadInv'
  BY <1>1, SMTT(30) DEF UploadInv
<1>5. PartsInv'
  BY <1>1, SMTT(30) DEF PartsInv
<1>6. PollInv'
  BY <1>1 DEF PollInv
<1>7. ResultInv'
  BY <1>1, SMTT(30) DEF ResultInv, IsCopied
<1> QED
  BY <1>2, <1>3, <1>4, <1>5, <1>6, <1>7 DEF CopierInv

\* StartCopyOperation: Done is closed.
LEMMA ClosesKeeps ==
  ASSUME CopierInv,
         copy.pc = "set",
         copy' = [copy EXCEPT !.pc = "done"],
         UNCHANGED <<source, target>>
  PROVE  CopierInv'
<1> USE CopyConstants DEF Early, Over, source, CopyTypeOK, Copy
<1>1. SourceInv /\ CopyTypeOK /\ UploadInv /\ PartsInv /\ PollInv /\ ResultInv
  BY DEF CopierInv
<1>2. CopyTypeOK'
  BY <1>1 DEF Outcomes
<1>3. SourceInv'
  BY <1>1 DEF SourceInv
<1>4. UploadInv'
  BY <1>1 DEF UploadInv
<1>5. PartsInv'
  BY <1>1 DEF PartsInv
<1>6. PollInv'
  BY <1>1 DEF PollInv
<1>7. ResultInv'
  BY <1>1, SMTT(30) DEF ResultInv, IsCopied
<1> QED
  BY <1>2, <1>3, <1>4, <1>5, <1>6, <1>7 DEF CopierInv

\* A copy fails before it has begun at the service, or with nothing but a target
\* that nobody may rely on.
LEMMA FailsKeeps ==
  ASSUME CopierInv,
         copy.pc \in Early \ {"poll"},
         NEW e \in {"not found", "error"},
         copy' = [copy EXCEPT !.pc = "returned", !.err = e],
         UNCHANGED source,
         target' \in [len : 0 .. MaxLen, gens : SUBSET (1 .. MaxChanges), hdr : 0 .. MaxChanges]
  PROVE  CopierInv'
<1> USE CopyConstants DEF Early, Over, source, CopyTypeOK, Copy
<1>1. SourceInv /\ CopyTypeOK /\ UploadInv /\ PartsInv /\ PollInv /\ ResultInv
  BY DEF CopierInv
<1>2. copy.polls = 0 /\ copy.streak = 0
  BY <1>1 DEF PollInv
<1>3. copy'.pc = "returned" /\ copy'.polls = 0 /\ copy'.streak = 0
  BY <1>1, <1>2
<1>4. CopyTypeOK'
  BY <1>1, <1>2, <1>3 DEF Outcomes
<1>5. SourceInv'
  BY <1>1, <1>2, <1>3 DEF SourceInv
<1>6. UploadInv'
  BY <1>1, <1>2, <1>3 DEF UploadInv
<1>7. PartsInv'
  BY <1>1, <1>2, <1>3 DEF PartsInv
<1>8. PollInv'
  BY <1>1, <1>2, <1>3 DEF PollInv
<1>9. ResultInv'
  BY <1>1, <1>2, <1>3 DEF ResultInv, IsCopied
<1> QED
  BY <1>4, <1>5, <1>6, <1>7, <1>8, <1>9 DEF CopierInv

\* One request copies the blob.
LEMMA CopiedInOneKeeps ==
  ASSUME CopierInv,
         copy.pc \in {"rewrite", "single"},
         Exists(blob),
         copy' = [copy EXCEPT !.pc = "returned", !.err = "ok", !.from = blob],
         UNCHANGED source,
         target' = Snapshot
  PROVE  CopierInv'
<1> USE CopyConstants DEF Early, Over, source, CopyTypeOK, Copy
<1>1. SourceInv /\ CopyTypeOK /\ UploadInv /\ PartsInv /\ PollInv /\ ResultInv
  BY DEF CopierInv
<1>2. blob \in Blob /\ blob.gen >= 1 /\ blob.gen <= MaxChanges /\ blob.len \in Nat /\ blob.gen \in Int
  BY <1>1, SMTT(30) DEF SourceInv, Exists, Blob
<1>3. Snapshot \in [len : 0 .. MaxLen, gens : SUBSET (1 .. MaxChanges), hdr : 0 .. MaxChanges]
  BY <1>1, <1>2, SMTT(30) DEF Snapshot, SourceInv, Blob
<1>4. CopyTypeOK'
  BY <1>1, <1>2, <1>3 DEF Outcomes
<1>5. SourceInv'
  BY <1>1, <1>2, <1>3 DEF Exists, Blob, NoBlob, Snapshot, SourceInv
<1>6. UploadInv'
  BY <1>1, <1>2, <1>3, SMTT(30) DEF Exists, Blob, NoBlob, Snapshot, UploadInv
<1>7. PartsInv'
  BY <1>1, <1>2, <1>3, SMTT(30) DEF Exists, Blob, NoBlob, Snapshot, PartsInv
<1>8. PollInv'
  BY <1>1, <1>2, <1>3, SMTT(30) DEF Exists, Blob, NoBlob, Snapshot, PollInv
<1>9. ResultInv'
  BY <1>1, <1>2, <1>3, SMTT(30) DEF Exists, Blob, NoBlob, Snapshot, ResultInv, IsCopied
<1> QED
  BY <1>4, <1>5, <1>6, <1>7, <1>8, <1>9 DEF CopierInv

\* The service copies the blob at once.
LEMMA CopiedAtOnceKeeps ==
  ASSUME CopierInv,
         copy.pc = "start",
         Exists(blob),
         copy' = [copy EXCEPT !.pc = "returned", !.err = "ok", !.from = blob, !.status = "success"],
         UNCHANGED source,
         target' = Snapshot
  PROVE  CopierInv'
<1> USE CopyConstants DEF Early, Over, source, CopyTypeOK, Copy
<1>1. SourceInv /\ CopyTypeOK /\ UploadInv /\ PartsInv /\ PollInv /\ ResultInv
  BY DEF CopierInv
<1>2. blob \in Blob /\ blob.gen >= 1 /\ blob.gen <= MaxChanges /\ blob.len \in Nat /\ blob.gen \in Int
  BY <1>1, SMTT(30) DEF SourceInv, Exists, Blob
<1>3. Snapshot \in [len : 0 .. MaxLen, gens : SUBSET (1 .. MaxChanges), hdr : 0 .. MaxChanges]
  BY <1>1, <1>2, SMTT(30) DEF Snapshot, SourceInv, Blob
<1>4. CopyTypeOK'
  BY <1>1, <1>2, <1>3 DEF Outcomes
<1>5. SourceInv'
  BY <1>1, <1>2, <1>3 DEF Exists, Blob, NoBlob, Snapshot, SourceInv
<1>6. UploadInv'
  BY <1>1, <1>2, <1>3, SMTT(30) DEF Exists, Blob, NoBlob, Snapshot, UploadInv
<1>7. PartsInv'
  BY <1>1, <1>2, <1>3, SMTT(30) DEF Exists, Blob, NoBlob, Snapshot, PartsInv
<1>8. PollInv'
  BY <1>1, <1>2, <1>3 DEF Exists, Blob, NoBlob, Snapshot, PollInv
<1>9. ResultInv'
  BY <1>1, <1>2, <1>3, SMTT(30) DEF Exists, Blob, NoBlob, Snapshot, ResultInv, IsCopied
<1> QED
  BY <1>4, <1>5, <1>6, <1>7, <1>8, <1>9 DEF CopierInv

\* The size of the source decides how it is copied.
LEMMA HeadKeeps ==
  ASSUME CopierInv,
         copy.pc = "head",
         NEW pc \in {"single", "create"},
         pc = "create" => blob.len > MaxSingle,
         Exists(blob),
         copy' = [copy EXCEPT !.from = blob, !.pc = pc],
         UNCHANGED <<source, target>>
  PROVE  CopierInv'
<1> USE CopyConstants DEF Early, Over, source, CopyTypeOK, Copy
<1>1. SourceInv /\ CopyTypeOK /\ UploadInv /\ PartsInv /\ PollInv /\ ResultInv
  BY DEF CopierInv
<1>2. blob \in Blob /\ blob.gen >= 1 /\ blob.gen <= MaxChanges /\ blob.len \in Nat /\ blob.gen \in Int
  BY <1>1, SMTT(30) DEF SourceInv, Exists, Blob
<1>3. CopyTypeOK'
  BY <1>1, <1>2 DEF Outcomes
<1>4. SourceInv'
  BY <1>1, <1>2 DEF Exists, Blob, NoBlob, Snapshot, SourceInv
<1>5. UploadInv'
  BY <1>1, <1>2 DEF Exists, Blob, NoBlob, Snapshot, UploadInv
<1>6. PartsInv'
  BY <1>1, <1>2, SMTT(30) DEF Exists, Blob, NoBlob, Snapshot, PartsInv
<1>7. PollInv'
  BY <1>1, <1>2 DEF Exists, Blob, NoBlob, Snapshot, PollInv
<1>8. ResultInv'
  BY <1>1, <1>2 DEF Exists, Blob, NoBlob, Snapshot, ResultInv, IsCopied
<1> QED
  BY <1>3, <1>4, <1>5, <1>6, <1>7, <1>8 DEF CopierInv

\* A part is started.
LEMMA StartPartKeeps ==
  ASSUME CopierInv,
         NEW i \in Part,
         startPart(i)
  PROVE  CopierInv'
<1> USE CopyConstants DEF Early, Over, source, CopyTypeOK, Copy
<1>1. SourceInv /\ CopyTypeOK /\ UploadInv /\ PartsInv /\ PollInv /\ ResultInv
  BY DEF CopierInv
<1>2. CopyTypeOK'
  BY <1>1 DEF startPart, Only, Outcomes
<1>3. SourceInv'
  BY <1>1 DEF startPart, Only, SourceInv
<1>4. UploadInv'
  BY <1>1 DEF startPart, Only, UploadInv
<1>5. PartsInv'
  BY <1>1, SMTT(30) DEF startPart, Only, PartsInv
<1>6. PollInv'
  BY <1>1 DEF startPart, Only, PollInv
<1>7. ResultInv'
  BY <1>1 DEF startPart, Only, ResultInv, IsCopied
<1> QED
  BY <1>2, <1>3, <1>4, <1>5, <1>6, <1>7 DEF CopierInv

\* A part is copied.
LEMMA PartDoneKeeps ==
  ASSUME CopierInv,
         NEW i \in Part,
         copy.parts[i] = "flying",
         Exists(blob),
         copy' = [copy EXCEPT !.parts[i] = "done", !.stored = @ \cup {i}, !.gens = @ \cup {blob.gen}],
         UNCHANGED <<source, target>>
  PROVE  CopierInv'
<1> USE CopyConstants DEF Early, Over, source, CopyTypeOK, Copy
<1>1. SourceInv /\ CopyTypeOK /\ UploadInv /\ PartsInv /\ PollInv /\ ResultInv
  BY DEF CopierInv
<1>2. blob \in Blob /\ blob.gen >= 1 /\ blob.gen <= MaxChanges /\ blob.len \in Nat /\ blob.gen \in Int
  BY <1>1, SMTT(30) DEF SourceInv, Exists, Blob
<1>3. /\ copy.gens \cup {blob.gen} \subseteq 1 .. MaxChanges
       /\ copy.stored \cup {i} \subseteq Part
       /\ [copy.parts EXCEPT ![i] = "done"] \in [Part -> {"none", "todo", "flying", "done", "failed"}]
  BY <1>1, <1>2, SMTT(30)
<1>4. /\ copy'.pc = "parts" /\ copy'.from = copy.from /\ copy'.err = copy.err
       /\ copy'.gens = copy.gens \cup {blob.gen} /\ copy'.parts = [copy.parts EXCEPT ![i] = "done"]
  BY <1>1, SMTT(30) DEF UploadInv
<1>5. CopyTypeOK'
  BY <1>1, <1>2, <1>3, <1>4 DEF Outcomes
<1>6. SourceInv'
  BY <1>1, <1>2, <1>3, <1>4, SMTT(30) DEF Exists, Blob, NoBlob, Snapshot, SourceInv
<1>7. UploadInv'
  BY <1>1, <1>2, <1>3, <1>4 DEF Exists, Blob, NoBlob, Snapshot, UploadInv
<1>8. PartsInv'
  BY <1>1, <1>2, <1>3, <1>4, SMTT(30) DEF Exists, Blob, NoBlob, Snapshot, PartsInv
<1>9. PollInv'
  BY <1>1, <1>2, <1>3, <1>4, SMTT(30) DEF Exists, Blob, NoBlob, Snapshot, PollInv
<1>10. ResultInv'
  BY <1>1, <1>2, <1>3, <1>4, SMTT(30) DEF Exists, Blob, NoBlob, Snapshot, ResultInv, IsCopied
<1> QED
  BY <1>5, <1>6, <1>7, <1>8, <1>9, <1>10 DEF CopierInv

\* A part fails, or is given up on.
LEMMA PartFailedKeeps ==
  ASSUME CopierInv,
         NEW i \in Part,
         copy.parts[i] = "flying",
         NEW late \in SUBSET {i}, NEW err \in Outcomes \ {"ok"},
         copy' = [copy EXCEPT !.parts[i] = "failed", !.err = err, !.late = @ \cup late],
         UNCHANGED <<source, target>>
  PROVE  CopierInv'
<1> USE CopyConstants DEF Early, Over, source, CopyTypeOK, Copy
<1>1. SourceInv /\ CopyTypeOK /\ UploadInv /\ PartsInv /\ PollInv /\ ResultInv
  BY DEF CopierInv
<1>2. CopyTypeOK'
  BY <1>1 DEF Outcomes
<1>3. SourceInv'
  BY <1>1 DEF SourceInv
<1>4. UploadInv'
  BY <1>1, SMTT(30) DEF UploadInv
<1>5. PartsInv'
  BY <1>1, SMTT(30) DEF PartsInv
<1>6. /\ copy.pc = "parts" /\ copy'.pc = "parts" /\ copy'.polls = copy.polls /\ copy'.streak = copy.streak
      /\ copy'.status = copy.status
  BY <1>1 DEF UploadInv
<1>7. PollInv'
  BY <1>1, <1>6 DEF PollInv
<1>8. ResultInv'
  BY <1>1, <1>6 DEF ResultInv
<1> QED
  BY <1>2, <1>3, <1>4, <1>5, <1>7, <1>8 DEF CopierInv

\* A request that was given up on comes to nothing.
LEMMA ForgottenKeeps ==
  ASSUME CopierInv,
         NEW i \in copy.late,
         copy' = [copy EXCEPT !.late = @ \ {i}],
         UNCHANGED <<source, target>>
  PROVE  CopierInv'
<1> USE CopyConstants DEF Early, Over, source, CopyTypeOK, Copy
<1>1. SourceInv /\ CopyTypeOK /\ UploadInv /\ PartsInv /\ PollInv /\ ResultInv
  BY DEF CopierInv
<1>2. CopyTypeOK'
  BY <1>1 DEF Outcomes
<1>3. SourceInv'
  BY <1>1 DEF SourceInv
<1>4. UploadInv'
  BY <1>1, SMTT(30) DEF UploadInv
<1>5. PartsInv'
  BY <1>1, SMTT(30) DEF PartsInv
<1>6. PollInv'
  BY <1>1 DEF PollInv
<1>7. ResultInv'
  BY <1>1, SMTT(30) DEF ResultInv, IsCopied
<1> QED
  BY <1>2, <1>3, <1>4, <1>5, <1>6, <1>7 DEF CopierInv

\* A request that was given up on is carried out.
LEMMA StraggledKeeps ==
  ASSUME CopierInv,
         NEW i \in copy.late,
         copy' = [copy EXCEPT !.late = @ \ {i}, !.stored = @ \cup {i},
                               !.straggled = @ \/ copy.upload # "open"],
         UNCHANGED <<source, target>>
  PROVE  CopierInv'
<1> USE CopyConstants DEF Early, Over, source, CopyTypeOK, Copy
<1>1. SourceInv /\ CopyTypeOK /\ UploadInv /\ PartsInv /\ PollInv /\ ResultInv
  BY DEF CopierInv
<1>2. (copy.straggled \/ copy.upload # "open") \in BOOLEAN
  BY <1>1
<1>3. copy.late \ {i} \subseteq Part /\ copy.stored \cup {i} \subseteq Part
  BY <1>1, SMTT(30)
<1>4. CopyTypeOK'
  BY <1>1, <1>2, <1>3 DEF Outcomes
<1>5. SourceInv'
  BY <1>1, <1>2, <1>3 DEF SourceInv
<1>6. UploadInv'
  BY <1>1, <1>2, <1>3 DEF UploadInv
<1>7. PartsInv'
  BY <1>1, <1>2, <1>3, SMTT(30) DEF PartsInv
<1>8. PollInv'
  BY <1>1, <1>2, <1>3, SMTT(30) DEF PollInv
<1>9. ResultInv'
  BY <1>1, <1>2, <1>3, SMTT(30) DEF ResultInv, IsCopied
<1> QED
  BY <1>4, <1>5, <1>6, <1>7, <1>8, <1>9 DEF CopierInv

\* All parts are over.
LEMMA WaitPartsKeeps ==
  ASSUME CopierInv,
         waitParts
  PROVE  CopierInv'
<1> USE CopyConstants DEF Early, Over, source, CopyTypeOK, Copy
<1>1. SourceInv /\ CopyTypeOK /\ UploadInv /\ PartsInv /\ PollInv /\ ResultInv
  BY SMTT(30) DEF CopierInv
<1>2. CopyTypeOK'
  BY <1>1 DEF waitParts, Only, InState, Outcomes
<1>3. SourceInv'
  BY <1>1, SMTT(30) DEF waitParts, Only, InState, SourceInv
<1>4. UploadInv'
  BY <1>1, SMTT(30) DEF waitParts, Only, InState, UploadInv
<1>5. PartsInv'
  BY <1>1, SMTT(30) DEF waitParts, Only, InState, PartsInv
<1>6. PollInv'
  BY <1>1, SMTT(30) DEF waitParts, Only, InState, PollInv
<1>7. ResultInv'
  BY <1>1, SMTT(30) DEF waitParts, Only, InState, ResultInv, IsCopied
<1> QED
  BY <1>2, <1>3, <1>4, <1>5, <1>6, <1>7, SMTT(30) DEF CopierInv

\* The upload is aborted.
LEMMA AbortedKeeps ==
  ASSUME CopierInv,
         copy.pc = "abort",
         copy' = [copy EXCEPT !.pc = "returned", !.stored = {},
                               !.upload = IF @ = "open" THEN "aborted" ELSE @],
         UNCHANGED <<source, target>>
  PROVE  CopierInv'
<1> USE CopyConstants DEF Early, Over, source, CopyTypeOK, Copy
<1>1. SourceInv /\ CopyTypeOK /\ UploadInv /\ PartsInv /\ PollInv /\ ResultInv
  BY DEF CopierInv
<1>2. CopyTypeOK'
  BY <1>1 DEF Outcomes
<1>3. SourceInv'
  BY <1>1 DEF SourceInv
<1>4. UploadInv'
  BY <1>1, SMTT(30) DEF UploadInv
<1>5. PartsInv'
  BY <1>1, SMTT(30) DEF PartsInv
<1>6. PollInv'
  BY <1>1, SMTT(30) DEF PollInv
<1>7. ResultInv'
  BY <1>1, SMTT(30) DEF ResultInv, IsCopied, PartsInv
<1> QED
  BY <1>2, <1>3, <1>4, <1>5, <1>6, <1>7 DEF CopierInv

\* The abort fails.
LEMMA AbortFailedKeeps ==
  ASSUME CopierInv,
         copy.pc = "abort",
         copy' = [copy EXCEPT !.pc = "returned", !.abortFailed = TRUE],
         UNCHANGED <<source, target>>
  PROVE  CopierInv'
<1> USE CopyConstants DEF Early, Over, source, CopyTypeOK, Copy
<1>1. SourceInv /\ CopyTypeOK /\ UploadInv /\ PartsInv /\ PollInv /\ ResultInv
  BY DEF CopierInv
<1>2. CopyTypeOK'
  BY <1>1 DEF Outcomes
<1>3. SourceInv'
  BY <1>1, SMTT(30) DEF SourceInv
<1>4. UploadInv'
  BY <1>1, SMTT(30) DEF UploadInv
<1>5. PartsInv'
  BY <1>1, SMTT(30) DEF PartsInv
<1>6. PollInv'
  BY <1>1, SMTT(30) DEF PollInv
<1>7. ResultInv'
  BY <1>1, SMTT(30) DEF ResultInv, IsCopied, PartsInv
<1> QED
  BY <1>2, <1>3, <1>4, <1>5, <1>6, <1>7 DEF CopierInv

\* The source has a URL.
LEMMA URLKeeps ==
  ASSUME CopierInv,
         copy.pc = "url",
         copy' = [copy EXCEPT !.pc = "start"],
         UNCHANGED <<source, target>>
  PROVE  CopierInv'
<1> USE CopyConstants DEF Early, Over, source, CopyTypeOK, Copy
<1>1. SourceInv /\ CopyTypeOK /\ UploadInv /\ PartsInv /\ PollInv /\ ResultInv
  BY DEF CopierInv
<1>2. CopyTypeOK'
  BY <1>1 DEF Outcomes
<1>3. SourceInv'
  BY <1>1, SMTT(30) DEF SourceInv
<1>4. UploadInv'
  BY <1>1, SMTT(30) DEF UploadInv
<1>5. PartsInv'
  BY <1>1, SMTT(30) DEF PartsInv
<1>6. PollInv'
  BY <1>1, SMTT(30) DEF PollInv
<1>7. ResultInv'
  BY <1>1, SMTT(30) DEF ResultInv, IsCopied
<1> QED
  BY <1>2, <1>3, <1>4, <1>5, <1>6, <1>7 DEF CopierInv

\* The service takes a copy on.
LEMMA PendingKeeps ==
  ASSUME CopierInv,
         copy.pc = "start",
         driver = "azure",
         Exists(blob),
         copy' = [copy EXCEPT !.pc = "poll", !.from = blob, !.status = "pending"],
         UNCHANGED <<source, target>>
  PROVE  CopierInv'
<1> USE CopyConstants DEF Early, Over, source, CopyTypeOK, Copy
<1>1. SourceInv /\ CopyTypeOK /\ UploadInv /\ PartsInv /\ PollInv /\ ResultInv
  BY DEF CopierInv
<1>2. blob \in Blob /\ blob.gen >= 1 /\ blob.gen <= MaxChanges /\ blob.len \in Nat /\ blob.gen \in Int
  BY <1>1, SMTT(30) DEF SourceInv, Exists, Blob
<1>3. CopyTypeOK'
  BY <1>1, <1>2 DEF Outcomes
<1>4. SourceInv'
  BY <1>1, <1>2 DEF Exists, Blob, NoBlob, Snapshot, SourceInv
<1>5. UploadInv'
  BY <1>1, <1>2, SMTT(30) DEF Exists, Blob, NoBlob, Snapshot, UploadInv
<1>6. PartsInv'
  BY <1>1, <1>2, SMTT(30) DEF Exists, Blob, NoBlob, Snapshot, PartsInv
<1>7. PollInv'
  BY <1>1, <1>2, SMTT(30) DEF Exists, Blob, NoBlob, Snapshot, PollInv
<1>8. ResultInv'
  BY <1>1, <1>2 DEF Exists, Blob, NoBlob, Snapshot, ResultInv, IsCopied
<1> QED
  BY <1>3, <1>4, <1>5, <1>6, <1>7, <1>8, SMTT(30) DEF CopierInv

\* The service takes a copy on, and the answer is lost.
LEMMA PendingLostKeeps ==
  ASSUME CopierInv,
         copy.pc = "start",
         driver = "azure",
         Exists(blob),
         copy' = [copy EXCEPT !.pc = "returned", !.err = "error", !.from = blob, !.status = "pending"],
         UNCHANGED <<source, target>>
  PROVE  CopierInv'
<1> USE CopyConstants DEF Early, Over, source, CopyTypeOK, Copy
<1>1. SourceInv /\ CopyTypeOK /\ UploadInv /\ PartsInv /\ PollInv /\ ResultInv
  BY DEF CopierInv
<1>2. blob \in Blob /\ blob.gen >= 1 /\ blob.gen <= MaxChanges /\ blob.len \in Nat /\ blob.gen \in Int
  BY <1>1, SMTT(30) DEF SourceInv, Exists, Blob
<1>3. CopyTypeOK'
  BY <1>1, <1>2 DEF Outcomes
<1>4. SourceInv'
  BY <1>1, <1>2 DEF Exists, Blob, NoBlob, Snapshot, SourceInv
<1>5. UploadInv'
  BY <1>1, <1>2, SMTT(30) DEF Exists, Blob, NoBlob, Snapshot, UploadInv
<1>6. PartsInv'
  BY <1>1, <1>2 DEF Exists, Blob, NoBlob, Snapshot, PartsInv
<1>7. PollInv'
  BY <1>1, <1>2 DEF Exists, Blob, NoBlob, Snapshot, PollInv
<1>8. ResultInv'
  BY <1>1, <1>2 DEF Exists, Blob, NoBlob, Snapshot, ResultInv, IsCopied
<1> QED
  BY <1>3, <1>4, <1>5, <1>6, <1>7, <1>8 DEF CopierInv

\* The service comes to the end of a copy.
LEMMA ServiceSucceedsKeeps ==
  ASSUME CopierInv,
         copy.status = "pending",
         blob.gen = copy.from.gen,
         copy' = [copy EXCEPT !.status = "success"],
         target' = Snapshot,
         UNCHANGED source
  PROVE  CopierInv'
<1> USE CopyConstants DEF Early, Over, source, CopyTypeOK, Copy
<1>1. SourceInv /\ CopyTypeOK /\ UploadInv /\ PartsInv /\ PollInv /\ ResultInv
  BY DEF CopierInv
<1>2. blob \in Blob /\ blob.gen >= 1 /\ blob.gen <= MaxChanges /\ blob.len \in Nat /\ blob.gen \in Int
  BY <1>1, SMTT(30) DEF SourceInv, Blob, ResultInv
<1>3. Snapshot \in [len : 0 .. MaxLen, gens : SUBSET (1 .. MaxChanges), hdr : 0 .. MaxChanges]
  BY <1>1, <1>2, SMTT(30) DEF Snapshot, SourceInv, Blob
<1>4. CopyTypeOK'
  BY <1>1, <1>2, <1>3 DEF Outcomes
<1>5. SourceInv'
  BY <1>1, <1>2, <1>3 DEF Exists, Blob, NoBlob, Snapshot, SourceInv
<1>6. UploadInv'
  BY <1>1, <1>2, <1>3, SMTT(30) DEF Exists, Blob, NoBlob, Snapshot, UploadInv
<1>7. PartsInv'
  BY <1>1, <1>2, <1>3, SMTT(30) DEF Exists, Blob, NoBlob, Snapshot, PartsInv
<1>8. PollInv'
  BY <1>1, <1>2, <1>3 DEF Exists, Blob, NoBlob, Snapshot, PollInv
<1>9. ResultInv'
  BY <1>1, <1>2, <1>3, SMTT(30) DEF Exists, Blob, NoBlob, Snapshot, ResultInv, IsCopied, SourceInv
<1> QED
  BY <1>4, <1>5, <1>6, <1>7, <1>8, <1>9 DEF CopierInv

\* The service gives up on a copy.
LEMMA ServiceFailsKeeps ==
  ASSUME CopierInv,
         copy.status = "pending",
         copy' = [copy EXCEPT !.status = "failed"],
         UNCHANGED <<source, target>>
  PROVE  CopierInv'
<1> USE CopyConstants DEF Early, Over, source, CopyTypeOK, Copy
<1>1. SourceInv /\ CopyTypeOK /\ UploadInv /\ PartsInv /\ PollInv /\ ResultInv
  BY DEF CopierInv
<1>2. CopyTypeOK'
  BY <1>1 DEF Outcomes
<1>3. SourceInv'
  BY <1>1 DEF SourceInv
<1>4. UploadInv'
  BY <1>1, SMTT(30) DEF UploadInv
<1>5. PartsInv'
  BY <1>1, SMTT(30) DEF PartsInv
<1>6. PollInv'
  BY <1>1 DEF PollInv
<1>7. ResultInv'
  BY <1>1 DEF ResultInv, IsCopied
<1> QED
  BY <1>2, <1>3, <1>4, <1>5, <1>6, <1>7, SMTT(30) DEF CopierInv

\* A poll fails.
LEMMA PollFailsKeeps ==
  ASSUME CopierInv,
         copy.pc = "poll",
         PollFails
  PROVE  CopierInv'
<1> USE CopyConstants DEF Early, Over, source, CopyTypeOK, Copy
<1>1. SourceInv /\ CopyTypeOK /\ UploadInv /\ PartsInv /\ PollInv /\ ResultInv
  BY DEF CopierInv
<1>2. copy.polls + 1 \in 0 .. MaxPollErrors /\ copy.streak + 1 \in 0 .. MaxPollErrors
  BY <1>1, SMTT(30) DEF PollInv
<1>3. CopyTypeOK'
  BY <1>1, <1>2 DEF PollFails, Outcomes
<1>4. SourceInv'
  BY <1>1, <1>2 DEF PollFails, SourceInv
<1>5. UploadInv'
  BY <1>1, <1>2 DEF PollFails, UploadInv
<1>6. PartsInv'
  BY <1>1, <1>2, SMTT(30) DEF PollFails, PartsInv
<1>7. PollInv'
  BY <1>1, <1>2, SMTT(30) DEF PollFails, PollInv
<1>8. ResultInv'
  BY <1>1, <1>2 DEF PollFails, ResultInv, IsCopied
<1> QED
  BY <1>3, <1>4, <1>5, <1>6, <1>7, <1>8 DEF CopierInv

\* A poll finds the copy under way.
LEMMA PolledKeeps ==
  ASSUME CopierInv,
         copy.pc = "poll",
         copy' = [copy EXCEPT !.polls = 0, !.streak = 0],
         UNCHANGED <<source, target>>
  PROVE  CopierInv'
<1> USE CopyConstants DEF Early, Over, source, CopyTypeOK, Copy
<1>1. SourceInv /\ CopyTypeOK /\ UploadInv /\ PartsInv /\ PollInv /\ ResultInv
  BY DEF CopierInv
<1>2. 0 \in 0 .. MaxPollErrors
  BY CopyConstants, SMTT(30)
<1>3. CopyTypeOK'
  BY <1>1, <1>2 DEF Outcomes
<1>4. SourceInv'
  BY <1>1, <1>2 DEF SourceInv
<1>5. UploadInv'
  BY <1>1, <1>2 DEF UploadInv
<1>6. PartsInv'
  BY <1>1, <1>2 DEF PartsInv
<1>7. PollInv'
  BY <1>1, <1>2, SMTT(30) DEF PollInv
<1>8. ResultInv'
  BY <1>1, <1>2 DEF ResultInv, IsCopied
<1> QED
  BY <1>3, <1>4, <1>5, <1>6, <1>7, <1>8 DEF CopierInv

\* A poll finds the copy done.
LEMMA PolledSuccessKeeps ==
  ASSUME CopierInv,
         copy.pc = "poll",
         copy.status = "success",
         copy' = [copy EXCEPT !.pc = "returned", !.err = "ok"],
         UNCHANGED <<source, target>>
  PROVE  CopierInv'
<1> USE CopyConstants DEF Early, Over, source, CopyTypeOK, Copy
<1>1. SourceInv /\ CopyTypeOK /\ UploadInv /\ PartsInv /\ PollInv /\ ResultInv
  BY DEF CopierInv
<1>2. CopyTypeOK'
  BY <1>1 DEF Outcomes
<1>3. SourceInv'
  BY <1>1 DEF SourceInv
<1>4. UploadInv'
  BY <1>1 DEF UploadInv
<1>5. PartsInv'
  BY <1>1 DEF PartsInv
<1>6. PollInv'
  BY <1>1 DEF PollInv
<1>7. ResultInv'
  BY <1>1 DEF ResultInv, IsCopied
<1> QED
  BY <1>2, <1>3, <1>4, <1>5, <1>6, <1>7 DEF CopierInv

\* A poll finds the copy failed, or the context ends.
LEMMA PollStopsKeeps ==
  ASSUME CopierInv,
         copy.pc = "poll",
         copy.status = "failed" \/ copy.cancelled,
         copy' = [copy EXCEPT !.pc = "returned", !.err = "error"],
         UNCHANGED <<source, target>>
  PROVE  CopierInv'
<1> USE CopyConstants DEF Early, Over, source, CopyTypeOK, Copy
<1>1. SourceInv /\ CopyTypeOK /\ UploadInv /\ PartsInv /\ PollInv /\ ResultInv
  BY DEF CopierInv
<1>2. CopyTypeOK'
  BY <1>1 DEF Outcomes
<1>3. SourceInv'
  BY <1>1 DEF SourceInv
<1>4. UploadInv'
  BY <1>1 DEF UploadInv
<1>5. PartsInv'
  BY <1>1 DEF PartsInv
<1>6. PollInv'
  BY <1>1 DEF PollInv
<1>7. ResultInv'
  BY <1>1 DEF ResultInv, IsCopied
<1> QED
  BY <1>2, <1>3, <1>4, <1>5, <1>6, <1>7 DEF CopierInv

\* Rewrite and CopyObject (gcs/crosscopy.go:29-40, s3/crosscopy.go:78-93).
LEMMA CopyInOneKeeps ==
  ASSUME CopierInv, NEW fits \in BOOLEAN, copy.pc \in {"rewrite", "single"}, CopyInOne(fits)
  PROVE  CopierInv'
<1> USE DEF source
<1>1. copy.pc \in Early \ {"poll"} /\ copy.status = "none" /\ copy \in Copy
  BY DEF CopierInv, ResultInv, Early, Over, CopyTypeOK
<1>2. target \in [len : 0 .. MaxLen, gens : SUBSET (1 .. MaxChanges), hdr : 0 .. MaxChanges]
  BY DEF CopierInv, CopyTypeOK
<1>3. Exists(blob) => Snapshot \in [len : 0 .. MaxLen, gens : SUBSET (1 .. MaxChanges), hdr : 0 .. MaxChanges]
  BY CopyConstants, SMTT(30) DEF CopierInv, SourceInv, Snapshot, Blob
<1>4. CASE Exists(blob) /\ target' = Snapshot /\ copy' = [Ends("200") EXCEPT !.from = blob] /\ UNCHANGED source
  <2>1. copy' = [copy EXCEPT !.pc = "returned", !.err = "ok", !.from = blob]
    BY <1>1, <1>4, MapsAnswers DEF Ends, Copy
  <2> QED
    BY <1>4, <2>1, CopiedInOneKeeps
<1>5. CASE Exists(blob) /\ target' = Snapshot /\ copy' = Ends("none") /\ UNCHANGED source
  <2>1. copy' = [copy EXCEPT !.pc = "returned", !.err = "error"]
    BY <1>5, MapsAnswers DEF Ends
  <2> QED
    BY <1>1, <1>3, <1>5, <2>1, FailsKeeps
<1>6. CASE (copy' = Ends("404") \/ copy' = Ends("400") \/ copy' = Ends("none")) /\ UNCHANGED <<source, target>>
  <2>1. PICK e \in {"not found", "error"} : copy' = [copy EXCEPT !.pc = "returned", !.err = e]
    BY <1>6, MapsAnswers DEF Ends
  <2> QED
    BY <1>1, <1>2, <1>6, <2>1, FailsKeeps
<1> QED
  BY <1>4, <1>5, <1>6 DEF CopyInOne, Only

\* run: HEAD of the source (s3/crosscopy.go:61-73).
LEMMA HeadObjectKeeps ==
  ASSUME CopierInv, headObject
  PROVE  CopierInv'
<1> USE DEF source
<1>1. copy.pc = "head" /\ copy.pc \in Early \ {"poll"}
  BY DEF headObject, Early
<1>2. target \in [len : 0 .. MaxLen, gens : SUBSET (1 .. MaxChanges), hdr : 0 .. MaxChanges]
  BY DEF CopierInv, CopyTypeOK
<1>3. CASE (copy' = Ends("404") \/ copy' = Ends("none")) /\ UNCHANGED <<source, target>>
  <2>1. PICK e \in {"not found", "error"} : copy' = [copy EXCEPT !.pc = "returned", !.err = e]
    BY <1>3, MapsAnswers DEF Ends
  <2> QED
    BY <1>1, <1>2, <1>3, <2>1, FailsKeeps
<1>4. CASE /\ Exists(blob) /\ UNCHANGED <<source, target>>
           /\ copy' = [copy EXCEPT !.from = blob,
                         !.pc = IF blob.len <= MaxSingle THEN "single" ELSE "create"]
  <2> DEFINE pc == IF blob.len <= MaxSingle THEN "single" ELSE "create"
  <2>1. blob.len \in Nat
    BY SMTT(30) DEF CopierInv, SourceInv, Blob
  <2>2. pc \in {"single", "create"} /\ (pc = "create" => blob.len > MaxSingle)
    BY <2>1, CopyConstants, SMTT(30)
  <2>3. copy' = [copy EXCEPT !.from = blob, !.pc = pc]
    BY <1>4
  <2> HIDE DEF pc
  <2> QED
    BY <1>1, <1>4, <2>2, <2>3, HeadKeeps
<1> QED
  BY <1>3, <1>4 DEF headObject, Only

\* A part is copied, fails or is given up on (s3/crosscopy.go:118-147).
LEMMA UploadPartKeeps ==
  ASSUME CopierInv, NEW i \in Part, uploadPartCopy(i)
  PROVE  CopierInv'
<1>1. copy.parts[i] = "flying" /\ UNCHANGED <<source, target>> /\ copy.late \cup {} = copy.late /\ copy \in Copy
  BY DEF uploadPartCopy, CopierInv, CopyTypeOK
<1>2. CASE /\ PartIsThere(i)
           /\ copy' = [copy EXCEPT !.parts[i] = "done", !.stored = @ \cup {i}, !.gens = @ \cup {blob.gen}]
  BY <1>1, <1>2, PartDoneKeeps DEF PartIsThere
<1>3. ASSUME NEW answer \in {"none", "404", "416"},
             \/ copy' = PartFails(i, answer)
             \/ copy' = [PartFails(i, answer) EXCEPT !.late = @ \cup {i}]
      PROVE  CopierInv'
  <2>1. PICK err \in Outcomes \ {"ok"} : PartFails(i, answer) = [copy EXCEPT !.parts[i] = "failed", !.err = err]
    <3>1. CASE InState("failed") = {}
      <4>1. mapError(answer) \in Outcomes \ {"ok"}
        BY MapsAnswers DEF Outcomes
      <4> QED
        BY <3>1, <4>1 DEF PartFails
    <3>2. CASE InState("failed") # {}
      <4>1. copy.pc = "parts"
        BY <1>1 DEF CopierInv, UploadInv
      <4>2. copy.err \in Outcomes \ {"ok"}
        BY <1>1, <3>2, <4>1 DEF CopierInv, PartsInv, InState, Copy
      <4>3. PartFails(i, answer) = [copy EXCEPT !.parts[i] = "failed", !.err = copy.err]
        BY <1>1, <3>2 DEF PartFails
      <4> QED
        BY <4>2, <4>3
    <3> QED
      BY <3>1, <3>2
  <2>2. CASE copy' = PartFails(i, answer)
    <3> DEFINE fails == [copy EXCEPT !.parts[i] = "failed", !.err = err]
    <3>0. fails = [fails EXCEPT !.late = copy.late]
      <4>1. fails = [f \in DOMAIN copy |-> fails[f]] /\ fails.late = copy.late
        BY <1>1 DEF Copy
      <4> HIDE DEF fails
      <4> QED
        BY <1>1, <4>1, SMTT(30) DEF Copy
    <3>1. copy' = [copy EXCEPT !.parts[i] = "failed", !.err = err, !.late = @ \cup {}]
      BY <1>1, <2>1, <2>2, <3>0
    <3>2. {} \in SUBSET {i}
      OBVIOUS
    <3> QED
      BY <1>1, <3>1, <3>2, PartFailedKeeps
  <2>3. CASE copy' = [PartFails(i, answer) EXCEPT !.late = @ \cup {i}]
    <3>1. copy' = [copy EXCEPT !.parts[i] = "failed", !.err = err, !.late = @ \cup {i}]
      BY <1>1, <2>1, <2>3 DEF Copy
    <3> QED
      BY <1>1, <3>1, PartFailedKeeps
  <2> QED
    BY <1>3, <2>2, <2>3
<1> QED
  BY <1>2, <1>3 DEF uploadPartCopy

\* The upload is created, and the parts are laid out (s3/crosscopy.go:107-116).
LEMMA CreateKeeps ==
  ASSUME CopierInv, createMultipartUpload
  PROVE  CopierInv'
<1> USE CopyConstants DEF Early, Over, source, CopyTypeOK, Copy
<1>1. SourceInv /\ CopyTypeOK /\ UploadInv /\ PartsInv /\ PollInv /\ ResultInv
  BY SMTT(30) DEF CopierInv
<1>2. copy.pc = "create" /\ UNCHANGED <<source, target>> /\ copy.from.len \in Nat \ {0}
  BY <1>1, SMTT(30) DEF createMultipartUpload, PartsInv, Blob
<1>3. copy.polls = 0 /\ copy.streak = 0
  BY <1>1, <1>2 DEF PollInv
<1>4. CASE copy' = [copy EXCEPT !.pc = "parts", !.upload = "open", !.parts = Split(copy.from.len)]
  <2>1. /\ Split(copy.from.len) \in [Part -> {"none", "todo", "flying", "done", "failed"}]
        /\ \A i \in Part : Split(copy.from.len)[i] \in {"none", "todo"}
    BY DEF Split
  <2>2. Split(copy.from.len)[0] # "none"
    BY <1>2, PartsFit, SMTT(30) DEF Split
  <2>3. /\ copy'.pc = "parts" /\ copy'.parts = Split(copy.from.len) /\ copy'.gens = copy.gens
        /\ copy'.polls = 0 /\ copy'.streak = 0 /\ copy'.from = copy.from /\ copy'.status = copy.status
    BY <1>1, <1>3, <1>4
  <2>4. CopyTypeOK'
    BY <1>1, <1>2, <1>4, <2>1
  <2>5. SourceInv' /\ UploadInv'
    BY <1>1, <1>2, <2>1, <2>3, SMTT(30) DEF SourceInv, UploadInv
  <2>6. PartsInv'
    BY <1>1, <1>2, <2>1, <2>2, <2>3 DEF PartsInv
  <2>7. PollInv'
    BY <1>1, <2>3 DEF PollInv
  <2>8. ResultInv'
    BY <1>1, <1>2, <2>3 DEF ResultInv, IsCopied
  <2> QED
    BY <2>4, <2>5, <2>6, <2>7, <2>8 DEF CopierInv
<1>5. CASE copy' = Ends("none")
  <2>1. copy' = [copy EXCEPT !.pc = "returned", !.err = "error"]
    BY <1>5, MapsAnswers DEF Ends
  <2> QED
    BY <1>1, <1>2, <2>1, FailsKeeps
<1>6. CASE copy' = [Ends("none") EXCEPT !.upload = "open"]
  <2>1. copy' = [copy EXCEPT !.pc = "returned", !.err = "error", !.upload = "open"]
    BY <1>1, <1>6, MapsAnswers DEF Ends
  <2>2. /\ copy'.pc = "returned" /\ copy'.err = "error" /\ copy'.polls = 0 /\ copy'.streak = 0
        /\ copy'.status = copy.status
    BY <1>1, <1>3, <2>1
  <2>3. CopyTypeOK'
    BY <1>1, <1>2, <2>1 DEF Outcomes
  <2>4. SourceInv' /\ UploadInv' /\ PartsInv'
    BY <1>1, <1>2, <2>1, SMTT(30) DEF SourceInv, UploadInv, PartsInv
  <2>5. PollInv' /\ ResultInv'
    BY <1>1, <1>2, <2>2, SMTT(30) DEF PollInv, ResultInv
  <2> QED
    BY <2>3, <2>4, <2>5 DEF CopierInv
<1> QED
  BY <1>4, <1>5, <1>6 DEF createMultipartUpload

\* The parts are assembled (s3/crosscopy.go:153-161): the target is as long as the
\* source, and if that is still the version that was read, it is all of that one.
LEMMA CompleteKeeps ==
  ASSUME CopierInv, completeMultipartUpload
  PROVE  CopierInv'
<1> USE CopyConstants DEF Early, Over, source, CopyTypeOK, Copy
<1>1. SourceInv /\ CopyTypeOK /\ UploadInv /\ PartsInv /\ PollInv /\ ResultInv
  BY SMTT(30) DEF CopierInv
<1>2. copy.pc = "complete" /\ UNCHANGED source /\ copy.from.len \in Nat \ {0}
  <2>1. copy.pc = "complete" /\ UNCHANGED source
    BY DEF completeMultipartUpload
  <2> QED
    BY <1>1, <2>1, SMTT(30) DEF PartsInv, Blob
<1>3. copy.polls = 0 /\ copy.streak = 0 /\ copy.status = "none"
  BY <1>1, <1>2 DEF PollInv, ResultInv
<1>4. copy.gens # {} /\ (blob.gen = copy.from.gen => copy.gens = {copy.from.gen})
  <2>1. copy.parts[0] = "done"
    BY <1>1, <1>2 DEF PartsInv
  <2>2. copy.gens # {}
    BY <1>1, <2>1 DEF PartsInv
  <2> QED
    BY <1>1, <1>2, <2>2, SMTT(30) DEF PartsInv
<1>5. Assembled = [len |-> copy.from.len, gens |-> copy.gens, hdr |-> copy.from.hdr]
  <2>1. partEnd(copy.from.len, partCount(copy.from.len) - 1) + 1 = copy.from.len
    BY <1>2, PartsFit, SMTT(30)
  <2> QED
    BY <2>1 DEF Assembled
<1>6. Assembled \in [len : 0 .. MaxLen, gens : SUBSET (1 .. MaxChanges), hdr : 0 .. MaxChanges]
  BY <1>1, <1>5 DEF Blob
<1>7. CASE target' = Assembled /\ copy' = [Completed EXCEPT !.pc = "returned", !.err = "ok"]
  <2>1. copy' = [copy EXCEPT !.upload = "completed", !.stored = {}, !.pc = "returned", !.err = "ok"]
    BY <1>1, <1>7, SMTT(30) DEF Completed
  <2>2. /\ copy'.pc = "returned" /\ copy'.err = "ok" /\ copy'.polls = 0 /\ copy'.streak = 0
        /\ copy'.status = "none" /\ copy'.upload = "completed" /\ copy'.from = copy.from
        /\ copy'.stored = {} /\ copy'.gens = copy.gens /\ copy'.parts = copy.parts
    BY <1>1, <1>3, <2>1
  <2>3. CopyTypeOK'
    BY <1>1, <1>6, <1>7, <2>1 DEF Outcomes
  <2>4. SourceInv' /\ UploadInv' /\ PartsInv'
    BY <1>1, <1>2, <2>2, SMTT(30) DEF SourceInv, UploadInv, PartsInv
  <2>5. PollInv'
    BY <2>2 DEF PollInv
  <2>6. ResultInv'
    <3>1. target'.len = copy'.from.len /\ target'.hdr = copy'.from.hdr /\ target'.gens = copy.gens
      BY <1>5, <1>7, <2>2, SMTT(30)
    <3>2. copy'.from.gen >= 1 /\ blob' = blob
      BY <1>1, <1>2, <2>2, SMTT(30) DEF PartsInv
    <3> QED
      BY <1>4, <2>2, <3>1, <3>2 DEF ResultInv, IsCopied
  <2> QED
    BY <2>3, <2>4, <2>5, <2>6 DEF CopierInv
<1>8. CASE target' = Assembled /\ copy' = [Completed EXCEPT !.pc = "abort", !.err = "error"]
  <2>1. copy' = [copy EXCEPT !.upload = "completed", !.stored = {}, !.pc = "abort", !.err = "error"]
    BY <1>1, <1>8 DEF Completed
  <2>2. CopyTypeOK'
    BY <1>1, <1>6, <1>8, <2>1 DEF Outcomes
  <2>3. SourceInv' /\ UploadInv' /\ PartsInv'
    BY <1>1, <1>2, <2>1, SMTT(30) DEF SourceInv, UploadInv, PartsInv
  <2>4. PollInv' /\ ResultInv'
    BY <1>1, <1>2, <1>3, <2>1, SMTT(30) DEF PollInv, ResultInv
  <2> QED
    BY <2>2, <2>3, <2>4, SMTT(30) DEF CopierInv
<1>9. ASSUME UNCHANGED target, NEW err \in Outcomes \ {"ok"}, copy' = [copy EXCEPT !.pc = "abort", !.err = err]
      PROVE  CopierInv'
  <2>1. CopyTypeOK'
    BY <1>1, <1>9
  <2>2. SourceInv' /\ UploadInv' /\ PartsInv'
    BY <1>1, <1>2, <1>9, SMTT(30) DEF SourceInv, UploadInv, PartsInv
  <2>3. PollInv' /\ ResultInv'
    BY <1>1, <1>2, <1>3, <1>9 DEF PollInv, ResultInv
  <2> QED
    BY <2>1, <2>2, <2>3, SMTT(30) DEF CopierInv
<1> QED
  BY <1>7, <1>8, <1>9, MapsAnswers DEF completeMultipartUpload

\* The signed URL, and the request to copy from it (azureblob/crosscopy.go:43-60,
\* 131-148).
LEMMA StartCopyFromURLKeeps ==
  ASSUME CopierInv, sourceURL \/ startCopyFromURL
  PROVE  CopierInv'
<1> USE DEF source
<1>1. copy.pc \in {"url", "start"} /\ copy.pc \in Early \ {"poll"} /\ copy \in Copy
  BY DEF sourceURL, startCopyFromURL, Early, CopierInv, CopyTypeOK
<1>2. /\ target \in [len : 0 .. MaxLen, gens : SUBSET (1 .. MaxChanges), hdr : 0 .. MaxChanges]
      /\ driver = "azure"
  BY <1>1 DEF CopierInv, CopyTypeOK, ResultInv
<1>3. CASE copy.pc = "url" /\ copy' = [copy EXCEPT !.pc = "start"] /\ UNCHANGED <<source, target>>
  BY <1>3, URLKeeps
<1>4. CASE (copy' = Ends("404") \/ copy' = Ends("none")) /\ UNCHANGED <<source, target>>
  <2>1. PICK e \in {"not found", "error"} : copy' = [copy EXCEPT !.pc = "returned", !.err = e]
    BY <1>4, MapsAnswers DEF Ends
  <2> QED
    BY <1>1, <1>2, <1>4, <2>1, FailsKeeps
<1>5. CASE /\ copy.pc = "start" /\ Exists(blob) /\ target' = Snapshot /\ UNCHANGED source
           /\ copy' = [Ends("200") EXCEPT !.from = blob, !.status = "success"]
  <2>1. copy' = [copy EXCEPT !.pc = "returned", !.err = "ok", !.from = blob, !.status = "success"]
    BY <1>1, <1>5, MapsAnswers DEF Ends, Copy
  <2> QED
    BY <1>5, <2>1, CopiedAtOnceKeeps
<1>6. CASE /\ copy.pc = "start" /\ Exists(blob) /\ UNCHANGED <<source, target>>
           /\ copy' = [copy EXCEPT !.pc = "poll", !.from = blob, !.status = "pending"]
  BY <1>2, <1>6, PendingKeeps
<1>7. CASE /\ copy.pc = "start" /\ Exists(blob) /\ UNCHANGED <<source, target>>
           /\ copy' = [Ends("none") EXCEPT !.from = blob, !.status = "pending"]
  <2>1. copy' = [copy EXCEPT !.pc = "returned", !.err = "error", !.from = blob, !.status = "pending"]
    BY <1>1, <1>7, MapsAnswers DEF Ends, Copy
  <2> QED
    BY <1>2, <1>7, <2>1, PendingLostKeeps
<1> QED
  BY <1>3, <1>4, <1>5, <1>6, <1>7 DEF sourceURL, startCopyFromURL, Only

\* One round of the poll loop (azureblob/crosscopy.go:71-101).
LEMMA PollKeeps ==
  ASSUME CopierInv, pollCopyStatus
  PROVE  CopierInv'
<1>1. copy.pc = "poll"
  BY DEF pollCopyStatus
<1>2. CASE PollFails
  BY <1>1, <1>2, PollFailsKeeps
<1>3. CASE Polled(0)
  <2>1. UNCHANGED <<source, target>>
    BY <1>3 DEF Polled, Only
  <2>2. CASE copy.status = "success"
    <3>1. copy' = [copy EXCEPT !.pc = "returned", !.err = "ok"]
      BY <1>3, <2>2, MapsAnswers DEF Polled, Only, Ends
    <3> QED
      BY <1>1, <2>1, <2>2, <3>1, PolledSuccessKeeps
  <2>3. CASE copy.status = "pending" /\ ~copy.cancelled
    <3>1. copy' = [copy EXCEPT !.polls = 0, !.streak = 0]
      BY <1>3, <2>3, SMTT(30) DEF Polled, Only
    <3> QED
      BY <1>1, <2>1, <3>1, PolledKeeps
  <2>4. CASE copy.status = "pending" /\ copy.cancelled
    <3>1. copy' = [copy EXCEPT !.pc = "returned", !.err = "error"]
      BY <1>3, <2>4, MapsAnswers DEF Polled, Only, Ends
    <3> QED
      BY <1>1, <2>1, <2>4, <3>1, PollStopsKeeps, SMTT(30)
  <2>5. CASE copy.status = "failed"
    <3>1. copy' = [copy EXCEPT !.pc = "returned", !.err = "error"]
      BY <1>3, <2>5, MapsAnswers DEF Polled, Only, Ends
    <3> QED
      BY <1>1, <2>1, <2>5, <3>1, PollStopsKeeps
  <2>6. copy.status \in {"success", "pending", "failed"}
    BY <1>1 DEF CopierInv, CopyTypeOK, Copy, ResultInv
  <2> QED
    BY <2>2, <2>3, <2>4, <2>5, <2>6
<1> QED
  BY <1>2, <1>3 DEF pollCopyStatus

-----------------------------------------------------------------------------
(* The others, and the theorems.                                           *)

\* Others write, delete or retag the source (CloudStore's Others): the body number
\* of a write is new, so the version that was read first does not come back.
LEMMA ElsewhereKeeps ==
  ASSUME CopierInv, Others, UNCHANGED <<copy, target>>
  PROVE  CopierInv'
<1> USE CopyConstants DEF CopyTypeOK, Copy
<1>1. SourceInv /\ CopyTypeOK /\ UploadInv /\ PartsInv /\ PollInv /\ ResultInv
  BY DEF CopierInv
<1>2. /\ blob' \in Blob /\ changes' \in 0 .. MaxChanges /\ driver' = driver /\ changes <= changes'
      /\ blob'.gen <= changes'
      /\ Exists(blob') => blob'.gen >= 1
      /\ \/ blob'.gen = 0
         \/ blob'.gen > changes
         \/ /\ blob'.gen = blob.gen /\ blob'.len = blob.len /\ blob.gen >= 1
            /\ driver # "s3" => blob'.hdr = blob.hdr
  <2>1. CASE \E len \in 0 .. MaxLen : Spare /\ Store(len)
    BY <1>1, <2>1, SMTT(30) DEF SourceInv, Blob, Store, Spare, Room, Exists, NoBlob, Others
  <2>2. CASE Exists(blob) /\ Remove
    BY <1>1, <2>2, SMTT(30) DEF SourceInv, Blob, Remove, Exists, NoBlob, Others
  <2>3. CASE /\ Exists(blob) /\ Spare
             /\ \E hdr \in 1 .. blob.hdr : (driver # "s3" => hdr = blob.hdr) /\ Retag(hdr)
    <3>1. PICK hdr \in 1 .. blob.hdr : (driver # "s3" => hdr = blob.hdr) /\ Retag(hdr)
      BY <2>3
    <3>2. blob' = [blob EXCEPT !.rev = changes + 1, !.hdr = hdr] /\ changes' = changes + 1 /\ changes < MaxChanges
      BY <3>1 DEF Retag, Room
    <3>3. blob.gen >= 1 /\ blob \in Blob /\ blob.gen <= changes /\ changes \in 0 .. MaxChanges
      BY <1>1, <2>3, SMTT(30) DEF SourceInv
    <3>4. hdr \in 0 .. MaxChanges /\ changes + 1 \in 0 .. MaxChanges
      BY <3>2, <3>3, SMTT(30) DEF Blob
    <3>5. blob' \in Blob /\ blob'.gen = blob.gen /\ blob'.len = blob.len /\ blob'.hdr = hdr
      BY <3>2, <3>3, <3>4 DEF Blob
    <3> QED
      BY <3>1, <3>2, <3>3, <3>5, SMTT(30) DEF Others, Blob
  <2> QED
    BY <2>1, <2>2, <2>3 DEF Others
<1>3. copy.from.gen \in Nat /\ copy.from.gen <= changes /\ blob.gen \in Nat /\ blob'.gen \in Nat
  BY <1>1, <1>2, SMTT(30) DEF SourceInv, Blob
<1>4. copy.from.gen >= 1 /\ blob'.gen = copy.from.gen =>
        /\ blob.gen = copy.from.gen /\ blob'.len = blob.len
        /\ driver # "s3" => blob'.hdr = blob.hdr
  BY <1>1, <1>2, <1>3, SMTT(30) DEF SourceInv
<1>5. CopyTypeOK'
  BY <1>1, SMTT(30)
<1>6. SourceInv'
  BY <1>1, <1>2, <1>3, <1>4, SMTT(30) DEF SourceInv
<1>7. UploadInv' /\ PollInv'
  BY <1>1, SMTT(30) DEF UploadInv, PollInv
<1>8. PartsInv'
  BY <1>1, <1>4, SMTT(30) DEF PartsInv
<1>9. ResultInv'
  BY <1>1, <1>2, <1>4, SMTT(30) DEF ResultInv, IsCopied
<1> QED
  BY <1>5, <1>6, <1>7, <1>8, <1>9 DEF CopierInv

\* Every step of the copier, and of the service for it.
LEMMA CopierStepKeeps ==
  ASSUME CopierInv, CopyCaller \/ CopyStep \/ CopyService
  PROVE  CopierInv'
<1>1. CASE CopyCaller
  <2>1. CASE s3Copy \/ gcsCopy \/ azureCopy \/ s3XCopyFrom \/ gcsXCopyFrom \/ azureXCopyFrom
    <3>1. PICK sync \in BOOLEAN, pc \in {"head", "single", "rewrite", "url", "start"} :
            (pc \in {"url", "start"} => driver = "azure") /\ Begins(sync, pc)
      BY <2>1 DEF s3Copy, gcsCopy, azureCopy, s3XCopyFrom, gcsXCopyFrom, azureXCopyFrom
    <3> QED
      BY <3>1, BeginsKeeps, SMTT(30)
  <2> QED
    BY <1>1, <2>1, CopyCancelKeeps DEF CopyCaller
<1>2. CASE CopyStep
  <2>1. CASE rewrite \/ single
    <3>1. PICK fits \in BOOLEAN : copy.pc \in {"rewrite", "single"} /\ CopyInOne(fits)
      <4>1. (blob.len <= MaxSingle) \in BOOLEAN
        BY SMTT(30)
      <4> QED
        BY <2>1, <4>1 DEF rewrite, single
    <3> QED
      BY <3>1, CopyInOneKeeps
  <2>2. CASE abort
    BY <2>2, AbortedKeeps, AbortFailedKeeps DEF abort
  <2>3. CASE StartCopyOperation
    BY <2>3, ReportsKeeps, ClosesKeeps DEF StartCopyOperation, Only
  <2>4. CASE \E i \in Part : startPart(i) \/ uploadPartCopy(i)
    BY <2>4, StartPartKeeps, UploadPartKeeps
  <2> QED
    BY <1>2, <2>1, <2>2, <2>3, <2>4, HeadObjectKeeps, CreateKeeps, WaitPartsKeeps, CompleteKeeps,
       StartCopyFromURLKeeps, PollKeeps DEF CopyStep
<1>3. CASE CopyService
  <2>1. CASE azureService
    BY <2>1, ServiceSucceedsKeeps, ServiceFailsKeeps, SMTT(30) DEF azureService
  <2>2. CASE \E i \in Part : Straggles(i)
    BY <2>2, ForgottenKeeps, StraggledKeeps DEF Straggles, Only
  <2> QED
    BY <1>3, <2>1, <2>2, SMTT(30) DEF CopyService
<1> QED
  BY <1>1, <1>2, <1>3, SMTT(30)

\* The invariant holds to begin with.
LEMMA CopyInvInit == Init => CopyInv
<1> SUFFICES ASSUME Init PROVE CopyInv
  BY SMTT(30)
<1> USE CopyConstants DEF Init, StoreInit, CopyInit, NewCopy, NoTarget, NoBlob
<1>1. CopyTypeOK
  <2>1. NoBlob \in Blob /\ [i \in Part |-> "none"] \in [Part -> {"none", "todo", "flying", "done", "failed"}]
    BY SMTT(30) DEF Blob
  <2>2. 0 \in 0 .. MaxPollErrors /\ "ok" \in Outcomes
    BY SMTT(30) DEF Outcomes
  <2> QED
    BY <2>1, <2>2, SMTT(30) DEF CopyTypeOK, Copy
<1>2. SourceInv
  BY SMTT(30) DEF SourceInv, Blob, Exists
<1>3. UploadInv /\ PartsInv /\ PollInv /\ ResultInv
  BY DEF UploadInv, PartsInv, PollInv, ResultInv, Early, Over
<1> QED
  BY <1>1, <1>2, <1>3 DEF CopyInv, CopierInv

\* Every step of the system keeps it: goroutines in other roles leave the copy alone.
LEMMA CopyInvStep == CopyInv /\ [Next]_vars => CopyInv'
<1> SUFFICES ASSUME CopyInv, [Next]_vars PROVE CopyInv'
  BY SMTT(30)
<1>1. CASE Copies \/ Copying \/ Serves
  <2>1. role = "copier" /\ role' = role /\ (CopyCaller \/ CopyStep \/ CopyService)
    BY <1>1 DEF Copies, Copying, Serves
  <2> QED
    BY <2>1, CopierStepKeeps, SMTT(30) DEF CopyInv
<1>2. CASE Elsewhere
  <2>1. role' = role /\ Others /\ UNCHANGED <<copy, target>>
    BY <1>2 DEF Elsewhere, copyVars
  <2> QED
    BY <2>1, ElsewhereKeeps, SMTT(30) DEF CopyInv
<1>3. CASE Calls \/ Busy \/ Reads
  <2>1. role # "copier" /\ role' = role /\ copy' = copy
    BY <1>3 DEF Calls, Busy, Reads, copyVars
  <2> QED
    BY <2>1 DEF CopyInv, NewCopy
<1>4. CASE UNCHANGED vars
  <2>1. UNCHANGED <<role, driver, blob, changes, copy, target>>
    BY <1>4 DEF vars, copyVars
  <2> QED
    BY <2>1, SMTT(30) DEF CopyInv, CopierInv, CopyTypeOK, SourceInv, UploadInv, PartsInv,
       PollInv, ResultInv, IsCopied
<1> QED
  BY <1>1, <1>2, <1>3, <1>4 DEF Next

\* The inductive invariant of copies (crosscopy.go and the crosscopy.go of each
\* driver) holds for ever.
THEOREM CopyInvariant == Spec => []CopyInv
<1> QED
  BY CopyInvInit, CopyInvStep, PTL DEF Spec

\* A copy whose Done is closed without an error has given the target the body and
\* the headers of the source, whole: for every blob and part size, and whatever
\* fails, is lost, comes late or is overwritten meanwhile (crosscopy.go:73-83,
\* s3/crosscopy.go:61-161, azureblob/crosscopy.go:43-101, gcs/crosscopy.go:29-40).
THEOREM CopiesAreWhole == Spec => []DoneMeansCopied
<1>1. ASSUME CopyInv, role = "copier" PROVE DoneMeansCopied
  BY <1>1 DEF CopyInv, CopierInv, ResultInv, IsCopied, DoneMeansCopied, Over
<1>2. ASSUME CopyInv, role # "copier" PROVE DoneMeansCopied
  BY <1>2, NotCopying DEF CopyInv, DoneMeansCopied
<1>3. CopyInv => DoneMeansCopied
  BY <1>1, <1>2
<1> QED
  BY <1>3, CopyInvariant, PTL

\* A copy that is over leaves no parts of a multipart upload behind, unless its abort
\* failed or a request given up on came after it (s3/crosscopy.go:95-98, 170-178).
THEOREM UploadsAreCleanedUp == Spec => []NoOrphanedParts
<1>1. ASSUME CopyInv, role = "copier" PROVE NoOrphanedParts
  BY <1>1 DEF CopyInv, CopierInv, UploadInv, NoOrphanedParts, Over
<1>2. ASSUME CopyInv, role # "copier" PROVE NoOrphanedParts
  BY <1>2, NotCopying DEF CopyInv, NoOrphanedParts
<1>3. CopyInv => NoOrphanedParts
  BY <1>1, <1>2
<1> QED
  BY <1>3, CopyInvariant, PTL

\* Failed polls end a copy only when as many as the limit come in a row
\* (azureblob/crosscopy.go:71-101).
THEOREM PollsAreTolerated == Spec => []PollErrorsAreTolerated
<1>1. CopyInv => PollErrorsAreTolerated
  <2>1. ASSUME CopyInv, role = "copier" PROVE PollErrorsAreTolerated
    <3>1. copy.polls > 0 => copy.polls # 0
      BY <2>1, SMTT(30) DEF CopyInv, CopierInv, CopyTypeOK, Copy
    <3> QED
      BY <2>1, <3>1 DEF CopyInv, CopierInv, PollInv, PollErrorsAreTolerated, Over
  <2>2. ASSUME CopyInv, role # "copier" PROVE PollErrorsAreTolerated
    BY <2>2, NotCopying DEF CopyInv, PollErrorsAreTolerated
  <2> QED
    BY <2>1, <2>2
<1> QED
  BY <1>1, CopyInvariant, PTL
=============================================================================
