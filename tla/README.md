# TLA+ verification of blobster

blobster is a Go library that builds coordination on top of blob storage. The
only primitive it relies on is a *conditional write*: write (or delete) an
object only if it does not exist (`IfNotExists`) or only if it still has a known
version (`IfMatch`). This directory models what the library builds from it,
checks the models with TLC on small instances, and proves the central results
with TLAPS for every instance.

## 1. The system

| Part | Source | State it keeps | Operations |
|---|---|---|---|
| Locker, Lock | `locker.go` | one record per lock (owner and lease deadline in the metadata of an empty object); a handle with cached version, deadline, Done/Err; a renewer goroutine | TryAcquire, Acquire, renewLoop, Release |
| Queue | `queue.go` | `msg/<id>` payloads, `lease/<id>` records (owner, deadline, receive count), `dead/<id>` records | Enqueue, EnqueueWithID, TryReceive, Receive, dead-letter, Trim |
| Message | `queuemessage.go` | like a Lock, plus the receive count | renewLoop, Ack, Nack |
| Tail | `queuetail.go` | none (the caller keeps the cursor) | Page |
| Watcher | `watcher.go` | the cursor object; position and version in memory | Run: acquire, read cursor, page, replicate, move cursor |
| Bucket interface | `blobster.go` | none | preconditions, list iterator, metadata normalisation |
| Drivers | `mem/`, `file/`, `gcs/`, `s3/`, `azureblob/` | the objects | read, write, delete, list, copy |
| Readers and writers | in each driver | a response body, an offset and a size; a pipe, an uploader goroutine and a done channel | Read, Seek; Write, Close, CloseWithError |
| ListIterator | `blobster.go` and `ListPage` of each driver | the page in hand and the next page's token | Next |
| Cross-region copy | `crosscopy.go` and one per provider | an operation handle; a multipart upload | start, poll, abort |

How they interact: Queue leases are the Locker's protocol with a count; the
Watcher holds a Lock, reads a Tail of a remote Queue and writes a local Queue;
all of them see a bucket only through its calls. Below the interface, `mem` and
`file` are complete stores of their own, while `s3`, `gcs` and `azureblob` turn
each call into requests to a service and each answer into one of the library's
errors.

What makes it hard:

- every method is a sequence of bucket calls, and anything can happen between
  two of them: other processes, the own renewer, a pause longer than the lease,
  a crash;
- a write does not return the new version, which is read back in a second call;
- a call that fails, or whose context is cancelled, may still take effect;
- leases are judged by clocks, so the old and the new holder overlap unless
  deadlines are taken conservatively;
- a message consists of two objects that are deleted in two calls, in an order
  that differs between Ack (lease first), dead-lettering and Trim (payload first);
- Trim and EnqueueWithID take no lease at all;
- a driver makes one call out of several renames, goroutines or requests, each of
  which can fail, and the layers above decide by the error it names;
- pages, seeks and multipart copies take many requests, between which others
  change the blobs.

What should be true: one holder within the lease, for locks and messages; nobody
overwrites or deletes what is still somebody else's; no message is lost; receive
counts only grow; poison messages end up among the dead records; replication
passes nothing over; the system recovers from dead holders; a driver's call looks
like one atomic step that did what its result says; readers and listings stay in
place whatever others write; and a copy that reports success is whole.

## 2. Modules

| Module | Models | |
|---|---|---|
| `LeaseLock` | what the lock promises | abstract specification |
| `Locker` | `locker.go` | one action per bucket call or local decision |
| `LockerProofs` | | inductive invariant, proofs, refinement of `LeaseLock` |
| `Queue` | `queue.go`, `queuemessage.go` | claim, renew, settle, dead-letter, trim |
| `QueueProofs` | | types, what is stored and why it may go (nothing is lost), what backs a claim |
| `QueueLeaseProofs` | | inductive invariant of leases, handlers and counts |
| `Tail` | `queuetail.go` | `Page` as operators; no state |
| `Watcher` | `watcher.go` | composes `LeaseLock`, `Tail`, and two queues seen as sets of ids |
| `WatcherProofs` | | inductive invariant and proofs |
| `MemBucket` | `mem/mem.go` | every call one atomic step; also the abstract specification of a local bucket |
| `FileBucket` | `file/file.go` | each rename and remove a step, the mutex, failures, crashes; implements `MemBucket` |
| `FileProofs` | | types, the mutex and temp files, with any number of Bucket values |
| `FileRefinement` | | inductive invariant for one Bucket value, refinement of `MemBucket` |
| `CloudStore` | the service, and the conditions and errors of `s3`, `gcs`, `azureblob` | what the next three share |
| `CloudBucket` | writers, Delete, Attributes, UpdateMetadata of the three | caller and uploader goroutine |
| `CloudReader` | range readers of the three | NewRangeReader, Read, Seek, Close |
| `CrossCopy` | `crosscopy.go`, `*/crosscopy.go`, Copy of the three | rewrite, CopyObject, multipart, polled copy, CopyOperation |
| `Cloud` | | composes these four |
| `CloudProofs` | | inductive invariants of the bucket calls, the readers and the copies; how blobs are split into parts |
| `Listing` | ListIterator, `ListPage` of all five, azureblob's names | a listing read while others write |
| `MCLocker`, `MCQueue`, `MCWatcher`, `MCFile`, `MCListing` | | instances for TLC: values of constants, views |

The upper layers do not run on top of the driver modules: they see a bucket as
atomic conditional calls that can fail or take effect late, and the driver modules
show how far each driver is such a bucket. The two halves meet in the version
token (`ContentVersions` in `Locker`, `Version` in `CloudStore`), in the errors
(`RefusalIsNamed`) and in the fact that a failed call may have taken effect.

### Conventions

**Atomicity.** In `Locker`, `Queue` and `Watcher` a bucket call is one step, and
in the driver modules a system call or a request to the service is. What a method
does between two calls is local and belongs to one of the steps beside it, except
that reading the clock is kept apart from the calls around it (`Decide`, `RenewTick`), since time
may pass there.

**Versions.** An absent object has the token `NoVersion`, so `version = expect`
is `IfNotExists` when the caller saw no object and `IfMatch` otherwise. A write
takes a token that nobody remembers, which is all that a generation number or a
timestamped ETag guarantees. With `ContentVersions` the token is a function of
the (empty) body, as with the ETag that `s3/s3.go:288` uses. In `CloudStore` the
token is a function of the body on s3, a number kept by metadata updates on gcs,
and renewed by every change on azure.

**Time.** A deadline is the time left until it; `Tick` lets one unit pass on all
of them. There is one clock: the code compares deadlines with the local clock
and makes no allowance for skew. Only the Watcher has an absolute clock, because
ids carry timestamps; its `Latency` stands for payload write latency plus
producer clock skew, which is what `DefaultTailLag` has to exceed.

**Failures.** A failed call ends the method (or, in a renewer, waits for the next
tick); a crash forgets everything local. A call that fails after it took effect is
the call followed by a failure. In `Locker`, `LateWrites` adds requests that take
effect *later*, after the caller gave up, or never. Failures are bounded by
`MaxFailures`.

**Data.** A body is a number (`MemBucket`, `FileBucket`: which writer wrote it) or
a length (`CloudStore`); headers, size and MD5 are represented by the body they
were computed from, so a mismatch shows. A key in `Listing` is a sequence of the
characters that the code tells apart.

**Ghosts.** `delivered` and `acked` (Queue), `ever` and `adopted` (Watcher), `torn` and `orphans`
(FileBucket), `stored`, `len` and `kept` of a cloud client, `known` of a reader,
`straggled`, `abortFailed` and `streak` of a copy, and `kept`, `ever`, `slipped`
and `pushed` (Listing) only record history for the properties.

### State and code

`Locker`: `record` is the lock object; `pc[c]` is the caller's place in
TryAcquire or Release and `rpc[c]` the renewer's in renewLoop; `seen[c]` is the
record last read; `newUntil[c]` is `now + lease` of the attempt under way;
`version`, `leaseUntil`, `err` are the fields of `Lock`. The owner is the client:
the code draws a random owner for each acquisition, which distinguishes more than
the model does, but a client has one handle at a time.

`Queue`: `payload[i]` is the number of the enqueue stored under `msg/i` (0 if
none), so that a reused id is told from the first use; `lease[i]`, `dead[i]` are
the objects; `worker[w]` holds the variables of tryReceive, tryClaim, deadLetter
and Message; `trim` those of Trim; `horizon` is the first id that is not yet past
the retention. Workers try their candidates in any order, which includes the
jittered rotation of the code.

`Watcher`: `inst[w]` holds the variables of runAsHolder; `cursor` is the cursor
object; `holder`, `left`, `claim` belong to `LeaseLock`, and every step the
Watcher takes on them is an action of that module.

`FileBucket`: `data`, `meta` and `tmp` are the three directories; `lock[b]` is the
mutex of a Bucket value; `client[c]` is the call that `c` is in (`job`: what it
found and what it will store), its open writer, and the object it read last. The
refinement mapping `Committed` shows a bucket in which a commit takes effect with
its second rename and a delete with its first remove.

`CloudBucket`: `client` has the caller (`pc`) and the uploader (`up`) of a
streaming writer: the request ends ("ended"), the pipe's read half is closed
("unblocked"), `done` is closed ("done"). `pipe` is what the uploader finds at the end of the pipe
and `cause` what CloseWithError was given; a writer that was closed can be closed
again. `answer` is what the service said and
`returned` the call that has just returned. An azureblob writer with a declared
MD5 buffers instead (`commitBuffered`). Goroutines of one driver share nothing
but the service, which answers one request at a time; so `Cloud` follows one
goroutine in one role, among `Others`, whose requests stand for any number of
further goroutines.

`CloudReader`: `reader` has the fields of the three reader structs and the
response body they hold (`open`, `at`, `end`). `CrossCopy`: `copy` has the local
variables of the run function, the multipart upload and its parts, the status
the azure service keeps, and the CopyOperation; `target` is the destination.

`Listing`: `iterator` is the ListIterator; a page token is an offset on mem and
file, the last entry's name otherwise, and `<<>>` for the first page. Keys and names
are sequences of ASCII codes; azureblob's escapes are written out as text and undone
by the left-to-right scan of the code.

## 3. Model checking

VIEW: `MCLocker`, `MCQueue` and `MCWatcher` identify states that differ only in
the names of version tokens. A token is only ever compared with the token of the
object it came from, so states with the same view have the same futures, and no
property names a token. `ForwardView` also drops the local queue's contents:
no other step depends on them, and of the properties it is used with only the type
invariant mentions them.

### Runs that pass

| Run | Instance | Shows |
|---|---|---|
| `locker_lease` | 2 clients, lease 2, late requests, 1 failure | exclusion within the lease, claims are recorded, read-back sees the own record, live records are their owners', the inductive invariant, refinement of `LeaseLock`; a crashed holder's lock is held again; a holder that was taken over hears of it |
| `queue_one` | 1 message, 2 workers, lease 2, limit 2, 2 failures | one live holder, leases back their holders, nothing lost, the receive limit, the inductive invariant, counts never drop |
| `queue_trim` | a timed and an untimed message, 2 workers, window 2 | Trim against claiming, holding and settling; workers pass from one candidate to the next |
| `queue_live` | a timed and an untimed message, 1 worker, limit 1, batch 1, 1 failure | every message leaves the live queue, and all that is old goes, residual leases included |
| `watcher_handover` | 2 instances, 3 messages (two with one timestamp), page 2, latency 1, lag 2, 1 failure, no pauses | nothing is passed over, everything that stays in the source is replicated |
| `watcher_pauses` | 2 instances, 3 messages, page 1, pauses anywhere | the inductive invariant; nothing is passed over although the cursor may be rewound, and only by an instance that adopted its successor's version |
| `file_bucket` | 2 callers of one Bucket value, 2 keys, 2 bodies, 2 versions, 1 failed call or crash | the file driver implements `MemBucket` except for a commit torn between its renames; no half-applied commit is seen; a token means what was read with it; temp files and the mutex are given up on every way out |
| `cloud` | each of 3 drivers, one goroutine in each of 3 roles, bodies up to 3, 2 chunks written, 4 changes, 2 failed requests | a nil result means done, nothing is stored but by Close or an abort that ends the body, refusals are named, readers stay in place and end at the end, copies are whole, leave no parts and tolerate failed polls; every call and every copy ends |
| `listing` | each of 5 drivers, 5 names, 2 prefixes, with and without delimiter, page 2, 2 changes or short pages | what stays is listed, what is listed was there, once; the listing ends; escapes are undone (an assumption, below) |

The bounds are chosen for the cases: lease 2 tells "running out" from "run out",
and lets a holder renew between two ticks; two contenders suffice for every
pairwise race (the proofs cover any number); a receive limit of 2
has a first delivery, a redelivery and a move; three messages with pages of one
are the least with which a cursor can be rewound; a batch of one makes Trim stop
before the residual leases. In `file_bucket` two bodies and two versions give an
overwrite, a delete with a new write and a metadata update; two keys are needed
for Copy. In `cloud` a blob of 3 is larger than one request copies (1) and needs
more parts of size 1 than there may be (2), so the part size is scaled and the
last part is shorter; two failures reach the limit of polls in a row and a failed
part followed by a failed abort; an upload of two chunks is longer than one part (1), one of a single chunk is not; of the 4 changes two are kept for the goroutine
followed, so that others can change a blob twice around its call. In `listing`
a page of 2 with 5 names gives three pages; the names are a key beside a
directory, its marker, a key below it, and two more that azureblob escapes. TLC also
evaluates `EscapeRoundTrips` of `MCListing`: `unescapeKey` undoes `escapeKey` on every
key of up to six of the characters that escapes are made of and that are escaped, as
long as it does not hold the text "__0x".
Workers, instances, clients and keys are interchangeable, which the safety runs of
`Queue`, `watcher_pauses` and `file_bucket` use as symmetry.

`cloud` does not check for deadlock, since a copy that is done is the end of the
copier; that a call never gets stuck is `CallsReturn`. `file_bucket`
checks it: some call is always possible.

The runs list the properties that say more than a type. `LockInv`, `QueueInv` and
`WatchInv` include `TypeOK` and are checked in `locker_lease`, `queue_one` and
`watcher_pauses`; the type invariants of `FileBucket`, `Cloud` and `Listing`, and the
inductive invariants `FileInv`, `BucketInv`, `ReaderInv` and `CopyInv`, hold on the
instances of `file_bucket`, `cloud` and `listing`.

Every property is checked against a mutation of the model that a plausible
mistake in the code would cause (the definitions commented "Mutant of ..."):
each is violated then.

### Where code and documentation disagree

These checks are of a sentence of the documentation and end in a counterexample.
The first three are runs of the project; the others are repeated with
`tlc -config MCLocker_transient.cfg MCLocker` (`LostOnlyIfLost`),
`tlc -config MCWatcher_rewind.cfg MCWatcher` (`CursorNeverRewinds`),
`tlc -config MCWatcher_untimed.cfg MCWatcher` (`NothingSkipped`),
`tlc -config Cloud_abort.cfg Cloud` (`AbortLeavesNothing`),
`tlc -config Cloud_md5.cfg Cloud` (`MD5IsValidated`) and
`tlc -config MCListing_escapes.cfg MCListing` (`ListedWasThere`).

| Check | The sentence | What happens |
|---|---|---|
| `locker_s3` | "exactly one winner" (architecture.md:454) | s3's version is a hash of the body and lock records have empty bodies, so the compare-and-swap passes for both |
| `queue_reenqueue` | "at-least-once" (queue.go:88) | Ack of an old delivery deletes the payload of a message enqueued again under its id |
| `queue_sweep` | "whose messages are already gone" (queue.go:331) | the lease sweep does not look at messages, so a live lease of an old id goes and a second worker gets the message |
| `locker_transient` | "A transient error is not fatal" (locker.go:471) | a renewal that took effect but whose read-back failed makes the next one lose a live lock |
| `watcher_rewind` | "can never rewind a successor's progress" (watcher.go:46) | the version read back is the successor's |
| `watcher_untimed` | "cannot be skipped by a cursor that already advanced" (queuetail.go:44) | an untimed id carries the cursor along |
| `Cloud_abort` | "a writer abandoned via `CloseWithError` ... must **not** leave a partial, readable object" (architecture.md:133-135) | a cause of io.EOF, and on gcs a cause of nil, ends the pipe like Close and publishes what was written |
| `Cloud_md5` | "optional MD5 validation" (architecture.md:150) | a body above the uploader's part size goes to S3 in parts, without the declared MD5 |
| `MCListing_escapes` | "unescapeKey reverses it" (azureblob.go:985-988) | the key `__0x5c__` shares its blob with the key `\`, and `__0x5\` comes back as another key |

Smaller ones follow from the same steps, and the properties above are worded so
as not to promise them:

- a cancelled renewal can land between the read and the delete of Release, which
  then leaves the record until it expires (locker.go:419 "no more writes can race
  the delete");
- a claim between the two deletes of Ack starts counting at 1, and, given back
  with Nack, leaves a lease without a message (queue.go:155 "at most n times",
  architecture.md:820 "never an orphan"): `DeliveryCap` exempts messages whose
  removal was asked for;
- a claim that dies before the hand-out counts as a delivery (architecture.md:715
  "exactly `K` times");
- the lease of a dead-letter move is not renewed, so two workers may move one
  message (architecture.md:724 "sole mover"): `OneLiveHolder` speaks of movers
  within their lease;
- a lease left at the limit sends a later message of that id to the dead records
  at its first claim (queue.go:449 "harmless");
- a claimant slower than its lease reads back its successor's version and may
  delete that lease as its own (queue.go:638 "the orphan lease we just wrote");
- a crash between enqueue and cursor write brings back a message acked locally
  (watcher.go:52 "only if the cursor is rewound past it by hand").

Of the drivers, likewise, the properties do not promise more than this:

- file: a crash or failed rename between data and sidecar leaves the new body
  under the old attributes and version, or under none and a version made of time and size,
  until the next write (`torn`); a sidecar whose remove failed is met by the next
  body that is torn; two Bucket values over one directory do not exclude each
  other, as file.go:11-13 says (`IsMemBucket` fails with two);
- writers: `CloseWithError(io.EOF)`, and on gcs `CloseWithError(nil)`, publishes what
  was written, which `OnlyClosedIsStored` excepts; on gcs CloseWithError before the
  first Write does nothing, so that a later Close still publishes; a second Close of an
  s3 or azure writer returns nil whatever came of the first (`if w.closed`), so
  `NilMeansDone` and `RefusalIsNamed` speak of the first there, and of every Close on
  gcs, whose library repeats its error; a wrong MD5 is refused except in the parts of
  a long body on S3;
- a request that meets another in progress is refused whatever the blob (a 409 of S3,
  Aborted of gRPC), and named as a failed precondition;
- a request retried by the client library after a lost answer reports
  ErrPreconditionFailed although the first one was stored (`RefusalIsNamed` says so);
- s3: two unconditional Deletes can both return nil; an IfMatch write to a key that
  has gone returns ErrNotFound; UpdateMetadata copies headers read in an earlier
  request over those of a newer body;
- gcs: IfNotMatch on a key that does not exist is refused;
- readers: Seek opens the blob of the moment, whatever version was open before;
- copies: the parts of a multipart copy can come from different versions of a
  source that is overwritten meanwhile; a failed abort or a late part leaves parts
  behind (s3/crosscopy.go:95-98 "no parts are orphaned"); azure's poll does not
  compare copy ids, and the model has no second copy to the same target;
- listings: with offset tokens (mem, file) an entry deleted before the offset makes
  the listing, and so Tail.Page and the sweep of Trim, pass over another
  (docs/production.md:232-235), and one that appears there repeats an entry; an
  azure key that holds the text of an escape does not come back as it was (above), and
  one that ends in "/" is not found under itself as a prefix.

### Fairness

`Locker`: goroutines and returning calls are scheduled (weak fairness of the
attempt, the renewer and the steps of Release), a blocked Acquire polls again, the
clock runs. Nothing is assumed about a holder ever releasing. A renewer that is
cancelled exits (strong fairness): its `select` picks at random between a tick and
the cancelled context, so it cannot prefer the tick for ever.

`Queue`: the same, idle workers poll, a handler settles in the end (either way),
and the caller schedules Trim again and again, as its comment asks.

`Watcher`: instances run and are restarted by their supervisor, leases are renewed;
liveness is checked without pauses, since nothing can be promised for instances
that always pause beyond their lease.

`Cloud`: a goroutine goes on with the call it is in and requests come to an end
(weak fairness of `Busy` and `Copying`), and the azure service goes on with a copy
it took on (`Serves`); nothing is assumed of callers. Failures are bounded, but
the polls of a pending copy are not: it ends because the service ends it.

`Listing`: the caller goes on calling Next (weak fairness of `Deliver \/ Fetch`).
`FileBucket` has safety properties only; that no caller waits for ever on the mutex
is stated as the invariant that whoever holds it has a step to take.

## 4. Proofs

`LockerProofs` proves, for every set of clients, every lease, and any failures
and late requests:

| Theorem | Statement |
|---|---|
| `TypeCorrect` | `Spec => []TypeOK`, with any kind of version token |
| `LockInvariant` | `Spec => []LockInv` |
| `LockIsExclusive` | `Spec => []MutualExclusion` |
| `ClaimsAreRecorded` | `Spec => []ClaimIsRecorded` |
| `ReadsBackItsOwn` | `Spec => []ReadBackIsOwn` |
| `LiveRecordsAreKept` | `Spec => LiveRecordIsOwners` |
| `LockKeepsPromise` | `Spec => Promise!Spec` (refinement of `LeaseLock`) |

All but the first assume `~ContentVersions`, and `locker_s3` shows that this is
needed. The other assumptions are those on the constants: a positive lease, an
owner that is no client, a token that is no version.

The argument: mutual exclusion is not inductive, since it says nothing of the
threads that are about to write. `LockInv` adds what each thread knows. The key is
that a remembered token is worth something only while it matches the object's, and
then what was read with it is still what is there (`Remembered`); a token can be
stale, but never wrongly fresh, because `Put` takes one nobody remembers. Hence a
takeover that passes hits an expired record, a renewal that passes hits one's own
(`Renewing`), a request that lands late either fails or acts on its sender's own or
on an expired record (`Late`), and a claim never outlives the recorded deadline
(`Claiming`), for which the read-back has to be one's own as long as the new
deadline lies ahead (`JustWritten`). The proof goes action by action; lemma
`OneMoves` reduces most steps to the client that moves.

`QueueProofs` and `QueueLeaseProofs` prove, for every set of ids, every finite set of
workers, and any lease, receive limit, batch, retention and failures:

| Theorem | Statement |
|---|---|
| `TypeCorrect` | `Spec => []TypeOK`, ids used again included |
| `QueueInvariant` | `Spec => []QueueInv` |
| `OneHolder` | `Spec => []OneLiveHolder` |
| `LeasesBackHolders` | `Spec => []LeaseBacksHolder` |
| `DeliveriesAreCapped` | `Spec => []DeliveryCap` |
| `NothingIsLost` | `Spec => []NothingLost` |
| `CountsNeverDrop` | `Spec => CountNeverDrops` |

All but the first assume `NoReuse`, that no id is enqueued twice, and all but `NothingIsLost`
also `NoLateIds`: an id that a caller supplies embeds no time if there is a retention,
since such a message could be past the horizon when it is enqueued. `queue_reenqueue`
and `queue_sweep` show that these are needed. `Workers` is finite because the last
clause counts workers.

The clauses of `QueueInv`, in the order in which they rest on each other: only what
was enqueued is stored or tried, so a payload that is gone stays away (`StoreInv`);
whoever is about to delete a payload has a reason (`RemovalInv`), and Trim gets to a
lease only after its payload (`TrimInv`); a remembered record whose token still
matches is the record, and what follows was decided on an expired one or on one's
own (`Remembered`); while there is a message, a claim that still runs is backed by
its record, also between a write and its read-back and between a renewal's decision
and its write (`Claimed`); no two handlers run, or are about to run again, on one
message (`HandlerInv`); the record counts the deliveries made and the ones under way
(`CountInv`).

Two properties had to be restated for this: an earlier form of `OneLiveHolder` and
of `CountNeverDrops` also spoke of messages whose payload is gone. With three
workers and a retention that is false, which TLC confirms: Trim removes the payload
and the lease of a message that one worker holds; a second one, which read before that
that there was no lease, creates one, and a third, which listed the message before,
takes that over once it has expired, all within the first one's lease. Nothing is
delivered twice, since the payload is read last; so the properties now speak of
messages that are there. The runs, with two workers, do not get that far.

`WatcherProofs` proves, for every finite set of instances and any page size, lag,
latency, lease and failures:

| Theorem | Statement | Assuming |
|---|---|---|
| `TypeCorrect` | `Spec => []TypeOK` | |
| `WatchInvariant` | `Spec => []WatchInv` | `AllTimed`, `LagCovers` |
| `NothingIsSkipped` | `Spec => []NothingSkipped` | `AllTimed`, `LagCovers` |
| `StaleHoldersAreRefused` | `Spec => RewindsAreAdopted` | |

`AllTimed` (every id embeds a time) and `LagCovers` (`Latency < Lag`) are what the
tail relies on; without the first, `watcher_untimed` shows a message passed over.
Nothing is skipped because of an invariant of the cursor and of every instance's copy
of it: each id up to there is in the log already or can no longer appear, and what is
still in the log was enqueued (`Passed`); a page adds the messages still to do
(`Handled`). It needs no exclusion, so it holds with pauses. Nor does the last theorem,
which says how far the compare-and-swap protects the cursor from stale holders: a write
takes a version that nobody remembers, so an instance whose version still matches knows
where the cursor is (`Knows`), unless its read-back brought it the version of a cursor
that another had put elsewhere (the history variable `adopted`); and it writes no
smaller one than it knows. `watcher_rewind` shows that the exception is needed.

`FileProofs` and `FileRefinement` prove of `FileBucket`, for every set of keys, every
finite set of clients, and any number of versions, bodies, failed calls and crashes:

| Theorem | Statement | Assuming |
|---|---|---|
| `TypeCorrect` | `Spec => []TypeOK` | |
| `EveryWayOutIsClean` | `Spec => []WaysOutAreClean` | |
| `FileInvariant` | `Spec => []FileInv` | |
| `ReadersSeeNoHalf` | `Spec => []NeverHalfApplied` | `OneBucket` |
| `TokensKeepMeaning` | `Spec => []TokenStillMeans` | `OneBucket` |
| `FileIsMem` | `Spec => IsMemBucket` | `OneBucket` |

`OneBucket` says that the clients share one Bucket value, and with it a mutex, the
only use the driver supports (`file.go:11-13`; with two, TLC refutes `IsMemBucket`).
The first three hold for any number of Bucket values over the directory. `FileInv`
says: a mutex is held by a call under way and by no other (`Locks`); a writer's body
is its own and is in its temp file until it is renamed (`Bodies`). With one Bucket
value also: what a call has found is still so, and what it is about to do is what
`MemBucket` would do (`Stands`, `Means`); an object that is not torn has the attributes
of its body (`Whole`); a version once read is no newer than the last one given, and
while it is current denotes what was read (`Remembers`). `FileIsMem` maps
every step: taking the mutex, the rename of a body and the removal of a sidecar to a
stutter, the rename of a sidecar to `Close`, `Copy` or `UpdateMetadata`, the removal of a
data file to `Delete`, and a failure or crash to `Fail` or `Vanish`, or, between the
two renames, to `Tear`.

`CloudProofs` proves of `Cloud`, for bodies of every length, every range, any number
of failures and retries, and any changes by others:

| Theorem | Statement | Assuming |
|---|---|---|
| `BucketInvariant` | `Spec => []BucketInv` | |
| `NilIsKept` | `Spec => []NilMeansDone` | |
| `RefusalsAreNamed` | `Spec => []RefusalIsNamed` | |
| `AbortedIsNotStored` | `Spec => []OnlyClosedIsStored` | |
| `ReaderInvariant` | `Spec => []ReaderInv` | |
| `BytesAreInPlace` | `Spec => []ReadsInPlace` | |
| `EndsAreReal` | `Spec => []EndIsTheEnd` | |

`BucketInv` follows a writer: what goes over the wire is the one precondition
asked for (`Asks`), so what the service accepts is what was promised; there is an
answer only once the upload has ended, a success means stored and all of it, and
stored without one means that an answer was lost (`Uploads`); a buffered writer
makes its request in Close (`Placed`); a body is sent only when the pipe has ended,
by Close or by a cause that the pipe takes for its end (`Closing`). `ReaderInv` says where a body is: one with bytes left is at
the offset that the caller was told, and what was read of the range and what is left
of the body together reach the end of the range (`InPlace`), for which the size the
reader goes by is that of the blob opened last (`Sized`). The second is what a read
leaves unchanged, and what makes an end of the body the end of the range.

About the copies it proves, for every blob length, part size, part limit,
concurrency and poll limit, any number of failures, and any changes by others:

| Theorem | Statement |
|---|---|
| `PartsFit` | a blob of any size is split into at least one and at most `MaxParts` parts, the last of which ends at its last byte |
| `CopyInvariant` | `Spec => []CopyInv` |
| `CopiesAreWhole` | `Spec => []DoneMeansCopied` |
| `UploadsAreCleanedUp` | `Spec => []NoOrphanedParts` |
| `PollsAreTolerated` | `Spec => []PollErrorsAreTolerated` |

The assumptions are those on the constants (sizes and limits are positive). The
three safety properties speak of a copy that is over; `CopyInv` carries what they
need through its steps: a body number is used once, so a source with the number
read first is the one read first (`SourceInv`); the parts stored so far are all of
that version or it is gone (`PartsInv`), and a finished part list is complete,
which with `PartsFit` makes the assembled length the source's; what the service
holds of an upload is under assembly, removed, or excused (`UploadInv`); `pollErrors`
is the number of failures in a row (`PollInv`); a success seen by the poll is a
target that is copied (`ResultInv`). There is one lemma per kind of step, and
`CopierStepKeeps` puts them together.

Left to TLC: liveness (`EventuallyReplicated`, `CallsReturn` and the like), which
rests on fairness; the listings themselves, which sort their pages and are read
through recursive functions, so that what they return needs an induction over data,
as does the scan that undoes azureblob's escapes;
and `Queue` with ids that are used again.

## 5. Not modelled, and the plan

Not modelled:

- signed URLs, capabilities, native access and the constructors: requests that are
  built and returned, or values handed through, with no state to check;
- validation of keys, prefixes and names, content types and content detection,
  logging, buffer sizes: wording and formats that no property here depends on;
- `Sub` of a bucket: a prefix on every key (`Sub` of the file driver shares the
  mutex, which `BucketOf` allows for);
- random owners and jitter: any order and any delay is allowed instead;
- the provider libraries and services beyond what the drivers rely on (marked
  external): of a long upload to S3 the parts, and the ETag that is made of theirs;
- clock skew: the code makes no allowance for it, and docs/production.md:327 leaves
  it to the operator to bound it or to lengthen the lease;
- test code, examples, and the conformance tests.

What could follow: clock skew in the Locker, bounded by a constant; Queue over the
offset tokens of mem and file; proofs about listings with name tokens, once pages are
described without recursion.
