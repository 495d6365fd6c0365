----------------------------- MODULE CloudReader ----------------------------
(***************************************************************************)
(* The range readers of the cloud drivers.  A reader has a response body   *)
(* open at the service; Seek closes it and opens another one, without a    *)
(* condition on the version, so that after a Seek the bytes may be those   *)
(* of a blob stored since.  A read takes one byte.                         *)
(***************************************************************************)
EXTENDS CloudStore

VARIABLES
  reader,   \* the reader
  got       \* what the last call of Read returned

\* start and length: the range asked for (-1: to the end).  pos: the offset in the
\* range.  size: Size of the attributes, -1 before the first answer.
\* open, at and end: the response body.  len: the length of the blob it comes from;
\* known: of the blob by whose size the request for it was made, if shorter.
\* told: the offset the caller was told, by Seek and by what it read since.
NoReader ==
  [opened |-> FALSE, closed |-> FALSE, start |-> 0, length |-> 0, pos |-> 0, size |-> -1,
   open |-> FALSE, at |-> 0, end |-> 0, len |-> 0, known |-> 0, told |-> 0]

Offsets == 0 .. MaxLen
\* Seek can go past the end, once around.
Positions == 0 .. (2 * MaxLen)

Reader ==
  [opened : BOOLEAN, closed : BOOLEAN, start : Offsets, length : -1 .. MaxLen,
   pos : Positions, size : -1 .. MaxLen, open : BOOLEAN, at : Positions, end : Positions,
   len : Offsets, known : Offsets, told : Positions]

Nil == [kind |-> "none", at |-> 0, told |-> 0]

smaller(a, b) == IF a < b THEN a ELSE b
larger(a, b) == IF a > b THEN a ELSE b

-----------------------------------------------------------------------------
(* Opening a response body.                                                *)

Whole == [whole |-> TRUE, first |-> 0, last |-> MaxLen]

\* bytes=first-last: the whole blob, the rest of it, or a range of at least a byte.
byteRange(offset, length) ==
  IF offset <= 0 /\ length < 0 THEN Whole
  ELSE [whole |-> FALSE, first |-> offset,
        last |-> offset + (IF length < 0 THEN MaxLen ELSE larger(length, 1) - 1)]

rangeHeader(offset, length) == byteRange(offset, length)
azureRange(offset, length) == byteRange(offset, length)
\* The gcs library has an empty range.
gcsRange(offset, length) ==
  IF length = 0 THEN [whole |-> FALSE, first |-> offset, last |-> offset - 1]
  ELSE byteRange(offset, length)

Ranged(offset, length) ==
  CASE driver = "s3" -> rangeHeader(offset, length)
    [] driver = "gcs" -> gcsRange(offset, length)
    [] driver = "azure" -> azureRange(offset, length)

\* The service has nothing to send from behind the last byte.
Satisfiable(range) == range.whole \/ range.first < blob.len \/ range.last < range.first

\* Mutants of totalFromContentRange and of azureTotalFromContentRange: the length
\* of the answer is taken for that of the blob.
lengthOfAnswer(range) == smaller(range.last + 1, blob.len) - range.first

\* The size of the blob, from Content-Range; without a range from Content-Length.
totalFromContentRange(range) == blob.len
azureTotalFromContentRange(range) == blob.len

SizeFrom(range) ==
  CASE driver = "s3" -> totalFromContentRange(range)
    [] driver = "azure" -> azureTotalFromContentRange(range)
    [] driver = "gcs" -> blob.len

\* The reader after a successful request for a range.
Body(r, pos, range) ==
  [r EXCEPT !.opened = TRUE, !.closed = FALSE, !.open = TRUE, !.pos = pos, !.told = pos,
            !.size = SizeFrom(range), !.len = blob.len,
            !.known = IF r.size < 0 \/ r.length < 0 THEN blob.len ELSE smaller(blob.len, r.len),
            !.at = range.first, !.end = smaller(range.last + 1, larger(blob.len, range.first))]

-----------------------------------------------------------------------------
(* Seek and the sizes it goes by.                                          *)

rangeSize(r) ==
  IF r.size < 0 THEN r.length
  ELSE IF r.length >= 0 THEN smaller(r.length, larger(r.size - r.start, 0))
       ELSE larger(r.size - r.start, 0)

\* A bounded range is clamped to its size; what remains of an unbounded one is -1.
Clamped(r, pos) == IF r.length >= 0 THEN smaller(pos, rangeSize(r)) ELSE pos
Remaining(r, pos) == IF r.length >= 0 THEN rangeSize(r) - Clamped(r, pos) ELSE -1

\* The request of reopen; the body that was open has been closed by then.
\* Seek reports the offset it was asked for.
Request(r, pos, from) ==
  LET range == Ranged(from, Remaining(r, pos)) IN
  \/ /\ Exists(blob) /\ Satisfiable(range)
     /\ reader' = [Body(r, Clamped(r, pos), range) EXCEPT !.told = pos]
     /\ UNCHANGED failures
  \/ /\ ~Exists(blob) \/ ~Satisfiable(range)
     /\ reader' = [r EXCEPT !.open = FALSE]
     /\ UNCHANGED failures
  \/ FailOnce /\ reader' = [r EXCEPT !.open = FALSE]

gcsReopen(r, pos) == Request(r, pos, r.start + Clamped(r, pos))

\* An empty range of a blob whose size is known is served without a request.
EmptyOrRequest(r, pos) ==
  \/ /\ Remaining(r, pos) = 0 /\ r.size >= 0
     /\ reader' = [r EXCEPT !.open = TRUE, !.closed = FALSE, !.at = 0, !.end = 0,
                            !.pos = Clamped(r, pos), !.told = pos]
     /\ UNCHANGED failures
  \/ /\ Remaining(r, pos) # 0 \/ r.size < 0
     /\ Request(r, pos, r.start + Clamped(r, pos))

\* Mutant of s3Reopen: the offset in the range is forgotten.
s3ReopenAtStart(r, pos) == Request(r, pos, r.start)

s3Reopen(r, pos) == EmptyOrRequest(r, pos)
azureReopen(r, pos) == EmptyOrRequest(r, pos)

readerOnly == UNCHANGED <<driver, store>>

\* The target of Seek from the start, the current offset or the end.
Targets(r, offset) == {offset, r.pos + offset, rangeSize(r) + offset}

Seeks(offset, reopen(_, _)) ==
  /\ reader.opened /\ got' = Nil /\ readerOnly
  /\ \E pos \in Targets(reader, offset) \cap Positions : reopen(reader, pos)

s3Seek(offset) == driver = "s3" /\ Seeks(offset, s3Reopen)
gcsSeek(offset) == driver = "gcs" /\ Seeks(offset, gcsReopen)
azureSeek(offset) == driver = "azure" /\ Seeks(offset, azureReopen)

-----------------------------------------------------------------------------
(* The other calls.                                                        *)

Ranges(start, length, reopen(_, _)) ==
  /\ ~reader.opened /\ got' = Nil /\ readerOnly
  /\ reopen([NoReader EXCEPT !.start = start, !.length = length], 0)

s3NewRangeReader(start, length) == driver = "s3" /\ Ranges(start, length, s3Reopen)
gcsNewRangeReader(start, length) == driver = "gcs" /\ Ranges(start, length, gcsReopen)
azureNewRangeReader(start, length) == driver = "azure" /\ Ranges(start, length, azureReopen)

Gets(kind) == got' = [kind |-> kind, at |-> reader.at, told |-> reader.told]
Keeps(kind) == Gets(kind) /\ UNCHANGED <<reader, failures>>

\* A byte of the response body, its end, or a connection that breaks.
BodyRead ==
  \/ /\ reader.open /\ reader.at < reader.end
     /\ Gets("byte")
     /\ reader' = [reader EXCEPT !.at = @ + 1, !.pos = @ + 1, !.told = @ + 1]
     /\ UNCHANGED failures
  \/ reader.open /\ reader.at = reader.end /\ Keeps("eof")
  \/ ~reader.open /\ Keeps("error")
  \/ FailOnce /\ Gets("error") /\ reader' = [reader EXCEPT !.open = FALSE]

gcsRead ==
  /\ driver = "gcs" /\ reader.opened /\ readerOnly
  /\ \/ reader.closed /\ Keeps("error")
     \/ ~reader.closed /\ BodyRead

\* The bytes are clamped to those remaining in the range.
ClampedRead ==
  /\ reader.opened /\ readerOnly
  /\ \/ reader.closed /\ Keeps("error")
     \/ ~reader.closed /\ rangeSize(reader) <= reader.pos /\ Keeps("eof")
     \/ ~reader.closed /\ rangeSize(reader) > reader.pos /\ BodyRead

s3Read == driver = "s3" /\ ClampedRead
azureRead == driver = "azure" /\ ClampedRead

Closes ==
  /\ reader.opened /\ got' = Nil
  /\ reader' = [reader EXCEPT !.closed = TRUE, !.open = FALSE]
  /\ UNCHANGED failures /\ readerOnly

s3ReaderClose == driver = "s3" /\ Closes
gcsReaderClose == driver = "gcs" /\ Closes
azureReaderClose == driver = "azure" /\ Closes

ReaderInit == reader = NoReader /\ got = Nil

ReaderStep ==
  \/ \E start \in Offsets, length \in -1 .. MaxLen :
       \/ s3NewRangeReader(start, length)
       \/ gcsNewRangeReader(start, length)
       \/ azureNewRangeReader(start, length)
  \/ \E offset \in -MaxLen .. MaxLen : s3Seek(offset) \/ gcsSeek(offset) \/ azureSeek(offset)
  \/ s3Read \/ gcsRead \/ azureRead
  \/ s3ReaderClose \/ gcsReaderClose \/ azureReaderClose

-----------------------------------------------------------------------------
(* Properties.                                                             *)

ReaderTypeOK ==
  /\ reader \in Reader
  /\ got \in [kind : {"none", "byte", "eof", "error"}, at : Positions, told : Positions]

\* A byte that Read returns is the one at the offset that the caller was told, and
\* inside the range: across seeks, seeks past the end, failed requests, broken
\* connections and blobs that grow, shrink or go between two requests.
ReadsInPlace ==
  got.kind = "byte" =>
    /\ got.at = reader.start + got.told
    /\ reader.length >= 0 => got.told < reader.length

\* Read reports the end only at the end of the range in the blob that the reader has
\* open, never early because of the size of a partial answer.  A bounded reader that
\* seeks goes by the size of the blob it had open before, if that was shorter.
EndIsTheEnd ==
  LET there == larger(reader.known - reader.start, 0) IN
  got.kind = "eof" =>
    reader.pos >= (IF reader.length >= 0 THEN smaller(reader.length, there) ELSE there)
=============================================================================
