------------------------------ MODULE Listing ------------------------------
(***************************************************************************)
(* Listings that are read a page at a time while other clients write:      *)
(* ListIterator (blobster.go) over the ListPage of the five drivers.       *)
(*                                                                         *)
(* mem and file hand out page tokens that are offsets into the listing of  *)
(* the moment; s3, gcs and azureblob hand on the service's own token,      *)
(* which stands for the last entry of the page.  azureblob also stores     *)
(* every key under an escaped name and undoes that in what it lists.       *)
(*                                                                         *)
(* A key, and the name azureblob stores it under, is the sequence of its   *)
(* characters' ASCII codes: names compare the way their texts do.          *)
(***************************************************************************)
EXTENDS Integers, Sequences, FiniteSets, FiniteSetsExt, SequencesExt

CONSTANTS
  Drivers,        \* the drivers listed, of "mem", "file", "s3", "gcs", "azure"
  Names,          \* the keys callers use
  ListPrefixes,   \* the ListOptions.Prefix values tried
  PageSize,       \* ListIterator.pageSize (1000 in the code)
  MaxChanges      \* writes and deletes of others, and empty pages, per listing

Quote == 34
Hash == 35
Percent == 37
Dot == 46
Slash == 47
Zero == 48
Question == 63
Backslash == 92
Underscore == 95
LowerX == 120
Del == 127

ASSUME NamesAssumption ==
  /\ \A n \in Names : n # <<>> /\ \A i \in DOMAIN n : n[i] \in 0..Del
  /\ PageSize \in Nat \ {0}
  /\ MaxChanges \in Nat

VARIABLES
  driver,         \* the driver of this bucket
  prefix,         \* opts.Prefix
  delimited,      \* opts.Delimiter is "/"
  stored,         \* the names the bucket holds, as the driver stores them
  iterator,       \* ListIterator: [token, page, done]
  delivered,      \* what Next has returned, in order
  kept,           \* ghost: the keys present ever since the listing began
  ever,           \* ghost: the keys present at some time since then
  slipped,        \* ghost: an entry before the offset has gone
  pushed,         \* ghost: an entry has appeared before the offset
  changes

vars == <<driver, prefix, delimited, stored, iterator, delivered, kept, ever,
          slipped, pushed, changes>>

FirstPageToken == <<>>

NewListIterator == [token |-> FirstPageToken, page |-> <<>>, done |-> FALSE]

\* Byte order of two names.
Before(s, t) ==
  \E i \in 1..Len(t) :
    /\ i <= Len(s) + 1
    /\ \A j \in 1..(i - 1) : s[j] = t[j]
    /\ i = Len(s) + 1 \/ s[i] < t[i]

-----------------------------------------------------------------------------
(* azureblob's names. *)

\* Which characters escapeKey asks for: of a prefix the last "/" is left alone.
shouldEscape(r, i, isPrefix) ==
  \/ r[i] < 32 \/ r[i] \in {Backslash, Quote, Hash, Percent, Question, Del}
  \/ ~isPrefix /\ i = Len(r) /\ r[i] = Slash
  \/ i > 2 /\ r[i] = Slash /\ r[i - 1] = Dot /\ r[i - 2] = Dot

\* The digits %x writes, and what strconv.ParseInt makes of digits: -1 where it
\* fails, for a character that is no digit or a number of more than 31 bits.
\* (A sign, which it also takes, and the numbers that are no character do not occur.)
HexDigits == [d \in 0..15 |-> IF d < 10 THEN Zero + d ELSE 87 + d]
Hex(c) == IF c < 16 THEN <<HexDigits[c]>> ELSE <<HexDigits[c \div 16], HexDigits[c % 16]>>
Value(text) ==
  FoldLeft(LAMBDA v, c : IF v \in 0..(2^27 - 1) /\ c \in Range(HexDigits)
                           THEN 16 * v + (CHOOSE d \in 0..15 : HexDigits[d] = c) ELSE -1,
           0, text)

EscapeStart == <<Underscore, Underscore, Zero, LowerX>>
EscapeEnd == <<Underscore, Underscore>>

hexEscape(key, isPrefix) ==
  FlattenSeq([i \in DOMAIN key |->
    IF shouldEscape(key, i, isPrefix) THEN EscapeStart \o Hex(key[i]) \o EscapeEnd ELSE <<key[i]>>])

\* The character that an escape at rs[i] stands for and where the escape ends; -1 if
\* there is none.
unescapeRune(rs, i) ==
  LET ends == {j \in (i + 4)..Len(rs) : rs[j] = Underscore}
      digits == SubSeq(rs, i + 4, Min(ends) - 1)
  IN IF /\ i + 4 <= Len(rs) /\ SubSeq(rs, i, i + 3) = EscapeStart
        /\ ends # {} /\ digits # <<>> /\ Min(ends) < Len(rs)
        /\ SubSeq(rs, Min(ends), Min(ends) + 1) = EscapeEnd
       THEN [char |-> Value(digits), end |-> Min(ends) + 1]
       ELSE [char |-> -1, end |-> i]

\* From left to right: what reads as an escape is one.
hexUnescape(rs) ==
  LET scan[i \in 1..(Len(rs) + 1)] ==
        IF i > Len(rs) THEN <<>>
        ELSE LET e == unescapeRune(rs, i)
             IN IF e.char >= 0 THEN <<e.char>> \o scan[e.end + 1] ELSE <<rs[i]>> \o scan[i + 1]
  IN scan[1]

escapeKey(key, isPrefix) == hexEscape(key, isPrefix)

unescapeKey(name) == hexUnescape(name)

StoredName(key) == IF driver = "azure" THEN escapeKey(key, FALSE) ELSE key

-----------------------------------------------------------------------------
(* One page of a listing: its entries, the token of the next page, and     *)
(* whether there is one (an empty token ends the listing).                 *)

NoPage == [page |-> <<>>, next |-> FirstPageToken, more |-> FALSE]

\* The entry a name falls under: itself, or the directory its first "/" after
\* the prefix closes.
Entry(name, pre) ==
  LET cuts == {i \in (Len(pre) + 1)..Len(name) : name[i] = Slash}
  IN IF delimited /\ cuts # {}
       THEN [key |-> SubSeq(name, 1, Min(cuts)), dir |-> TRUE]
       ELSE [key |-> name, dir |-> FALSE]

Entries(names, pre) ==
  SetToSortSeq({Entry(n, pre) : n \in {m \in names : IsPrefix(pre, m)}},
               LAMBDA e, f : Before(e.key, f.key))

\* mem sorts the keys and keeps the first of each directory.
listObjectsLocked(names) == Entries(names, prefix)

\* file walks the data tree and does the same.
listObjects(names) == Entries(names, prefix)

decodePageToken(token) == IF token = FirstPageToken THEN 0 ELSE token[1]

OffsetPage(results, token) ==
  LET start == decodePageToken(token)
      end == Min({start + PageSize, Len(results)})
  IN IF start >= Len(results) THEN NoPage
     ELSE [page |-> SubSeq(results, start + 1, end), next |-> <<end>>,
           more |-> end < Len(results)]

memListPage(token) == {OffsetPage(listObjectsLocked(stored), token)}

fileListPage(token) == {OffsetPage(listObjects(stored), token)}

\* The service: at most `most` entries after the one the token stands for, in
\* order, and the last of them as the next token.
ServicePage(token, pre, most) ==
  LET after == SelectSeq(Entries(stored, pre), LAMBDA e : Before(token, e.key))
      size == Min({most, Len(after)})
  IN [page |-> SubSeq(after, 1, size),
      next |-> IF size = 0 THEN token ELSE after[size].key,
      more |-> Len(after) > size]

\* A service may answer with fewer entries than were asked for, or none.
ShortPages == IF changes < MaxChanges THEN 0..PageSize ELSE {PageSize}

DirsFirst(page) ==
  SelectSeq(page, LAMBDA e : e.dir) \o SelectSeq(page, LAMBDA e : ~e.dir)

\* Mutant of s3ListPage: the token of an answer is handed on although the
\* service says the answer is complete.
s3ListForever(token) ==
  {[r EXCEPT !.page = DirsFirst(@), !.more = TRUE] :
     r \in {ServicePage(token, prefix, n) : n \in ShortPages}}

s3ListPage(token) ==
  {[r EXCEPT !.page = DirsFirst(@)] :
     r \in {ServicePage(token, prefix, n) : n \in ShortPages}}

\* iterator.NewPager asks until it has a whole page.
gcsListPage(token) == {ServicePage(token, prefix, PageSize)}

\* Mutant of azureListPage: names are listed as they are stored.
azureListsAsStored(token) ==
  {[r EXCEPT !.page = DirsFirst(@)] :
     r \in {ServicePage(token, escapeKey(prefix, TRUE), n) : n \in ShortPages}}

azureListPage(token) ==
  LET Object(e) == [e EXCEPT !.key = unescapeKey(@)]
  IN {[r EXCEPT !.page = [i \in DOMAIN @ |-> Object(DirsFirst(@)[i])]] :
        r \in {ServicePage(token, escapeKey(prefix, TRUE), n) : n \in ShortPages}}

ListPage(token) ==
  CASE driver = "mem" -> memListPage(token)
    [] driver = "file" -> fileListPage(token)
    [] driver = "s3" -> s3ListPage(token)
    [] driver = "gcs" -> gcsListPage(token)
    [] driver = "azure" -> azureListPage(token)

-----------------------------------------------------------------------------
(* ListIterator.Next: what is left of a page first, then the next page.    *)

Deliver ==
  /\ iterator.page # <<>>
  /\ delivered' = Append(delivered, Head(iterator.page))
  /\ iterator' = [iterator EXCEPT !.page = Tail(@)]
  /\ UNCHANGED <<driver, prefix, delimited, stored, kept, ever, slipped, pushed, changes>>

\* Mutant of Fetch: a page without entries ends the listing.
FetchStopsWhenEmpty ==
  /\ iterator.page = <<>> /\ ~iterator.done
  /\ \E r \in ListPage(iterator.token) :
       /\ iterator' = [token |-> r.next, page |-> r.page, done |-> ~r.more \/ r.page = <<>>]
       /\ changes' = IF r.more /\ Len(r.page) < PageSize THEN Min({changes + 1, MaxChanges}) ELSE changes
  /\ UNCHANGED <<driver, prefix, delimited, stored, delivered, kept, ever, slipped, pushed>>

Fetch ==
  /\ iterator.page = <<>> /\ ~iterator.done
  /\ \E r \in ListPage(iterator.token) :
       /\ iterator' = [token |-> r.next, page |-> r.page, done |-> ~r.more]
       /\ changes' = IF r.more /\ Len(r.page) < PageSize THEN Min({changes + 1, MaxChanges}) ELSE changes
  /\ UNCHANGED <<driver, prefix, delimited, stored, delivered, kept, ever, slipped, pushed>>

Ended == iterator.done /\ iterator.page = <<>>

-----------------------------------------------------------------------------
(* Writes and deletes of other clients while the listing is read.          *)

ByOffset == driver \in {"mem", "file"}

\* The entries the offset has passed.
Passed(names) ==
  LET all == Entries(names, prefix)
  IN ToSet(SubSeq(all, 1, Min({decodePageToken(iterator.token), Len(all)})))

\* What a file tree can hold: no key that leaves the root or names a directory,
\* and none that is both a file and a directory.
Holds(names) ==
  driver # "file" \/
  \A n \in names :
    /\ n[1] # Dot /\ Last(n) # Slash
    /\ \A m \in names : ~IsPrefix(Append(n, Slash), m)

Put(key) ==
  LET after == stored \union {StoredName(key)}
  IN /\ changes < MaxChanges /\ ~Ended
     /\ StoredName(key) \notin stored /\ Holds(after)
     /\ stored' = after
     /\ ever' = ever \union {key}
     /\ pushed' = (pushed \/ (ByOffset /\ ~ Passed(after) \subseteq ToSet(Entries(stored, prefix))))
     /\ changes' = changes + 1
     /\ UNCHANGED <<driver, prefix, delimited, iterator, delivered, kept, slipped>>

Delete(key) ==
  LET after == stored \ {StoredName(key)}
  IN /\ changes < MaxChanges /\ ~Ended
     /\ StoredName(key) \in stored
     /\ stored' = after
     /\ kept' = kept \ {key}
     /\ slipped' = (slipped \/ (ByOffset /\ ~ Passed(stored) \subseteq ToSet(Entries(after, prefix))))
     /\ changes' = changes + 1
     /\ UNCHANGED <<driver, prefix, delimited, iterator, delivered, ever, pushed>>

-----------------------------------------------------------------------------
Init ==
  /\ driver \in Drivers /\ prefix \in ListPrefixes /\ delimited \in BOOLEAN
  /\ \E keys \in SUBSET Names :
       /\ Holds(keys)
       /\ stored = {StoredName(k) : k \in keys}
       /\ kept = keys /\ ever = keys
  /\ iterator = NewListIterator
  /\ delivered = <<>>
  /\ slipped = FALSE /\ pushed = FALSE
  /\ changes = 0

Next == Deliver \/ Fetch \/ (\E k \in Names : Put(k) \/ Delete(k))

\* The caller of Next goes on until io.EOF.
Spec == Init /\ [][Next]_vars /\ WF_vars(Deliver \/ Fetch)

-----------------------------------------------------------------------------
(* Properties. *)

\* Types of the variables; a listing never yields more entries than a page asks
\* for (ListPage and ListIterator).
TypeOK ==
  /\ driver \in Drivers /\ prefix \in ListPrefixes /\ delimited \in BOOLEAN
  /\ stored \subseteq {StoredName(k) : k \in Names}
  /\ iterator.done \in BOOLEAN /\ Len(iterator.page) <= PageSize
  /\ kept \subseteq ever /\ ever \subseteq Names
  /\ slipped \in BOOLEAN /\ pushed \in BOOLEAN
  /\ changes \in 0..MaxChanges

\* A key that is there all along is listed, itself or under its directory, by a
\* listing read to its end: with a service's tokens whatever others write and
\* delete meanwhile, with offsets (mem, file) unless an entry the offset had
\* passed was deleted.  Azure's blob for a key that is the prefix itself and
\* ends in "/" has an escaped name the prefix does not match (azureblob.go:1000).
KeptIsListed ==
  Ended /\ ~slipped =>
    \A k \in kept :
      IsPrefix(prefix, k) /\ ~(driver = "azure" /\ k = prefix) =>
        \E i \in DOMAIN delivered :
          \/ delivered[i] = [key |-> k, dir |-> FALSE]
          \/ delivered[i].dir /\ IsPrefix(delivered[i].key, k)

\* What is listed is what callers stored, once: every key is one that was there
\* (azureblob's escaped names come back as the keys they stand for, as long as no key
\* holds the text "__0x" itself), every directory
\* has had a key below it, and no entry comes twice, with a service's tokens whatever
\* others write, with offsets unless an entry appeared before the offset.
ListedWasThere ==
  /\ ~pushed => IsInjective(delivered)
  /\ \A i \in DOMAIN delivered :
       IF delivered[i].dir THEN \E k \in ever : IsPrefix(delivered[i].key, k)
       ELSE delivered[i].key \in ever

\* A listing ends (io.EOF), however often a page comes back short or empty and
\* however the bucket shrinks under the offset.
ListingEnds == <>Ended

=============================================================================
