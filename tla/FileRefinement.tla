--------------------------- MODULE FileRefinement ---------------------------
(***************************************************************************)
(* More about FileBucket, for the clients of one Bucket value, the only    *)
(* use that file.go supports: a reader sees no half-applied commit, and a  *)
(* version means what it meant when it was read.  Then FileBucket          *)
(* implements MemBucket: every call of the file driver is one step of the  *)
(* in-memory driver, and the one other thing that can happen is a torn     *)
(* commit.                                                                 *)
(***************************************************************************)
EXTENDS FileProofs

\* A leaf goes to Zenon unless it names another prover.
USE ZenonT(30)

\* "Cross-process coordination ... is not provided" (file.go:11-13).
OneBucket == \A c, d \in Clients : BucketOf[c] = BucketOf[d]

-----------------------------------------------------------------------------
(* The inductive invariant.                                                *)

\* What a call under way has found is still so, and what it is about to do is what
\* MemBucket would do.
Stands(c) ==
  LET pc == client[c].pc
      job == client[c].job
  IN
  /\ pc \in {"rename", "unlink"} => job.current = readAttributes(job.key)
  /\ pc = "sidecar" =>
       /\ data[job.key] = job.body
       /\ job.body = job.current.body => job.current = readAttributes(job.key)
  /\ pc = "unmeta" => data[job.key] = 0

Closes(c) ==
  LET w == client[c].writer
      job == client[c].job
  IN
  /\ ~w.cancelled /\ w.md5 /\ Mem!conditionsPass(w.pre, job.current)
  /\ job.key = w.key /\ job.body = w.body /\ job.of = w.body /\ ~job.md
Copies(c) ==
  LET job == client[c].job IN
  \E src \in Keys :
    LET o == Committed[src] IN
    Mem!Exists(o) /\ job.body = o.body /\ job.of = o.of /\ job.md = o.md
Retags(c) ==
  LET job == client[c].job IN
  /\ client[c].pc = "sidecar" /\ Mem!Exists(job.current) /\ job.md
  /\ job.body = job.current.body /\ job.of = job.current.of
Deletes(c) ==
  LET job == client[c].job IN
  /\ Mem!Exists(job.current)
  /\ \E pre \in Mem!Asked(client[c].seen) :
       ~Mem!Contradictory(pre) /\ Mem!conditionsPass(pre, job.current)

Means(c) ==
  /\ client[c].pc \in {"rename", "sidecar"} =>
       IF HasWriter(c) THEN Closes(c) ELSE Copies(c) \/ Retags(c)
  /\ client[c].pc = "unlink" => Deletes(c)

\* The object under a key that is not torn is whole.
Whole == \A k \in Keys \ torn : Committed[k].of = Committed[k].body

\* What a caller has read is what its version denotes.
Remembers(c) ==
  LET now == Committed[client[c].seenKey] IN
  /\ Known(client[c].seen.version)
  /\ client[c].seenKey \in Keys \ (torn \cup {0}) /\ Mem!Exists(now)
     /\ now.version = client[c].seen.version
     => now = client[c].seen

OneInv ==
  /\ \A c \in Clients : Stands(c) /\ Means(c) /\ Remembers(c)
  /\ Whole

FileInv == TypeInv /\ Keyed /\ Locks /\ Bodies /\ (OneBucket => OneInv)

-----------------------------------------------------------------------------
(* One Bucket value: what the files show.                                  *)

\* Nobody, or only c, is between the renames of a commit.
Quiet == \A c \in Clients : client[c].pc # "sidecar"
Only(c) == client[c].pc = "sidecar" /\ \A d \in Clients \ {c} : client[d].pc # "sidecar"

Shown == [k \in Keys |-> readAttributes(k)]
ShownBut(c) ==
  [k \in Keys |-> IF k = client[c].job.key THEN client[c].job.current ELSE readAttributes(k)]

LEMMA CommittedQuiet == Quiet => Committed = Shown
BY DEF Quiet, Committed, Shown

LEMMA CommittedOnly == \A c \in Clients : Only(c) => Committed = ShownBut(c)
<1> SUFFICES ASSUME NEW c \in Clients, Only(c) PROVE Committed = ShownBut(c)
  OBVIOUS
<1> DEFINE mid(k) == {d \in Clients : client[d].pc = "sidecar" /\ client[d].job.key = k}
           value(k) == IF mid(k) = {} THEN readAttributes(k)
                       ELSE client[CHOOSE d \in mid(k) : TRUE].job.current
           but(k) == IF k = client[c].job.key THEN client[c].job.current ELSE readAttributes(k)
<1>1. ASSUME NEW k \in Keys PROVE value(k) = but(k)
  <2>1. CASE k = client[c].job.key
    <3>1. mid(k) = {c}
      BY <2>1 DEF Only
    <3>2. (CHOOSE d \in mid(k) : TRUE) = c
      BY <3>1
    <3>3. QED
      BY <2>1, <3>1, <3>2
  <2>2. CASE k # client[c].job.key
    <3>1. mid(k) = {}
      BY <2>2 DEF Only
    <3>2. QED
      BY <2>2, <3>1
  <2>3. QED
    BY <2>1, <2>2
<1>2. Committed = [k \in Keys |-> value(k)] /\ ShownBut(c) = [k \in Keys |-> but(k)]
  BY DEF Committed, ShownBut
<1> HIDE DEF value, but
<1>3. QED
  BY <1>1, <1>2

\* And after the step.
LEMMA CommittedNext ==
  /\ Quiet' => Committed' = Shown'
  /\ \A c \in Clients : Only(c)' => Committed' = ShownBut(c)'
<1>1. (Quiet => Committed = Shown)'
  BY CommittedQuiet, PTL
<1>2. (\A c \in Clients : Only(c) => Committed = ShownBut(c))'
  BY CommittedOnly, PTL
<1>3. QED
  BY <1>1, <1>2

LEMMA Solo ==
  ASSUME OneBucket, TypeOK, Locks, NEW c \in Clients, Free(c) \/ client[c].pc # "ready"
  PROVE  /\ \A d \in Clients \ {c} : client[d].pc = "ready"
         /\ Free(c) => client[c].pc = "ready" /\ Quiet
<1>1. NoClient \notin Clients
  BY FileAssumption
<1>2. \A d \in Clients : client[d].pc # "ready" <=> lock[BucketOf[c]] = d
  BY DEF Locks, OneBucket, Ready
<1>3. QED
  BY <1>1, <1>2 DEF Free, Quiet

\* What a step makes of the committed objects: nothing, one stored, one removed, or
\* one torn.
Same == Committed' = Committed /\ torn' = torn /\ nextVersion' = nextVersion
Stores(c) ==
  LET job == client[c].job IN
  /\ Committed' = [Committed EXCEPT ![job.key] =
       [body |-> job.body, of |-> job.of, md |-> job.md, version |-> nextVersion + 1]]
  /\ Mends(job) /\ nextVersion' = nextVersion + 1 /\ nextVersion < MaxVersion
Removes(c) ==
  LET k == client[c].job.key IN
  /\ Committed' = [Committed EXCEPT ![k] = NoObject]
  /\ torn' = torn \ {k} /\ nextVersion' = nextVersion
Tears(c) ==
  LET k == client[c].job.key IN
  /\ Torn(c)
  /\ Committed' = [Committed EXCEPT ![k] = readAttributes(k)]
  /\ torn' = torn \cup {k} /\ nextVersion' = nextVersion

LEMMA Apart == OneBucket /\ TypeOK /\ Locks => Quiet \/ \E c \in Clients : Only(c)
<1> SUFFICES ASSUME OneBucket, TypeOK, Locks, ~Quiet PROVE \E c \in Clients : Only(c)
  OBVIOUS
<1>1. PICK c \in Clients : client[c].pc = "sidecar"
  BY DEF Quiet
<1>2. \A d \in Clients \ {c} : client[d].pc = "ready"
  BY <1>1, Solo
<1>3. QED
  BY <1>1, <1>2 DEF Only

LEMMA CommittedStays ==
  ASSUME OneBucket, TypeOK, Locks, UNCHANGED files,
         \A d \in Clients : client'[d].pc = "sidecar" <=> client[d].pc = "sidecar",
         \A d \in Clients : client[d].pc = "sidecar" => client'[d].job = client[d].job
  PROVE  Committed' = Committed
<1>1. \A k \in Keys : readAttributes(k)' = readAttributes(k)
  BY DEF files, readAttributes
<1>2. CASE Quiet
  <2>1. Quiet' /\ Shown' = Shown
    BY <1>1, <1>2 DEF Quiet, Shown
  <2>2. QED
    BY <1>2, <2>1, CommittedQuiet, CommittedNext
<1>3. ASSUME NEW c \in Clients, Only(c) PROVE Committed' = Committed
  <2>1. Only(c)'
    BY <1>3 DEF Only
  <2>2. client'[c].job = client[c].job
    BY <1>3 DEF Only
  <2>3. ShownBut(c)' = ShownBut(c)
    BY <1>1, <2>2 DEF ShownBut
  <2>4. QED
    BY <1>3, <2>1, <2>3, CommittedOnly, CommittedNext
<1>4. QED
  BY <1>2, <1>3, Apart

LEMMA CommittedBegins ==
  ASSUME OneBucket, TypeOK, Locks, NEW c \in Clients, NEW pc \in {"rename", "sidecar", "unlink"},
         NEW job \in Job, Begins(c, pc, job), Due(c, pc, job)
  PROVE  Same
<1>1. /\ Moves(c) /\ client'[c].pc = pc /\ client'[c].job = job
  BY BeginFields DEF Begins, PCs
<1>2. client[c].pc = "ready" /\ Quiet /\ \A d \in Clients \ {c} : client[d].pc = "ready"
  BY Solo DEF Begins
<1>3. UNCHANGED <<files, torn, nextVersion>>
  BY DEF Begins, counters
<1>4. CASE pc # "sidecar"
  <2>1. Committed' = Committed
    BY <1>1, <1>2, <1>3, <1>4, CommittedStays DEF Moves, Quiet
  <2>2. QED
    BY <1>3, <2>1 DEF Same
<1>5. CASE pc = "sidecar"
  <2>1. Only(c)'
    BY <1>1, <1>2, <1>5 DEF Only, Moves
  <2>2. \A k \in Keys : readAttributes(k)' = readAttributes(k)
    BY <1>3 DEF files, readAttributes
  <2>3. job.current = readAttributes(job.key)
    BY DEF Due
  <2>4. ShownBut(c)' = Shown
    BY <1>1, <2>2, <2>3 DEF ShownBut, Shown
  <2>5. QED
    BY <1>2, <1>3, <2>1, <2>4, CommittedQuiet, CommittedNext DEF Same
<1>6. QED
  BY <1>4, <1>5

LEMMA CommittedRenames ==
  ASSUME OneBucket, TypeOK, Keyed, Locks, NEW c \in Clients, Stands(c), RenameData(c)
  PROVE  Same
<1> DEFINE job == client[c].job
<1>1. /\ Moves(c) /\ client'[c].pc = "sidecar" /\ client[c].pc = "rename" /\ client'[c].job = job
  BY PcFields DEF RenameData, PCs
<1>2. \A d \in Clients \ {c} : client[d].pc = "ready"
  BY <1>1, Solo
<1>3. Quiet /\ Only(c)'
  BY <1>1, <1>2 DEF Quiet, Only, Moves
<1>4. job.key \in Keys /\ job.current = readAttributes(job.key)
  BY <1>1 DEF Keyed, KeyOf, Ready, Stands
<1>5. ASSUME NEW k \in Keys, k # job.key PROVE readAttributes(k)' = readAttributes(k)
  BY <1>4, <1>5 DEF RenameData, TypeOK, readAttributes
<1>6. ShownBut(c)' = Shown
  BY <1>1, <1>4, <1>5 DEF ShownBut, Shown
<1>7. UNCHANGED <<torn, nextVersion>>
  BY DEF RenameData, counters
<1>8. QED
  BY <1>3, <1>6, <1>7, CommittedQuiet, CommittedNext DEF Same

LEMMA CommittedStores ==
  ASSUME OneBucket, TypeInv, Keyed, Locks, Bodies, NEW c \in Clients, Stands(c), WriteSidecar(c)
  PROVE  Stores(c)
<1> DEFINE job == client[c].job
           new == [body |-> job.body, of |-> job.of, md |-> job.md, version |-> nextVersion + 1]
<1>0. TypeOK
  BY DEF TypeInv
<1>1. Moves(c) /\ client'[c].pc = "ready" /\ client[c].pc = "sidecar"
  BY <1>0, ClosedFields DEF WriteSidecar
<1>2. \A d \in Clients \ {c} : client[d].pc = "ready"
  BY <1>0, <1>1, Solo
<1>3. Only(c) /\ Quiet'
  BY <1>1, <1>2 DEF Quiet, Only, Moves
<1>4. job.key \in Keys /\ data[job.key] = job.body
  BY <1>1 DEF Keyed, KeyOf, Ready, Stands
<1>5. job.body # 0
  <2>1. HasBody(c)
    BY DEF Bodies
  <2>2. job.body \in 1 .. nextBody
    BY <1>1, <2>1 DEF HasBody, OwnBody, OldBody, Ready
  <2>3. QED
    BY <1>0, <2>2, SMTT(30) DEF TypeOK
<1>6. ASSUME NEW k \in Keys, k # job.key PROVE readAttributes(k)' = readAttributes(k)
  BY <1>0, <1>4, <1>6 DEF WriteSidecar, TypeOK, readAttributes
<1>7. ASSUME NEW k \in Keys, k = job.key PROVE readAttributes(k)' = new
  <2>1. meta'[job.key] = [of |-> job.of, md |-> job.md, version |-> nextVersion + 1]
        /\ data' = data
    BY <1>0, <1>4 DEF WriteSidecar, TypeOK
  <2>2. nextVersion + 1 # 0
    BY <1>0, FileAssumption, SMTT(30) DEF TypeOK
  <2>3. meta'[job.key] # NoSidecar
    BY <2>1, <2>2, SMTT(30) DEF NoSidecar
  <2>4. QED
    BY <1>4, <1>5, <1>7, <2>1, <2>3, SMTT(30) DEF readAttributes
<1> HIDE DEF new
<1>8. Shown' = [ShownBut(c) EXCEPT ![job.key] = new]
  <2>1. ASSUME NEW k \in Keys PROVE Shown'[k] = IF k = job.key THEN new ELSE readAttributes(k)
    BY <1>6, <1>7 DEF Shown
  <2>2. Shown' = [k \in Keys |-> Shown'[k]]
    BY DEF Shown
  <2>3. QED
    BY <1>4, <2>1, <2>2 DEF ShownBut
<1>9. nextVersion < MaxVersion /\ nextVersion' = nextVersion + 1 /\ Mends(job)
  BY PendingWrites DEF WriteSidecar
<1>10. QED
  BY <1>3, <1>8, <1>9, CommittedOnly, CommittedNext DEF Stores, new

LEMMA CommittedRemoves ==
  ASSUME OneBucket, TypeOK, Keyed, Locks, NEW c \in Clients, RemoveData(c)
  PROVE  Removes(c)
<1> DEFINE key == client[c].job.key
<1>1. Moves(c) /\ client'[c].pc = "unmeta" /\ client[c].pc = "unlink"
  BY PcFields DEF RemoveData, PCs
<1>2. \A d \in Clients \ {c} : client[d].pc = "ready"
  BY <1>1, Solo
<1>3. Quiet /\ Quiet'
  BY <1>1, <1>2 DEF Quiet, Moves
<1>4. key \in Keys
  BY <1>1 DEF Keyed, KeyOf, Ready
<1>5. data'[key] = 0 /\ \A k \in Keys \ {key} : data'[k] = data[k]
  BY <1>4 DEF RemoveData, TypeOK
<1>6. ASSUME NEW k \in Keys
      PROVE  Shown'[k] = IF k = key THEN NoObject ELSE readAttributes(k)
  BY <1>4, <1>5 DEF Shown, readAttributes, RemoveData
<1>7. Shown' = [k \in Keys |-> Shown'[k]]
  BY DEF Shown
<1>8. Shown' = [Shown EXCEPT ![key] = NoObject]
  BY <1>4, <1>6, <1>7 DEF Shown
<1>9. torn' = torn \ {key} /\ nextVersion' = nextVersion
  BY DEF RemoveData, counters
<1>10. QED
  BY <1>3, <1>8, <1>9, CommittedQuiet, CommittedNext DEF Removes

LEMMA CommittedForgets ==
  ASSUME OneBucket, TypeOK, Keyed, Locks, NEW c \in Clients, Stands(c), RemoveSidecar(c)
  PROVE  Same
<1> DEFINE key == client[c].job.key
<1>1. Moves(c) /\ client'[c].pc = "ready" /\ client[c].pc = "unmeta"
  BY RemovesFields DEF RemoveSidecar
<1>2. \A d \in Clients \ {c} : client[d].pc = "ready"
  BY <1>1, Solo
<1>3. Quiet /\ Quiet'
  BY <1>1, <1>2 DEF Quiet, Moves
<1>4. key \in Keys /\ data[key] = 0
  BY <1>1 DEF Keyed, KeyOf, Ready, Stands
<1>5. data' = data /\ \A k \in Keys \ {key} : meta'[k] = meta[k]
  BY <1>4 DEF RemoveSidecar, TypeOK
<1>6. ASSUME NEW k \in Keys PROVE readAttributes(k)' = readAttributes(k)
  BY <1>4, <1>5 DEF readAttributes
<1>7. Shown' = Shown
  BY <1>6 DEF Shown
<1>8. torn' = torn /\ nextVersion' = nextVersion
  BY DEF RemoveSidecar, counters
<1>9. QED
  BY <1>3, <1>7, <1>8, CommittedQuiet, CommittedNext DEF Same

\* A commit between its renames is given up.
LEMMA CommittedGivenUp ==
  ASSUME Keyed, NEW c \in Clients, Stands(c), Only(c), Quiet', UNCHANGED <<files, nextVersion>>,
         torn' = torn \cup (IF Torn(c) THEN {client[c].job.key} ELSE {})
  PROVE  Same \/ Tears(c)
<1> DEFINE key == client[c].job.key
<1>1. client[c].pc = "sidecar" /\ key \in Keys
  BY DEF Only, Keyed, KeyOf, Ready
<1>2. \A k \in Keys : readAttributes(k)' = readAttributes(k)
  BY DEF files, readAttributes
<1>3. Committed' = Shown /\ Committed = ShownBut(c)
  BY <1>2, CommittedOnly, CommittedNext DEF Shown
<1>4. CASE Torn(c)
  <2>1. Shown = [ShownBut(c) EXCEPT ![key] = readAttributes(key)]
    BY <1>1 DEF Shown, ShownBut
  <2>2. QED
    BY <1>3, <1>4, <2>1 DEF Tears
<1>5. CASE ~Torn(c)
  <2>1. client[c].job.current = readAttributes(key)
    BY <1>1, <1>5 DEF Torn, Stands
  <2>2. Shown = ShownBut(c)
    BY <2>1 DEF Shown, ShownBut
  <2>3. QED
    BY <1>3, <1>5, <2>2 DEF Same
<1>6. QED
  BY <1>4, <1>5

LEMMA CommittedFails ==
  ASSUME OneBucket, TypeOK, Keyed, Locks, NEW c \in Clients, Stands(c), CallFails(c)
  PROVE  Same \/ Tears(c)
<1>1. Moves(c) /\ client'[c].pc = "ready"
  BY FailsFields
<1>2. /\ UNCHANGED <<files, nextVersion>>
      /\ torn' = torn \cup (IF Torn(c) THEN {client[c].job.key} ELSE {})
  BY DEF CallFails, counters
<1>3. CASE client[c].pc # "sidecar"
  <2>1. Committed' = Committed
    BY <1>1, <1>2, <1>3, CommittedStays DEF Moves
  <2>2. QED
    BY <1>2, <1>3, <2>1 DEF Same, Torn
<1>4. CASE client[c].pc = "sidecar"
  <2>1. \A d \in Clients \ {c} : client[d].pc = "ready"
    BY <1>4, Solo
  <2>2. Only(c) /\ Quiet'
    BY <1>1, <1>4, <2>1 DEF Only, Quiet, Moves
  <2>3. QED
    BY <1>2, <2>2, CommittedGivenUp
<1>5. QED
  BY <1>3, <1>4

LEMMA CommittedCrash ==
  ASSUME OneBucket, TypeOK, Keyed, Locks, \A c \in Clients : Stands(c), NEW b \in Buckets, Crash(b)
  PROVE  Same \/ \E c \in Clients : Tears(c) /\ BucketOf[c] = b
<1>1. /\ UNCHANGED <<files, nextVersion>>
      /\ torn' = torn \cup {client[c].job.key : c \in {d \in {e \in Clients : BucketOf[e] = b} : Torn(d)}}
  BY DEF Crash, counters
<1>2. \A c \in Clients : client'[c] = IF BucketOf[c] = b THEN NewClient ELSE client[c]
  BY CrashFields
<1>3. CASE \A c \in Clients : BucketOf[c] = b => client[c].pc # "sidecar"
  <2>1. torn' = torn
    BY <1>1, <1>3 DEF Torn
  <2>2. Committed' = Committed
    BY <1>1, <1>2, <1>3, Constants, CommittedStays
  <2>3. QED
    BY <1>1, <2>1, <2>2 DEF Same
<1>4. ASSUME NEW c \in Clients, BucketOf[c] = b, client[c].pc = "sidecar"
      PROVE  Same \/ Tears(c)
  <2>1. \A d \in Clients \ {c} : client[d].pc = "ready"
    BY <1>4, Solo
  <2>2. Only(c)
    BY <1>4, <2>1 DEF Only
  <2>3. Quiet'
    BY <1>2, <1>4, <2>1, Constants DEF Quiet
  <2>4. {d \in {e \in Clients : BucketOf[e] = b} : Torn(d)} = IF Torn(c) THEN {c} ELSE {}
    BY <1>4, <2>1 DEF Torn
  <2>5. torn' = torn \cup (IF Torn(c) THEN {client[c].job.key} ELSE {})
    BY <1>1, <2>4
  <2>6. QED
    BY <1>1, <2>2, <2>3, <2>5, CommittedGivenUp
<1>5. QED
  BY <1>3, <1>4

\* The calls that leave the files alone.
LEMMA CommittedIdle ==
  ASSUME OneBucket, TypeOK, Locks, NEW c \in Clients, Moves(c),
         client[c].pc = "ready", client'[c].pc = "ready", UNCHANGED <<files, torn, nextVersion>>
  PROVE  Same
<1>1. Committed' = Committed
  BY CommittedStays DEF Moves
<1>2. QED
  BY <1>1 DEF Same

-----------------------------------------------------------------------------
(* One Bucket value: objects are whole and versions keep their meaning.    *)

Effect == Same \/ \E c \in Clients : client[c].job.key \in Keys /\ (Stores(c) \/ Removes(c) \/ Tears(c))

LEMMA CommittedDomain == DOMAIN Committed = Keys
BY DEF Committed

LEMMA CommittedObject ==
  ASSUME TypeOK, NEW k \in Keys
  PROVE  Committed[k] \in Mem!Object
<1> DEFINE mid == {d \in Clients : client[d].pc = "sidecar" /\ client[d].job.key = k}
           one == CHOOSE d \in mid : TRUE
<1>1. Committed[k] = IF mid = {} THEN readAttributes(k) ELSE client[one].job.current
  BY DEF Committed
<1>2. readAttributes(k) \in Mem!Object
  BY ReadsObject
<1>3. ASSUME mid # {} PROVE client[one].job.current \in Mem!Object
  <2>1. one \in Clients
    BY <1>3
  <2>2. QED
    BY <2>1 DEF TypeOK, Job
<1>4. QED
  BY <1>1, <1>2, <1>3

LEMMA WholeStep ==
  ASSUME Whole, Effect
  PROVE  Whole'
<1>1. CASE Same
  BY <1>1 DEF Same, Whole
<1>2. ASSUME NEW c \in Clients, client[c].job.key \in Keys, Stores(c) PROVE Whole'
  <2> DEFINE job == client[c].job
             new == [body |-> job.body, of |-> job.of, md |-> job.md, version |-> nextVersion + 1]
  <2>1. /\ Committed' = [Committed EXCEPT ![job.key] = new]
        /\ torn' = IF job.of = job.body THEN torn \ {job.key} ELSE torn \cup {job.key}
    BY <1>2 DEF Stores, Mends
  <2>2. new.of = job.of /\ new.body = job.body
    OBVIOUS
  <2> HIDE DEF new
  <2>3. ASSUME NEW k \in Keys \ torn' PROVE Committed'[k].of = Committed'[k].body
    <3>1. CASE k = job.key
      BY <1>2, <2>1, <2>2, <2>3, <3>1, CommittedDomain
    <3>2. CASE k # job.key
      BY <2>1, <2>3, <3>2, SMTT(30) DEF Whole
    <3>3. QED
      BY <3>1, <3>2
  <2>4. QED
    BY <2>3 DEF Whole
<1>3. ASSUME NEW c \in Clients, client[c].job.key \in Keys, Removes(c) PROVE Whole'
  <2>1. ASSUME NEW k \in Keys \ torn' PROVE Committed'[k].of = Committed'[k].body
    <3>1. CASE k = client[c].job.key
      BY <1>3, <3>1, CommittedDomain DEF Removes, NoObject
    <3>2. CASE k # client[c].job.key
      BY <1>3, <2>1, <3>2, CommittedDomain DEF Removes, Whole
    <3>3. QED
      BY <3>1, <3>2
  <2>2. QED
    BY <2>1, SMTT(30) DEF Whole
<1>4. ASSUME NEW c \in Clients, client[c].job.key \in Keys, Tears(c) PROVE Whole'
  <2>1. ASSUME NEW k \in Keys \ torn' PROVE Committed'[k].of = Committed'[k].body
    BY <1>4, <2>1, CommittedDomain DEF Tears, Whole
  <2>2. QED
    BY <2>1, SMTT(30) DEF Whole
<1>5. QED
  BY <1>1, <1>2, <1>3, <1>4 DEF Effect

\* A caller that keeps what it saw.
LEMMA RemembersStep ==
  ASSUME TypeOK, NEW d \in Clients, Remembers(d), Effect,
         client'[d].seen = client[d].seen, client'[d].seenKey = client[d].seenKey
  PROVE  Remembers(d)'
<1> DEFINE seen == client[d].seen
           key == client[d].seenKey
<1>1. /\ seen.version \in Nat /\ nextVersion \in Nat /\ MaxVersion \in Nat
      /\ Known(seen.version) /\ key \in Keys \cup {0}
  <2>1. client[d] \in Local
    BY IsLocal
  <2>2. QED
    BY <2>1, FileAssumption, SMTT(30) DEF TypeOK, Local, Mem!Object, Mem!Tokens, Remembers
<1>2. CASE Same
  BY <1>2 DEF Same, Remembers, Known
<1>3. ASSUME NEW c \in Clients, client[c].job.key \in Keys, Stores(c) PROVE Remembers(d)'
  <2> DEFINE job == client[c].job
             new == [body |-> job.body, of |-> job.of, md |-> job.md, version |-> nextVersion + 1]
  <2>1. /\ Committed' = [Committed EXCEPT ![job.key] = new]
        /\ torn' = torn \ {job.key} \/ torn' = torn \cup {job.key}
        /\ nextVersion' = nextVersion + 1 /\ nextVersion < MaxVersion
    BY <1>3 DEF Stores, Mends
  <2>2. new.version = nextVersion + 1
    OBVIOUS
  <2> HIDE DEF new
  <2>3. Known(seen.version)' /\ seen.version # nextVersion + 1
    BY <1>1, <2>1, SMTT(30) DEF Known
  <2>4. CASE key = job.key
    <3>1. Committed'[key].version # seen.version
      BY <1>3, <2>1, <2>2, <2>3, <2>4, CommittedDomain
    <3>2. QED
      BY <2>3, <3>1 DEF Remembers, Known
  <2>5. CASE key # job.key
    <3>1. key \in Keys => Committed'[key] = Committed[key] /\ (key \in torn' <=> key \in torn)
      BY <2>1, <2>5, CommittedDomain
    <3>2. QED
      BY <2>3, <3>1 DEF Remembers, Known
  <2>6. QED
    BY <2>4, <2>5
<1>4. ASSUME NEW c \in Clients, client[c].job.key \in Keys, Removes(c) PROVE Remembers(d)'
  <2> DEFINE k == client[c].job.key
  <2>1. /\ Committed' = [Committed EXCEPT ![k] = NoObject]
        /\ torn' = torn \ {k} /\ nextVersion' = nextVersion
    BY <1>4 DEF Removes
  <2>2. Known(seen.version)'
    BY <1>1, <2>1 DEF Known
  <2>3. CASE key = k
    <3>1. ~Mem!Exists(Committed'[key])
      BY <1>4, <2>1, <2>3, CommittedDomain DEF Mem!Exists, Mem!NoObject, NoObject
    <3>2. QED
      BY <2>2, <3>1 DEF Remembers, Known, Mem!Exists
  <2>4. CASE key # k
    <3>1. key \in Keys => Committed'[key] = Committed[key] /\ (key \in torn' <=> key \in torn)
      BY <2>1, <2>4, CommittedDomain
    <3>2. QED
      BY <2>2, <3>1 DEF Remembers, Known
  <2>5. QED
    BY <2>3, <2>4
<1>5. ASSUME NEW c \in Clients, client[c].job.key \in Keys, Tears(c) PROVE Remembers(d)'
  <2> DEFINE k == client[c].job.key
  <2>1. /\ Committed' = [Committed EXCEPT ![k] = readAttributes(k)]
        /\ torn' = torn \cup {k} /\ nextVersion' = nextVersion
    BY <1>5 DEF Tears
  <2>2. Known(seen.version)'
    BY <1>1, <2>1 DEF Known
  <2>3. CASE key = k
    BY <2>1, <2>2, <2>3 DEF Remembers, Known
  <2>4. CASE key # k
    <3>1. key \in Keys => Committed'[key] = Committed[key] /\ (key \in torn' <=> key \in torn)
      BY <2>1, <2>4, CommittedDomain
    <3>2. QED
      BY <2>2, <3>1, SMTT(30) DEF Remembers, Known
  <2>5. QED
    BY <2>3, <2>4, SMTT(30)
<1>6. QED
  BY <1>2, <1>3, <1>4, <1>5 DEF Effect

-----------------------------------------------------------------------------
(* One Bucket value: calls under way.                                      *)

UnderWay == \A c \in Clients : Stands(c) /\ Means(c)

LEMMA ReadyStands == \A c \in Clients : client[c].pc = "ready" => Stands(c) /\ Means(c)
BY DEF Stands, Means

LEMMA ReadyStandsNext == \A c \in Clients : client'[c].pc = "ready" => (Stands(c) /\ Means(c))'
<1>1. (\A c \in Clients : client[c].pc = "ready" => Stands(c) /\ Means(c))'
  BY ReadyStands, PTL
<1>2. QED
  BY <1>1

\* A client that is in no call: those that are in one do not notice.
LEMMA CalmUnderWay ==
  ASSUME UnderWay, NEW c \in Clients, Moves(c), client'[c].pc = "ready", UNCHANGED files, Same
  PROVE  UnderWay'
<1>1. \A k : readAttributes(k)' = readAttributes(k)
  BY DEF files, readAttributes
<1>2. ASSUME NEW d \in Clients \ {c} PROVE (Stands(d) /\ Means(d))'
  <2>1. client'[d] = client[d] /\ Committed' = Committed /\ data' = data
    BY DEF Moves, Same, files
  <2>2. Stands(d)'
    BY <1>1, <2>1 DEF UnderWay, Stands
  <2>3. Means(d)'
    BY <2>1, SMTT(30) DEF UnderWay, Means, Closes, Copies, Retags, Deletes, HasWriter
  <2>4. QED
    BY <2>2, <2>3
<1>3. QED
  BY <1>2, ReadyStandsNext DEF UnderWay

LEMMA BeginsUnderWay ==
  ASSUME OneBucket, TypeOK, Locks, NEW c \in Clients, NEW pc \in {"rename", "sidecar", "unlink"},
         NEW job \in Job, Begins(c, pc, job), Due(c, pc, job)
  PROVE  UnderWay'
<1>1. /\ Moves(c) /\ client'[c].pc = pc /\ client'[c].job = job
      /\ client'[c].writer = client[c].writer /\ client'[c].seen = client[c].seen
  BY BeginFields DEF Begins, PCs
<1>2. Quiet /\ \A d \in Clients \ {c} : client[d].pc = "ready"
  BY Solo DEF Begins
<1>3. data' = data /\ \A k : readAttributes(k)' = readAttributes(k)
  BY DEF Begins, files, readAttributes
<1>4. Committed' = Shown
  BY <1>2, CommittedBegins, CommittedQuiet DEF Same
<1>5. job.key \in Keys /\ job.current = readAttributes(job.key) /\ job.current.body = data[job.key]
  BY ReadsObject DEF Due
<1>6. HasWriter(c)' = HasWriter(c)
  BY <1>1 DEF HasWriter
<1>7. Stands(c)'
  <2>1. pc = "sidecar" => job.body = job.current.body
    BY DEF Due
  <2>2. QED
    BY <1>1, <1>3, <1>5, <2>1 DEF Stands
<1>8. Means(c)'
  <2>1. CASE pc = "rename" /\ HasWriter(c)
    <3>1. Closes(c)'
      BY <1>1, <2>1 DEF Due, Closes
    <3>2. QED
      BY <1>1, <1>6, <2>1, <3>1 DEF Means
  <2>2. CASE pc = "rename" /\ ~HasWriter(c)
    <3>1. PICK src \in Keys : LET o == readAttributes(src) IN
            Mem!Exists(o) /\ job.body = o.body /\ job.of = o.of /\ job.md = o.md
      BY <2>2 DEF Due
    <3>2. Committed'[src] = readAttributes(src)
      BY <1>4 DEF Shown
    <3>3. Copies(c)'
      BY <1>1, <3>1, <3>2 DEF Copies, Mem!Exists
    <3>4. QED
      BY <1>1, <1>6, <2>2, <3>3 DEF Means
  <2>3. CASE pc = "sidecar"
    <3>1. Retags(c)' /\ ~HasWriter(c)
      BY <1>1, <2>3 DEF Due, Retags, Mem!Exists
    <3>2. QED
      BY <1>1, <1>6, <2>3, <3>1 DEF Means
  <2>4. CASE pc = "unlink"
    <3>1. Deletes(c)'
      BY <1>1, <2>4 DEF Due, Deletes, Mem!Exists
    <3>2. QED
      BY <1>1, <2>4, <3>1 DEF Means
  <2>5. QED
    BY <2>1, <2>2, <2>3, <2>4
<1>9. QED
  BY <1>1, <1>2, <1>7, <1>8, ReadyStandsNext, SMTT(30) DEF UnderWay, Moves

LEMMA RenamesUnderWay ==
  ASSUME OneBucket, TypeOK, Keyed, Locks, UnderWay, NEW c \in Clients, RenameData(c)
  PROVE  UnderWay'
<1> DEFINE job == client[c].job
<1>1. /\ Moves(c) /\ client'[c].pc = "sidecar" /\ client[c].pc = "rename" /\ client'[c].job = job
      /\ client'[c].writer = client[c].writer
  BY PcFields DEF RenameData, PCs
<1>2. \A d \in Clients \ {c} : client[d].pc = "ready"
  BY <1>1, Solo
<1>3. Stands(c) /\ Means(c) /\ job.key \in Keys
  BY <1>1 DEF UnderWay, Keyed, KeyOf, Ready
<1>4. Committed' = Committed
  BY <1>3, CommittedRenames DEF Same
<1>5. job.current = readAttributes(job.key) /\ job.current.body = data[job.key]
  BY <1>1, <1>3, ReadsObject DEF Stands
<1>6. data'[job.key] = job.body /\ meta' = meta
  BY <1>3 DEF RenameData, TypeOK
<1>7. ASSUME NEW k, k = job.key, job.body = job.current.body
      PROVE  readAttributes(k)' = job.current
  BY <1>5, <1>6, <1>7 DEF readAttributes
<1>8. Stands(c)'
  BY <1>1, <1>6, <1>7 DEF Stands
<1>9. HasWriter(c)' = HasWriter(c) /\ (Closes(c) => Closes(c)') /\ (Copies(c) => Copies(c)')
  BY <1>1, <1>4 DEF HasWriter, Closes, Copies
<1>10. Means(c)'
  BY <1>1, <1>3, <1>9 DEF Means, Retags
<1>11. QED
  BY <1>1, <1>2, <1>8, <1>10, ReadyStandsNext DEF UnderWay, Moves

LEMMA RemovesUnderWay ==
  ASSUME OneBucket, TypeOK, Keyed, Locks, NEW c \in Clients, RemoveData(c)
  PROVE  UnderWay'
<1>1. /\ Moves(c) /\ client'[c].pc = "unmeta" /\ client[c].pc = "unlink"
      /\ client'[c].job = client[c].job
  BY PcFields DEF RemoveData, PCs
<1>2. \A d \in Clients \ {c} : client[d].pc = "ready"
  BY <1>1, Solo
<1>3. data'[client[c].job.key] = 0
  BY <1>1 DEF Keyed, KeyOf, Ready, RemoveData, TypeOK
<1>4. Stands(c)' /\ Means(c)'
  BY <1>1, <1>3 DEF Stands, Means
<1>5. QED
  BY <1>1, <1>2, <1>4, ReadyStandsNext DEF UnderWay, Moves

LEMMA EndsUnderWay ==
  ASSUME OneBucket, TypeOK, Locks, NEW c \in Clients, Moves(c), client[c].pc # "ready", client'[c].pc = "ready"
  PROVE  UnderWay'
<1>1. \A d \in Clients \ {c} : client[d].pc = "ready"
  BY Solo
<1>2. QED
  BY <1>1, ReadyStandsNext DEF UnderWay, Moves

LEMMA CrashUnderWay ==
  ASSUME OneBucket, TypeOK, Locks, UnderWay, NEW b \in Buckets, Crash(b)
  PROVE  UnderWay'
<1>1. \A c \in Clients : client'[c] = IF BucketOf[c] = b THEN NewClient ELSE client[c]
  BY CrashFields
<1>2. CASE \A c \in Clients : BucketOf[c] = b
  BY <1>1, <1>2, Constants, ReadyStandsNext DEF UnderWay
<1>3. CASE \A c \in Clients : BucketOf[c] # b
  <2>1. \A c \in Clients : client'[c] = client[c]
    BY <1>1, <1>3
  <2>2. UNCHANGED <<data, meta>>
    BY CrashFields
  <2>3. Committed' = Committed
    BY <2>1, <2>2, CommittedStays DEF files
  <2>4. \A k : readAttributes(k)' = readAttributes(k)
    BY <2>2 DEF readAttributes
  <2>5. ASSUME NEW d \in Clients PROVE (Stands(d) /\ Means(d))'
    <3>1. Stands(d)'
      BY <2>1, <2>2, <2>4 DEF UnderWay, Stands
    <3>2. Means(d)'
      BY <2>1, <2>3, SMTT(30) DEF UnderWay, Means, Closes, Copies, Retags, Deletes, HasWriter
    <3>3. QED
      BY <3>1, <3>2
  <2>6. QED
    BY <2>5 DEF UnderWay
<1>4. QED
  BY <1>2, <1>3 DEF OneBucket

-----------------------------------------------------------------------------
(* One Bucket value: the invariant.                                        *)

\* A step of c after which c remembers what it did before.
LEMMA OneKeeps ==
  ASSUME TypeOK, OneInv, NEW c \in Clients, Moves(c), Effect, UnderWay',
         client'[c].seen = client[c].seen, client'[c].seenKey = client[c].seenKey
  PROVE  OneInv'
<1>1. ASSUME NEW d \in Clients PROVE Remembers(d)'
  <2>1. client'[d].seen = client[d].seen /\ client'[d].seenKey = client[d].seenKey
    BY DEF Moves
  <2>2. QED
    BY <2>1, RemembersStep DEF OneInv
<1>2. Whole'
  BY WholeStep DEF OneInv
<1>3. QED
  BY <1>1, <1>2 DEF OneInv, UnderWay

\* One that leaves the files alone.
LEMMA OneCalm ==
  ASSUME OneBucket, TypeOK, Locks, OneInv, NEW c \in Clients, Moves(c),
         client[c].pc = "ready", client'[c].pc = "ready", UNCHANGED <<files, torn, nextVersion>>
  PROVE  /\ Same /\ UnderWay' /\ Whole'
         /\ \A d \in Clients \ {c} : Remembers(d)'
         /\ client'[c].seen = client[c].seen /\ client'[c].seenKey = client[c].seenKey => OneInv'
<1>1. Same
  BY CommittedIdle
<1>2. UnderWay' /\ Effect
  BY <1>1, CalmUnderWay DEF OneInv, UnderWay, Effect
<1>3. \A d \in Clients \ {c} : Remembers(d)'
  BY <1>2, RemembersStep DEF OneInv, Moves
<1>4. Whole'
  BY <1>2, WholeStep DEF OneInv
<1>5. QED
  BY <1>1, <1>2, <1>3, <1>4, OneKeeps

LEMMA OneClient ==
  ASSUME OneBucket, TypeInv, Keyed, Locks, Bodies, OneInv, NEW c \in Clients, ClientStep(c)
  PROVE  OneInv'
<1>0. TypeOK
  BY DEF TypeInv
<1>k. HasWriter(c) => client[c].writer.key \in Keys
  BY DEF Keyed, KeyOf
<1>u. UnderWay /\ Stands(c)
  BY DEF OneInv, UnderWay
<1>n. client[c].pc # "ready" => client[c].job.key \in Keys
  BY DEF Keyed, KeyOf, Ready
<1>1. ASSUME NEW k \in Keys, Attributes(c, k) PROVE OneInv'
  <2>1. UNCHANGED <<files, torn, nextVersion>>
    BY <1>1 DEF Attributes, counters
  <2>2. Moves(c) /\ client'[c].pc = "ready" /\ client[c].pc = "ready"
    BY <1>0, <1>1, AttributesFields
  <2>3. /\ Same /\ UnderWay' /\ Whole' /\ \A d \in Clients \ {c} : Remembers(d)'
        /\ client'[c].seen = client[c].seen /\ client'[c].seenKey = client[c].seenKey => OneInv'
    BY <1>0, <2>1, <2>2, OneCalm
  <2>4. CASE client'[c].seen = readAttributes(k) /\ client'[c].seenKey = k
    <3>1. Committed[k] = readAttributes(k)
      BY <1>0, <1>1, Solo, CommittedQuiet DEF Attributes, Shown
    <3>2. Committed'[k] = client'[c].seen
      BY <2>3, <2>4, <3>1 DEF Same
    <3>3. Known(client[c].seen.version)'
      <4>1. Known(readAttributes(k).version)
        BY <1>0, ReadsObject
      <4>2. QED
        BY <2>1, <2>4, <4>1 DEF Known
    <3>4. Remembers(c)'
      BY <2>4, <3>2, <3>3 DEF Remembers
    <3>5. QED
      BY <2>3, <3>4 DEF OneInv, UnderWay
  <2>5. QED
    BY <1>0, <1>1, <2>3, <2>4, AttributesFields
<1>2. ASSUME NEW o \in Mem!Outcomes, Quits(c, o) PROVE OneInv'
  BY <1>0, <1>2, QuitsFields, OneCalm DEF Quits, counters
<1>3. CASE Opens(c)
  <2>1. /\ Moves(c) /\ client'[c].pc = "ready" /\ client[c].pc = "ready"
        /\ client'[c].seen = NoObject /\ client'[c].seenKey = 0
        /\ UNCHANGED <<files, torn, nextVersion>>
    BY <1>0, <1>3, NewWriterFields DEF Opens
  <2>2. UnderWay' /\ Whole' /\ \A d \in Clients \ {c} : Remembers(d)'
    BY <1>0, <2>1, OneCalm
  <2>3. Remembers(c)'
    <3>1. nextVersion' \in Nat
      BY <1>0, <2>1, SMTT(30) DEF TypeOK
    <3>2. QED
      BY <2>1, <3>1, SMTT(30) DEF Remembers, Known, NoObject
  <2>4. QED
    BY <2>2, <2>3 DEF OneInv, UnderWay
<1>4. CASE Cancel(c)
  BY <1>0, <1>4, CancelFields, OneCalm DEF Cancel, counters
<1>5. ASSUME NEW pc \in {"rename", "sidecar", "unlink"}, NEW job \in Job, Begins(c, pc, job),
             Due(c, pc, job)
      PROVE  OneInv'
  <2>1. /\ Moves(c) /\ client'[c].seen = client[c].seen /\ client'[c].seenKey = client[c].seenKey
    BY <1>0, <1>5, BeginFields DEF Begins, PCs
  <2>2. Effect /\ UnderWay'
    BY <1>0, <1>5, CommittedBegins, BeginsUnderWay DEF Effect
  <2>3. QED
    BY <1>0, <2>1, <2>2, OneKeeps
<1>6. CASE CallFails(c)
  <2>1. /\ Moves(c) /\ client'[c].pc = "ready"
        /\ client'[c].seen = client[c].seen /\ client'[c].seenKey = client[c].seenKey
    BY <1>0, <1>6, FailsFields
  <2>2. CASE client[c].pc = "ready"
    <3>1. UNCHANGED <<files, torn, nextVersion>>
      BY <1>6, <2>2 DEF CallFails, counters, Torn
    <3>2. QED
      BY <1>0, <2>1, <2>2, <3>1, OneCalm
  <2>3. CASE client[c].pc # "ready"
    <3>1. Effect
      BY <1>0, <1>n, <1>u, <1>6, <2>3, CommittedFails DEF Effect
    <3>2. UnderWay'
      BY <1>0, <2>1, <2>3, EndsUnderWay
    <3>3. QED
      BY <1>0, <2>1, <3>1, <3>2, OneKeeps
  <2>4. QED
    BY <2>2, <2>3
<1>7. CASE RenameData(c)
  <2>1. /\ Moves(c) /\ client'[c].seen = client[c].seen /\ client'[c].seenKey = client[c].seenKey
    BY <1>0, <1>7, PcFields DEF RenameData, PCs
  <2>2. Effect /\ UnderWay'
    BY <1>0, <1>u, <1>7, CommittedRenames, RenamesUnderWay DEF Effect
  <2>3. QED
    BY <1>0, <2>1, <2>2, OneKeeps
<1>8. CASE WriteSidecar(c)
  <2>1. /\ Moves(c) /\ client'[c].pc = "ready" /\ client[c].pc = "sidecar"
        /\ client'[c].seen = client[c].seen /\ client'[c].seenKey = client[c].seenKey
    BY <1>0, <1>8, ClosedFields DEF WriteSidecar
  <2>2. Effect
    BY <1>n, <1>u, <1>8, <2>1, CommittedStores DEF Effect
  <2>3. UnderWay'
    BY <1>0, <2>1, EndsUnderWay
  <2>4. QED
    BY <1>0, <2>1, <2>2, <2>3, OneKeeps
<1>9. CASE RemoveData(c)
  <2>1. /\ Moves(c) /\ client[c].pc = "unlink"
        /\ client'[c].seen = client[c].seen /\ client'[c].seenKey = client[c].seenKey
    BY <1>0, <1>9, PcFields DEF RemoveData, PCs
  <2>2. Effect /\ UnderWay'
    BY <1>0, <1>n, <1>9, <2>1, CommittedRemoves, RemovesUnderWay DEF Effect
  <2>3. QED
    BY <1>0, <2>1, <2>2, OneKeeps
<1>10. CASE RemoveSidecar(c)
  <2>1. /\ Moves(c) /\ client'[c].pc = "ready" /\ client[c].pc = "unmeta"
        /\ client'[c].seen = client[c].seen /\ client'[c].seenKey = client[c].seenKey
    BY <1>0, <1>10, RemovesFields DEF RemoveSidecar
  <2>2. Effect
    BY <1>0, <1>u, <1>10, CommittedForgets DEF Effect
  <2>3. UnderWay'
    BY <1>0, <2>1, EndsUnderWay
  <2>4. QED
    BY <1>0, <2>1, <2>2, <2>3, OneKeeps
<1>11. QED
  BY <1>0, <1>k, <1>1, <1>2, <1>3, <1>4, <1>5, <1>6, <1>7, <1>8, <1>9, <1>10, Kinds

LEMMA OneCrash ==
  ASSUME OneBucket, TypeInv, Keyed, Locks, OneInv, NEW b \in Buckets, Crash(b)
  PROVE  OneInv'
<1>0. TypeOK
  BY DEF TypeInv
<1>1. \A c \in Clients : client'[c] = IF BucketOf[c] = b THEN NewClient ELSE client[c]
  BY <1>0, CrashFields
<1>2. Effect
  <2>1. \A c \in Clients : Tears(c) => client[c].job.key \in Keys
    BY DEF Tears, Torn, Keyed, KeyOf, Ready
  <2>2. QED
    BY <1>0, <2>1, CommittedCrash DEF Effect, OneInv
<1>3. UnderWay' /\ Whole'
  BY <1>0, <1>2, CrashUnderWay, WholeStep DEF OneInv, UnderWay
<1>4. ASSUME NEW d \in Clients PROVE Remembers(d)'
  <2>1. CASE BucketOf[d] = b
    <3>1. client'[d].seen.version = 0 /\ client'[d].seenKey = 0
      BY <1>1, <2>1, Constants, SMTT(30) DEF NoObject
    <3>2. nextVersion' \in Nat
      BY <1>0, CrashFields, SMTT(30) DEF TypeOK
    <3>3. QED
      BY <3>1, <3>2, SMTT(30) DEF Remembers, Known
  <2>2. CASE BucketOf[d] # b
    BY <1>0, <1>1, <1>2, <2>2, RemembersStep DEF OneInv
  <2>3. QED
    BY <2>1, <2>2
<1>5. QED
  BY <1>3, <1>4 DEF OneInv, UnderWay

LEMMA OneStep ==
  ASSUME OneBucket, TypeInv, Keyed, Locks, Bodies, OneInv, [Next]_vars
  PROVE  OneInv'
<1>1. CASE UNCHANGED vars
  <2>1. UNCHANGED <<data, meta, client, torn, nextVersion>>
    BY <1>1 DEF vars
  <2>2. \A k : readAttributes(k)' = readAttributes(k)
    BY <2>1 DEF readAttributes
  <2>3. Committed' = Committed
    BY <2>1, SMTT(30) DEF Committed, readAttributes
  <2>4. ASSUME NEW c \in Clients PROVE (Stands(c) /\ Means(c) /\ Remembers(c))'
    <3>1. Stands(c)'
      BY <2>1, <2>2 DEF OneInv, Stands
    <3>2. Means(c)'
      BY <2>1, <2>3 DEF OneInv, Means, Closes, Copies, Retags, Deletes, HasWriter
    <3>3. Remembers(c)'
      BY <2>1, <2>3 DEF OneInv, Remembers, Known
    <3>4. QED
      BY <3>1, <3>2, <3>3
  <2>5. Whole'
    BY <2>1, <2>3 DEF OneInv, Whole
  <2>6. QED
    BY <2>4, <2>5 DEF OneInv
<1>2. QED
  BY <1>1, OneClient, OneCrash, NextIsClientOrCrash

LEMMA InitOne == Init => OneInv
<1> SUFFICES ASSUME Init PROVE OneInv
  OBVIOUS
<1>1. \A c \in Clients : client[c] = NewClient
  BY DEF Init
<1>2. Quiet /\ \A k \in Keys : readAttributes(k) = NoObject
  BY <1>1, Constants DEF Init, Quiet, readAttributes
<1>3. Committed = [k \in Keys |-> NoObject]
  BY <1>2, CommittedQuiet DEF Shown
<1>4. ASSUME NEW c \in Clients PROVE Stands(c) /\ Means(c) /\ Remembers(c)
  <2>1. client[c].pc = "ready" /\ client[c].seen.version = 0 /\ client[c].seenKey = 0
    BY <1>1, Constants, SMTT(30) DEF NoObject
  <2>2. Remembers(c)
    BY <2>1, FileAssumption, SMTT(30) DEF Init, Remembers, Known
  <2>3. QED
    BY <2>1, <2>2, ReadyStands
<1>5. Whole
  BY <1>3 DEF Whole, NoObject
<1>6. QED
  BY <1>4, <1>5 DEF OneInv

\* The whole invariant.
THEOREM FileInvariant == Spec => []FileInv
<1>1. Init => FileInv
  BY InitType, InitLocks, InitBodies, InitOne DEF FileInv
<1>2. FileInv /\ [Next]_vars => FileInv'
  <2> SUFFICES ASSUME FileInv, [Next]_vars PROVE FileInv'
    OBVIOUS
  <2>1. TypeInv' /\ Keyed' /\ Locks' /\ Bodies'
    BY TypeStep, LockStep, BodyStep DEF FileInv
  <2>2. OneBucket => OneInv'
    BY OneStep DEF FileInv
  <2>3. OneBucket' <=> OneBucket
    BY DEF OneBucket
  <2>4. QED
    BY <2>1, <2>2, <2>3 DEF FileInv
<1>3. QED
  BY <1>1, <1>2, PTL DEF Spec

LEMMA FreeSees ==
  ASSUME FileInv, OneBucket, NEW c \in Clients, Free(c), NEW k \in Keys
  PROVE  Committed[k] = readAttributes(k)
BY Solo, CommittedQuiet DEF FileInv, TypeInv, Shown

\* "they never observe a half-applied commit" (file.go:13-14): for any number of
\* clients of one Bucket value, whatever fails and whenever the process dies.
THEOREM ReadersSeeNoHalf == OneBucket /\ Spec => []NeverHalfApplied
<1> SUFFICES ASSUME OneBucket PROVE Spec => []NeverHalfApplied
  OBVIOUS
<1>1. FileInv => NeverHalfApplied
  BY FreeSees DEF NeverHalfApplied, FileInv, OneInv, Whole
<1>2. QED
  BY <1>1, FileInvariant, PTL

\* For as long as it matches, a version denotes what its reader saw: for any number
\* of clients of one Bucket value, whatever they store, remove and leave torn.
THEOREM TokensKeepMeaning == OneBucket /\ Spec => []TokenStillMeans
<1> SUFFICES ASSUME OneBucket PROVE Spec => []TokenStillMeans
  BY SMTT(30)
<1>1. FileInv => TokenStillMeans
  <2> SUFFICES ASSUME FileInv, NEW c \in Clients, Free(c),
                      client[c].seenKey \notin torn \cup {0},
                      Mem!Exists(readAttributes(client[c].seenKey)),
                      readAttributes(client[c].seenKey).version = client[c].seen.version
               PROVE  readAttributes(client[c].seenKey) = client[c].seen
    BY DEF TokenStillMeans
  <2>1. client[c].seenKey \in Keys
    BY IsLocal DEF FileInv, TypeInv, Local
  <2>2. Committed[client[c].seenKey] = readAttributes(client[c].seenKey)
    BY <2>1, FreeSees
  <2>3. Remembers(c)
    BY DEF FileInv, OneInv
  <2>4. QED
    BY <2>1, <2>2, <2>3 DEF Remembers
<1>2. QED
  BY <1>1, FileInvariant, PTL

-----------------------------------------------------------------------------
(* The refinement.                                                         *)

LEMMA CallersAt ==
  /\ DOMAIN Callers = Clients
  /\ \A c \in Clients :
       /\ Callers[c] = [writer |-> client[c].writer, seen |-> client[c].seen,
                        seenKey |-> client[c].seenKey]
       /\ Callers[c].writer = client[c].writer /\ Callers[c].seen = client[c].seen
       /\ HasWriter(c) <=> Mem!HasWriter(c)
BY DEF Callers, HasWriter, Mem!HasWriter

LEMMA CallersMove ==
  ASSUME NEW c \in Clients, Moves(c)
  PROVE  Callers' = [Callers EXCEPT ![c] =
           [writer |-> client'[c].writer, seen |-> client'[c].seen, seenKey |-> client'[c].seenKey]]
BY DEF Callers, Moves

LEMMA CallersSame ==
  ASSUME NEW c \in Clients, Moves(c), client'[c].writer = client[c].writer,
         client'[c].seen = client[c].seen, client'[c].seenKey = client[c].seenKey
  PROVE  Callers' = Callers
BY DEF Callers, Moves

LEMMA CallersWriter ==
  ASSUME NEW c \in Clients, NEW w, Moves(c), client'[c].writer = w,
         client'[c].seen = client[c].seen, client'[c].seenKey = client[c].seenKey
  PROVE  Callers' = [Callers EXCEPT ![c].writer = w]
BY CallersMove DEF Callers

\* A call that reports an outcome and changes nothing that MemBucket has, and one
\* that ends a writer.
LEMMA MapsReturn ==
  ASSUME TypeOK, NEW c \in Clients, NEW o, Return(c, o)
  PROVE  Mem!Return(c, o)
BY ReturnFields, CallersSame DEF Return, Reports, Mem!Return, Mem!Reports

LEMMA MapsClosed ==
  ASSUME TypeOK, NEW c \in Clients, NEW o, Closed(c, o)
  PROVE  Mem!Closed(c, o)
BY ClosedFields, CallersWriter DEF Closed, Reports, Mem!Closed, Mem!Reports

MemStutters == UNCHANGED Mem!vars

LEMMA MapsBegin ==
  ASSUME OneBucket, FileInv, NEW c \in Clients, NEW pc \in {"rename", "sidecar", "unlink"},
         NEW job \in Job, Begins(c, pc, job), Due(c, pc, job)
  PROVE  MemStutters
<1>1. TypeOK /\ Locks
  BY DEF FileInv, TypeInv
<1>2. Committed' = Committed
  BY <1>1, CommittedBegins DEF Same
<1>3. Callers' = Callers
  BY <1>1, BeginFields, CallersSame DEF Begins, PCs
<1>4. UNCHANGED <<nextVersion, nextBody, returned>>
  BY DEF Begins, Begin, counters
<1>5. QED
  BY <1>2, <1>3, <1>4 DEF MemStutters, Mem!vars

LEMMA MapsAttributes ==
  ASSUME OneBucket, FileInv, NEW c \in Clients, NEW k \in Keys, Attributes(c, k)
  PROVE  Mem!Attributes(c, k)
<1>1. TypeOK /\ Locks
  BY DEF FileInv, TypeInv
<1>2. Committed[k] = readAttributes(k)
  BY FreeSees DEF Attributes
<1>3. UNCHANGED <<files, torn, nextVersion, nextBody>>
  BY DEF Attributes, counters
<1>4. Committed' = Committed
  BY <1>1, <1>3, AttributesFields, CommittedIdle DEF Same
<1>5. CASE ~Mem!Exists(readAttributes(k))
  <2>1. Return(c, "not found")
    BY <1>5 DEF Attributes
  <2>2. QED
    BY <1>1, <1>2, <1>3, <1>4, <1>5, <2>1, MapsReturn DEF Mem!Attributes
<1>6. CASE Mem!Exists(readAttributes(k))
  <2>1. /\ Moves(c) /\ client'[c].writer = client[c].writer
        /\ client'[c].seen = readAttributes(k) /\ client'[c].seenKey = k /\ Reports(c, "ok")
    BY <1>1, <1>6, AttributesFields
  <2>2. Callers' = [Callers EXCEPT ![c].seen = Committed[k], ![c].seenKey = k]
    BY <1>2, <2>1, CallersMove DEF Callers
  <2>3. QED
    BY <1>2, <1>3, <1>4, <1>6, <2>1, <2>2 DEF Mem!Attributes, Reports, Mem!Reports
<1>7. QED
  BY <1>5, <1>6

LEMMA MapsDelete ==
  ASSUME OneBucket, FileInv, NEW c \in Clients, NEW k \in Keys, NEW pre \in Mem!Asked(client[c].seen),
         Delete(c, k, pre)
  PROVE  Mem!Delete(c, k, pre) \/ MemStutters
<1>1. TypeOK /\ Locks
  BY DEF FileInv, TypeInv
<1>2. CASE \E job \in Job : Begins(c, "unlink", job) /\ Due(c, "unlink", job)
  BY <1>2, MapsBegin
<1>3. ASSUME NEW o, Return(c, o), UNCHANGED lock
      PROVE  Mem!Return(c, o) /\ Committed' = Committed /\ UNCHANGED <<nextVersion, nextBody>>
  <2>1. UNCHANGED <<files, torn, nextVersion, nextBody>> /\ client[c].pc = "ready"
    BY DEF Delete, counters, Idle, Ready
  <2>2. QED
    BY <1>1, <1>3, <2>1, ReturnFields, MapsReturn, CommittedIdle DEF Same
<1>4. Free(c) => Committed[k] = readAttributes(k)
  BY FreeSees
<1>5. CASE Mem!Contradictory(pre) /\ Return(c, "invalid option") /\ UNCHANGED lock
  BY <1>3, <1>5 DEF Mem!Delete
<1>6. CASE /\ ~Mem!Contradictory(pre) /\ Free(c) /\ ~Mem!Exists(readAttributes(k))
           /\ Return(c, "not found") /\ UNCHANGED lock
  BY <1>3, <1>4, <1>6 DEF Mem!Delete
<1>7. CASE /\ ~Mem!Contradictory(pre) /\ Free(c) /\ Mem!Exists(readAttributes(k))
           /\ ~Mem!conditionsPass(pre, readAttributes(k))
           /\ Return(c, "precondition failed") /\ UNCHANGED lock
  BY <1>3, <1>4, <1>7 DEF Mem!Delete
<1>8. CASE /\ ~Mem!Contradictory(pre) /\ Free(c) /\ Mem!Exists(readAttributes(k))
           /\ Mem!conditionsPass(pre, readAttributes(k)) /\ Acquire(c)
  <2>1. client'[c].pc # "ready"
    <3>1. \A o \in {"invalid option", "not found", "precondition failed"} : ~Quits(c, o)
      <4>1. lock'[BucketOf[c]] = c /\ c # lock[BucketOf[c]]
        BY <1>1, <1>8, FileAssumption DEF Acquire, Free, TypeOK
      <4>2. QED
        BY <4>1 DEF Quits
    <3>2. PICK job \in Job : Begins(c, "unlink", job) /\ Due(c, "unlink", job)
      BY <1>1, <3>1, DeleteKinds
    <3>3. QED
      BY <1>1, <3>2, BeginFields DEF Begins, PCs
  <2>2. ~\E o \in {"invalid option", "not found", "precondition failed"} : Quits(c, o)
    BY <1>1, <2>1, QuitsFields DEF Mem!Outcomes
  <2>3. QED
    BY <1>1, <1>2, <2>2, DeleteKinds
<1>9. QED
  BY <1>5, <1>6, <1>7, <1>8 DEF Delete

\* A call that finds nothing under its key.
LEMMA MapsMissing ==
  ASSUME OneBucket, FileInv, NEW c \in Clients, NEW k \in Keys, client[c].pc = "ready", Free(c),
         ~Mem!Exists(readAttributes(k)), Return(c, "not found"), UNCHANGED <<files, counters, torn>>
  PROVE  /\ ~Mem!Exists(Committed[k]) /\ Mem!Return(c, "not found")
         /\ UNCHANGED <<Committed, nextVersion, nextBody>>
<1>1. TypeOK /\ Locks
  BY DEF FileInv, TypeInv
<1>2. Committed[k] = readAttributes(k) /\ UNCHANGED <<nextVersion, nextBody>>
  BY FreeSees DEF counters
<1>3. Committed' = Committed
  BY <1>1, <1>2, ReturnFields, CommittedIdle DEF Same
<1>4. QED
  BY <1>1, <1>2, <1>3, MapsReturn

LEMMA MapsCopy ==
  ASSUME OneBucket, FileInv, NEW c \in Clients, NEW k \in Keys, NEW src \in Keys, Copy(c, k, src)
  PROVE  Mem!Copy(c, k, src) \/ MemStutters
<1>1. TypeOK
  BY DEF FileInv, TypeInv
<1>2. CASE ~Mem!Exists(readAttributes(src))
  <2>1. /\ client[c].pc = "ready" /\ Free(c) /\ Return(c, "not found")
        /\ UNCHANGED <<files, counters, torn>>
    BY <1>2 DEF Copy, Idle, Ready
  <2>2. QED
    BY <1>2, <2>1, MapsMissing DEF Mem!Copy
<1>3. CASE Mem!Exists(readAttributes(src))
  <2>1. UNCHANGED returned
    BY <1>3 DEF Copy, Begin
  <2>2. Acquire(c) /\ Free(c)
    BY <1>3 DEF Copy
  <2>3. lock' # lock
    BY <1>1, <2>2, FileAssumption DEF Acquire, Free, TypeOK
  <2>4. ~Quits(c, "not found")
    BY <2>3 DEF Quits
  <2>5. QED
    BY <1>1, <2>4, CopyKinds, MapsBegin
<1>4. QED
  BY <1>2, <1>3

LEMMA MapsUpdate ==
  ASSUME OneBucket, FileInv, NEW c \in Clients, NEW k \in Keys, UpdateMetadata(c, k)
  PROVE  Mem!UpdateMetadata(c, k) \/ MemStutters
<1>1. TypeOK
  BY DEF FileInv, TypeInv
<1>2. CASE ~Mem!Exists(readAttributes(k))
  <2>1. /\ client[c].pc = "ready" /\ Free(c) /\ Return(c, "not found")
        /\ UNCHANGED <<files, counters, torn>>
    BY <1>2 DEF UpdateMetadata, Idle, Ready
  <2>2. QED
    BY <1>2, <2>1, MapsMissing DEF Mem!UpdateMetadata
<1>3. CASE Mem!Exists(readAttributes(k))
  <2>1. Acquire(c) /\ Free(c)
    BY <1>3 DEF UpdateMetadata
  <2>2. lock' # lock
    BY <1>1, <2>1, FileAssumption DEF Acquire, Free, TypeOK
  <2>3. ~Quits(c, "not found")
    BY <2>2 DEF Quits
  <2>4. QED
    BY <1>1, <2>3, UpdateKinds, MapsBegin
<1>4. QED
  BY <1>2, <1>3

LEMMA MapsNewWriter ==
  ASSUME OneBucket, FileInv, NEW c \in Clients, NEW k \in Keys, NEW pre \in Mem!Asked(client[c].seen),
         NEW md5 \in Mem!Md5(pre), NewWriter(c, k, pre, md5)
  PROVE  Mem!NewWriter(c, k, pre, md5)
<1>1. TypeOK /\ Locks
  BY DEF FileInv, TypeInv
<1>2. ~Mem!HasWriter(c) /\ client[c].pc = "ready"
  BY CallersAt DEF NewWriter, Idle, Ready
<1>3. CASE Mem!Contradictory(pre)
  <2>1. Return(c, "invalid option") /\ UNCHANGED <<files, torn, nextVersion, nextBody>>
    BY <1>3 DEF NewWriter
  <2>2. Committed' = Committed
    BY <1>1, <1>2, <2>1, ReturnFields, CommittedIdle DEF Same
  <2>3. QED
    BY <1>1, <1>2, <1>3, <2>1, <2>2, MapsReturn DEF Mem!NewWriter
<1>4. CASE ~Mem!Contradictory(pre)
  <2> DEFINE w == [key |-> k, pre |-> pre, body |-> nextBody + 1, md5 |-> md5, cancelled |-> FALSE]
  <2>1. /\ Moves(c) /\ client'[c].pc = "ready" /\ client'[c].writer = w
        /\ client'[c].seen = NoObject /\ client'[c].seenKey = 0
        /\ nextBody < MaxBodies /\ nextBody' = nextBody + 1
        /\ UNCHANGED <<files, nextVersion, torn, returned>>
    BY <1>1, <1>4, NewWriterFields
  <2>2. Committed' = Committed
    BY <1>1, <1>2, <2>1, CommittedIdle DEF Same
  <2> HIDE DEF w
  <2>3. Callers' = [Callers EXCEPT ![c] = [Mem!NewClient EXCEPT !.writer = w]]
    <3>1. [Mem!NewClient EXCEPT !.writer = w] = [writer |-> w, seen |-> NoObject, seenKey |-> 0]
      <4>1. Mem!NoObject = NoObject
        BY DEF Mem!NoObject, NoObject
      <4>2. QED
        BY <4>1, SMTT(30) DEF Mem!NewClient
    <3>2. QED
      BY <2>1, <3>1, CallersMove
  <2>4. QED
    BY <1>2, <1>4, <2>1, <2>2, <2>3 DEF Mem!NewWriter, w
<1>5. QED
  BY <1>3, <1>4

LEMMA MapsCancel ==
  ASSUME OneBucket, FileInv, NEW c \in Clients, Cancel(c)
  PROVE  Mem!Cancel(c)
<1>1. TypeOK /\ Locks
  BY DEF FileInv, TypeInv
<1>2. /\ Moves(c) /\ client'[c].pc = "ready" /\ client[c].pc = "ready"
      /\ client'[c].writer = [client[c].writer EXCEPT !.cancelled = TRUE]
      /\ client'[c].seen = client[c].seen /\ client'[c].seenKey = client[c].seenKey
  BY <1>1, CancelFields
<1>3. UNCHANGED <<files, torn, nextVersion, nextBody, returned>>
  BY DEF Cancel, counters
<1>4. Committed' = Committed
  BY <1>1, <1>2, <1>3, CommittedIdle DEF Same
<1>5. Callers' = [Callers EXCEPT ![c].writer.cancelled = TRUE]
  BY <1>2, CallersWriter, CallersAt, SMTT(30)
<1>6. QED
  BY <1>3, <1>4, <1>5, CallersAt DEF Cancel, Mem!Cancel

\* A writer's last call that stores nothing.
LEMMA MapsDrop ==
  ASSUME OneBucket, FileInv, NEW c \in Clients, NEW o, client[c].pc = "ready", Closed(c, o),
         UNCHANGED <<files, counters, torn>>
  PROVE  Mem!Closed(c, o) /\ UNCHANGED <<Committed, nextVersion, nextBody>>
<1>1. TypeOK /\ Locks
  BY DEF FileInv, TypeInv
<1>2. UNCHANGED <<nextVersion, nextBody>>
  BY DEF counters
<1>3. Committed' = Committed
  BY <1>1, <1>2, ClosedFields, CommittedIdle DEF Same
<1>4. QED
  BY <1>1, <1>2, <1>3, MapsClosed

LEMMA MapsClose ==
  ASSUME OneBucket, FileInv, NEW c \in Clients, Close(c)
  PROVE  Mem!Close(c) \/ MemStutters
<1> DEFINE w == client[c].writer
<1>1. TypeOK /\ HasWriter(c) /\ client[c].pc = "ready" /\ UNCHANGED <<files, counters, torn>>
  BY DEF FileInv, TypeInv, Close, Ready
<1>2. Mem!HasWriter(c) /\ Callers[c].writer = w /\ w.key \in Keys
  BY <1>1, CallersAt DEF FileInv, Keyed, KeyOf
<1>3. CASE w.cancelled /\ Closed(c, "error")
  BY <1>1, <1>2, <1>3, MapsDrop DEF Mem!Close
<1>4. CASE ~w.cancelled /\ ~w.md5 /\ Closed(c, "invalid option")
  BY <1>1, <1>2, <1>4, MapsDrop DEF Mem!Close
<1>5. CASE /\ ~w.cancelled /\ w.md5 /\ Free(c) /\ ~Mem!conditionsPass(w.pre, readAttributes(w.key))
           /\ Closed(c, "precondition failed")
  <2>1. Committed[w.key] = readAttributes(w.key)
    BY <1>2, <1>5, FreeSees
  <2>2. QED
    BY <1>1, <1>2, <1>5, <2>1, MapsDrop DEF Mem!Close
<1>6. CASE Free(c) /\ Acquire(c)
  <2>1. lock' # lock
    BY <1>1, <1>6, FileAssumption DEF Acquire, Free, TypeOK
  <2>2. \A o : ~Quits(c, o)
    BY <2>1 DEF Quits
  <2>3. QED
    BY <1>1, <1>2, <2>2, CloseKinds, MapsBegin
<1>7. QED
  BY <1>3, <1>4, <1>5, <1>6 DEF Close

LEMMA MapsCloseWithError ==
  ASSUME OneBucket, FileInv, NEW c \in Clients, CloseWithError(c)
  PROVE  Mem!CloseWithError(c)
BY MapsDrop, CallersAt DEF CloseWithError, Ready, Mem!CloseWithError

\* The steps of a call that is under way.  Its first rename or remove of two is
\* not yet, and its last remove is no longer, a step of MemBucket.
LEMMA MapsRename ==
  ASSUME OneBucket, FileInv, NEW c \in Clients, RenameData(c)
  PROVE  MemStutters
<1>1. TypeOK /\ Keyed /\ Locks /\ Stands(c)
  BY DEF FileInv, TypeInv, OneInv
<1>2. Committed' = Committed
  BY <1>1, CommittedRenames DEF Same
<1>3. Callers' = Callers
  BY <1>1, PcFields, CallersSame DEF RenameData, PCs
<1>4. UNCHANGED <<nextVersion, nextBody, returned>>
  BY DEF RenameData, counters
<1>5. QED
  BY <1>2, <1>3, <1>4 DEF MemStutters, Mem!vars

LEMMA MapsForget ==
  ASSUME OneBucket, FileInv, NEW c \in Clients, RemoveSidecar(c)
  PROVE  MemStutters
<1>1. TypeOK /\ Keyed /\ Locks /\ Stands(c)
  BY SMTT(30) DEF FileInv, TypeInv, OneInv
<1>2. Committed' = Committed
  BY <1>1, CommittedForgets, SMTT(30) DEF Same
<1>3. Callers' = Callers
  BY <1>1, RemovesFields, CallersSame
<1>4. UNCHANGED <<nextVersion, nextBody, returned>>
  BY DEF RemoveSidecar, counters
<1>5. QED
  BY <1>2, <1>3, <1>4, SMTT(30) DEF MemStutters, Mem!vars

LEMMA MapsRemove ==
  ASSUME OneBucket, FileInv, NEW c \in Clients, RemoveData(c)
  PROVE  \E k \in Keys, pre \in Mem!Asked(Callers[c].seen) : Mem!Delete(c, k, pre)
<1> DEFINE k == client[c].job.key
<1>1. TypeOK /\ Keyed /\ Locks /\ Stands(c) /\ Means(c) /\ client[c].pc = "unlink"
  BY DEF FileInv, TypeInv, OneInv, RemoveData
<1>2. Committed' = [Committed EXCEPT ![k] = NoObject]
  BY <1>1, CommittedRemoves DEF Removes
<1>3. k \in Keys
  BY <1>1 DEF Keyed, KeyOf, Ready
<1>4. Committed[k] = client[c].job.current
  <2>1. Quiet
    BY <1>1, Solo DEF Quiet
  <2>2. QED
    BY <1>1, <1>3, <2>1, CommittedQuiet DEF Stands, Shown
<1>5. PICK pre \in Mem!Asked(client[c].seen) :
        ~Mem!Contradictory(pre) /\ Mem!conditionsPass(pre, client[c].job.current)
  BY <1>1 DEF Means, Deletes
<1>6. Mem!Exists(client[c].job.current)
  BY <1>1 DEF Means, Deletes
<1>7. Callers' = Callers /\ Mem!Reports(c, "ok") /\ UNCHANGED <<nextVersion, nextBody>>
  BY <1>1, PcFields, CallersSame DEF RemoveData, PCs, counters, Reports, Mem!Reports
<1>8. Mem!NoObject = NoObject
  BY DEF Mem!NoObject, NoObject
<1> HIDE DEF k
<1>9. Mem!Delete(c, k, pre)
  BY <1>2, <1>4, <1>5, <1>6, <1>7, <1>8 DEF Mem!Delete, Mem!Return
<1>10. QED
  BY <1>3, <1>9, CallersAt

LEMMA Retagged ==
  ASSUME NEW o \in Mem!Object, NEW v \in Mem!Tokens
  PROVE  [o EXCEPT !.md = TRUE, !.version = v] = [body |-> o.body, of |-> o.of, md |-> TRUE, version |-> v]
<1> DEFINE r == [o EXCEPT !.md = TRUE, !.version = v]
<1>1. r.md = TRUE /\ r.version = v /\ r.body = o.body /\ r.of = o.of /\ r \in Mem!Object
  BY DEF Mem!Object
<1> HIDE DEF r
<1>2. r = [body |-> o.body, of |-> o.of, md |-> TRUE, version |-> v]
  BY <1>1 DEF Mem!Object
<1>3. QED
  BY <1>2 DEF r

\* The sidecar's rename is the step of MemBucket that a Close, a copy or a
\* metadata update is.
LEMMA MapsSidecar ==
  ASSUME OneBucket, FileInv, NEW c \in Clients, WriteSidecar(c)
  PROVE  \/ Mem!Close(c)
         \/ \E k, src \in Keys : Mem!Copy(c, k, src)
         \/ \E k \in Keys : Mem!UpdateMetadata(c, k)
<1> DEFINE job == client[c].job
           new == [body |-> job.body, of |-> job.of, md |-> job.md, version |-> nextVersion + 1]
<1>1. /\ TypeOK /\ TypeInv /\ Keyed /\ Locks /\ Bodies /\ Stands(c) /\ Means(c)
      /\ client[c].pc = "sidecar"
  BY DEF FileInv, TypeInv, OneInv, WriteSidecar
<1>2. /\ Committed' = [Committed EXCEPT ![job.key] = new]
      /\ nextVersion < MaxVersion /\ nextVersion' = nextVersion + 1
  BY <1>1, CommittedStores DEF Stores
<1>3. job.key \in Keys /\ job \in Job
  BY <1>1 DEF Keyed, KeyOf, Ready, TypeOK
<1>4. Committed[job.key] = job.current
  <2>1. Only(c)
    BY <1>1, Solo DEF Only
  <2>2. QED
    BY <1>3, <2>1, CommittedOnly DEF ShownBut
<1>5. Mem!Closed(c, "ok") /\ nextBody' = nextBody
  BY <1>1, MapsClosed DEF WriteSidecar
<1>6. CASE HasWriter(c)
  <2>1. Closes(c)
    BY <1>1, <1>6 DEF Means
  <2>2. Mem!HasWriter(c) /\ Callers[c].writer = client[c].writer
    BY <1>6, CallersAt
  <2>3. new = [body |-> client[c].writer.body, of |-> client[c].writer.body, md |-> FALSE,
               version |-> nextVersion + 1]
    BY <1>3, <2>1 DEF Closes, Job
  <2>4. /\ ~client[c].writer.cancelled /\ client[c].writer.md5
        /\ Mem!conditionsPass(client[c].writer.pre, Committed[client[c].writer.key])
        /\ job.key = client[c].writer.key
    BY <1>4, <2>1 DEF Closes
  <2> HIDE DEF job, new
  <2>5. QED
    BY <1>2, <1>5, <2>2, <2>3, <2>4 DEF Mem!Close
<1>7. CASE ~HasWriter(c)
  <2>1. Mem!Return(c, "ok")
    <3>1. Callers' = Callers
      BY <1>1, <1>7, ClosedFields, CallersSame DEF WriteSidecar, HasWriter
    <3>2. QED
      BY <1>5, <3>1 DEF Mem!Closed, Mem!Return
  <2>2. CASE Copies(c)
    <3>1. PICK src \in Keys : /\ Mem!Exists(Committed[src]) /\ job.body = Committed[src].body
                              /\ job.of = Committed[src].of /\ job.md = Committed[src].md
      BY <2>2 DEF Copies
    <3>2. Committed[src] \in Mem!Object
      BY <1>1, CommittedObject
    <3>3. new = [Committed[src] EXCEPT !.version = nextVersion + 1]
      BY <3>1, <3>2, SMTT(30) DEF Mem!Object
    <3> HIDE DEF job, new
    <3>4. Mem!Copy(c, job.key, src)
      BY <1>2, <1>5, <2>1, <3>1, <3>3 DEF Mem!Copy
    <3>5. QED
      BY <1>3, <3>4
  <2>3. CASE Retags(c)
    <3>1. /\ Mem!Exists(Committed[job.key]) /\ job.md /\ job.body = Committed[job.key].body
          /\ job.of = Committed[job.key].of
      BY <1>4, <2>3 DEF Retags
    <3>2. Committed[job.key] \in Mem!Object
      BY <1>3, <1>4 DEF Job
    <3>3. new = [Committed[job.key] EXCEPT !.md = TRUE, !.version = nextVersion + 1]
      <4>1. job.md = TRUE
        BY <1>3, <3>1 DEF Job
      <4>2. nextVersion + 1 \in Mem!Tokens
        BY <1>1, <1>2, FileAssumption, SMTT(30) DEF TypeOK, Mem!Tokens
      <4> HIDE DEF job
      <4>3. QED
        BY <3>1, <3>2, <4>1, <4>2, Retagged
    <3> HIDE DEF job, new
    <3>4. Committed' = [Committed EXCEPT ![job.key].md = TRUE, ![job.key].version = nextVersion + 1]
      BY <1>2, <1>3, <3>3, CommittedDomain
    <3>5. Mem!UpdateMetadata(c, job.key)
      BY <1>2, <1>5, <2>1, <3>1, <3>4 DEF Mem!UpdateMetadata
    <3>6. QED
      BY <1>3, <3>5
  <2>4. QED
    BY <1>1, <1>7, <2>2, <2>3 DEF Means
<1>8. QED
  BY <1>6, <1>7

\* A failure or a crash is one of MemBucket's, or a tear.
LEMMA MapsFails ==
  ASSUME OneBucket, FileInv, NEW c \in Clients, CallFails(c)
  PROVE  Mem!Fail(c) \/ Tear
<1>1. TypeOK /\ Keyed /\ Locks /\ Stands(c)
  BY SMTT(30) DEF FileInv, TypeInv, OneInv
<1>2. UNCHANGED <<nextVersion, nextBody>> /\ UNCHANGED counters /\ failures' = failures + 1
  BY DEF CallFails, counters, FailOnce
<1>3. CASE Same
  <2>1. Mem!Closed(c, "error") \/ Mem!Return(c, "error")
    BY <1>1, MapsClosed, MapsReturn DEF CallFails
  <2>2. QED
    BY <1>2, <1>3, <2>1 DEF Same, Mem!Fail
<1>4. CASE Tears(c)
  BY <1>1, <1>2, <1>4, FailsFields DEF Tears, Tear
<1>5. QED
  BY <1>1, <1>3, <1>4, CommittedFails

LEMMA MapsCrash ==
  ASSUME OneBucket, FileInv, NEW b \in Buckets, Crash(b)
  PROVE  (\E gone \in SUBSET Clients : Mem!Vanish(gone)) \/ Tear
<1> DEFINE mine == {c \in Clients : BucketOf[c] = b}
<1>1. TypeOK /\ Keyed /\ Locks /\ \A c \in Clients : Stands(c)
  BY DEF FileInv, TypeInv, OneInv
<1>2. /\ UNCHANGED <<nextVersion, nextBody, returned>> /\ UNCHANGED counters
      /\ failures' = failures + 1
  BY DEF Crash, counters, FailOnce
<1>3. \A c \in Clients : client'[c] = IF BucketOf[c] = b THEN NewClient ELSE client[c]
  BY <1>1, CrashFields
<1>4. CASE Same
  <2>1. Callers' = [c \in Clients |-> IF c \in mine THEN Mem!NewClient ELSE Callers[c]]
    <3>1. Mem!NoObject = NoObject
      BY DEF Mem!NoObject, NoObject
    <3>2. ASSUME NEW c \in Clients
          PROVE  [writer |-> client'[c].writer, seen |-> client'[c].seen,
                  seenKey |-> client'[c].seenKey]
                   = IF c \in mine THEN Mem!NewClient ELSE Callers[c]
      BY <1>3, <3>1, CallersAt, Constants DEF Mem!NewClient
    <3> HIDE DEF mine
    <3>3. QED
      BY <3>2 DEF Callers
  <2>2. mine \in SUBSET Clients
    OBVIOUS
  <2>3. Mem!Vanish(mine)
    BY <1>2, <1>4, <2>1 DEF Same, Mem!Vanish
  <2>4. QED
    BY <2>2, <2>3
<1>5. CASE \E c \in Clients : Tears(c) /\ BucketOf[c] = b
  <2>1. PICK c \in Clients : Tears(c) /\ BucketOf[c] = b
    BY <1>5
  <2>2. client'[c].pc = "ready"
    BY <1>3, <2>1, Constants
  <2>3. QED
    BY <1>2, <2>1, <2>2 DEF Tears, Tear
<1>6. QED
  BY <1>1, <1>4, <1>5, CommittedCrash

LEMMA MapsClient ==
  ASSUME OneBucket, FileInv, NEW c \in Clients, ClientStep(c)
  PROVE  Mem!Next \/ Tear \/ MemStutters
<1>1. ASSUME NEW k \in Keys, Attributes(c, k) PROVE Mem!Next
  BY <1>1, MapsAttributes DEF Mem!Next
<1>2. ASSUME NEW k \in Keys, UpdateMetadata(c, k) PROVE Mem!Next \/ MemStutters
  BY <1>2, MapsUpdate DEF Mem!Next
<1>3. ASSUME NEW k \in Keys, NEW src \in Keys, Copy(c, k, src) PROVE Mem!Next \/ MemStutters
  BY <1>3, MapsCopy DEF Mem!Next
<1>4. ASSUME NEW k \in Keys, NEW pre \in Mem!Asked(client[c].seen), Delete(c, k, pre)
      PROVE  Mem!Next \/ MemStutters
  BY <1>4, MapsDelete, CallersAt DEF Mem!Next
<1>5. ASSUME NEW k \in Keys, NEW pre \in Mem!Asked(client[c].seen), NEW md5 \in Mem!Md5(pre),
             NewWriter(c, k, pre, md5)
      PROVE  Mem!Next
  <2>1. Mem!NewWriter(c, k, pre, md5) /\ pre \in Mem!Asked(Callers[c].seen)
    BY <1>5, MapsNewWriter, CallersAt
  <2>2. QED
    BY <2>1 DEF Mem!Next
<1>6. CASE Cancel(c) \/ Close(c) \/ CloseWithError(c)
  BY <1>6, MapsCancel, MapsClose, MapsCloseWithError DEF Mem!Next
<1>7. CASE CallFails(c)
  BY <1>7, MapsFails DEF Mem!Next
<1>8. CASE RenameData(c) \/ RemoveSidecar(c)
  BY <1>8, MapsRename, MapsForget
<1>9. CASE RemoveData(c)
  BY <1>9, MapsRemove DEF Mem!Next
<1>10. CASE WriteSidecar(c)
  BY <1>10, MapsSidecar DEF Mem!Next
<1>11. QED
  BY <1>1, <1>2, <1>3, <1>4, <1>5, <1>6, <1>7, <1>8, <1>9, <1>10 DEF ClientStep, Locked

\* "The same conditional-write semantics" (file.go:2-3): through one Bucket value
\* the data file, its sidecar and the mutex behave as the in-memory driver's map
\* does.  A call takes effect, with the same outcome, at the rename of its
\* sidecar or the removal of its data file; the one other thing that may happen
\* is a commit torn between its two renames by a failure or a crash.
THEOREM FileIsMem == OneBucket /\ Spec => IsMemBucket
<1> SUFFICES ASSUME OneBucket PROVE Spec => IsMemBucket
  OBVIOUS
<1>1. Init => Mem!Init
  <2> SUFFICES ASSUME Init PROVE Mem!Init
    OBVIOUS
  <2>1. \A c \in Clients : client[c] = NewClient
    BY DEF Init
  <2>2. Quiet /\ \A k \in Keys : readAttributes(k) = NoObject
    BY <2>1, Constants DEF Init, Quiet, readAttributes
  <2>3. Mem!NoObject = NoObject
    BY DEF Mem!NoObject, NoObject
  <2>4. Committed = [k \in Keys |-> Mem!NoObject]
    BY <2>2, <2>3, CommittedQuiet DEF Shown
  <2>5. Callers = [c \in Clients |-> Mem!NewClient]
    BY <2>1, <2>3, Constants DEF Callers, Mem!NewClient
  <2>6. QED
    BY <2>4, <2>5 DEF Init, Mem!Init
<1>2. FileInv /\ [Next]_vars => [Mem!Next \/ Tear]_(Mem!vars)
  <2> SUFFICES ASSUME FileInv, [Next]_vars PROVE Mem!Next \/ Tear \/ MemStutters
    BY DEF MemStutters
  <2>1. CASE \E c \in Clients : ClientStep(c)
    BY <2>1, MapsClient
  <2>2. CASE \E b \in Buckets : Crash(b)
    BY <2>2, MapsCrash DEF Mem!Next
  <2>3. CASE UNCHANGED vars
    <3>1. UNCHANGED <<Committed, Callers>>
      BY <2>3, SMTT(30) DEF vars, files, Committed, Callers, readAttributes
    <3>2. QED
      BY <2>3, <3>1 DEF MemStutters, Mem!vars, vars, counters
  <2>4. QED
    BY <2>1, <2>2, <2>3, NextIsClientOrCrash
<1>3. Spec => []FileInv
  BY FileInvariant
<1>4. QED
  BY <1>1, <1>2, <1>3, PTL DEF Spec, IsMemBucket
=============================================================================
