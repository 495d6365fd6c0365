----------------------------- MODULE MemBucket ------------------------------
(***************************************************************************)
(* The in-memory driver of mem/mem.go: a map of objects behind one mutex.  *)
(* Every call is atomic, which makes this module two things at once: the   *)
(* model of mem.go and the abstract specification that the file driver,    *)
(* "the same conditional-write semantics", has to implement.               *)
(*                                                                         *)
(* A body stands for everything one writer wrote: each NewWriter gets a    *)
(* body of its own.  The headers and the size, MD5 and metadata of an      *)
(* object are told apart by the body they were computed from (of) and by   *)
(* whether UpdateMetadata replaced the map (md).  Version 0 is both the    *)
(* empty token and the version of an absent object.                        *)
(***************************************************************************)
EXTENDS Naturals

CONSTANTS
  Clients,      \* goroutines that use the bucket
  NoClient,
  Keys,
  MaxBodies,    \* bound on the writers opened
  MaxVersion    \* bound on the versions handed out

VARIABLES
  objects,      \* objects[k]: the object under k
  nextVersion,  \* the version handed out last
  nextBody,     \* the body handed out last
  client,       \* client[c]: the writer that c has open, the object it saw last
  returned      \* which call returned last, and what

vars == <<objects, nextVersion, nextBody, client, returned>>

Tokens == 0 .. (MaxVersion + MaxBodies)
Object == [body : 0 .. MaxBodies, of : 0 .. MaxBodies, md : BOOLEAN, version : Tokens]
NoObject == [body |-> 0, of |-> 0, md |-> FALSE, version |-> 0]
Exists(o) == o # NoObject

Preconditions == [IfNotExists : BOOLEAN, IfMatch : Tokens, IfNotMatch : Tokens]
Unconditional == [IfNotExists |-> FALSE, IfMatch |-> 0, IfNotMatch |-> 0]

\* A writer: its key and options, and whether its context was cancelled and its
\* content is what the declared MD5 says.
Writer ==
  [key : Keys \cup {0}, pre : Preconditions, body : 0 .. MaxBodies,
   md5 : BOOLEAN, cancelled : BOOLEAN]
NoWriter ==
  [key |-> 0, pre |-> Unconditional, body |-> 0, md5 |-> TRUE, cancelled |-> FALSE]

Outcomes == {"ok", "not found", "precondition failed", "invalid option", "error"}
NewClient == [writer |-> NoWriter, seen |-> NoObject, seenKey |-> 0]

-----------------------------------------------------------------------------
(* Preconditions.                                                          *)

\* CompilePreconditions: an empty version is no condition, two are an error.
Contradictory(pre) ==
  \/ pre.IfNotExists /\ (pre.IfMatch # 0 \/ pre.IfNotMatch # 0)
  \/ pre.IfMatch # 0 /\ pre.IfNotMatch # 0

conditionsPass(pre, current) ==
  CASE pre.IfNotExists -> ~Exists(current)
    [] ~pre.IfNotExists /\ pre.IfMatch # 0 -> Exists(current) /\ current.version = pre.IfMatch
    [] ~pre.IfNotExists /\ pre.IfMatch = 0 /\ pre.IfNotMatch # 0 ->
         ~Exists(current) \/ current.version # pre.IfNotMatch
    [] OTHER -> TRUE

\* What a caller can ask for: it knows the version it saw last.
Asked(seen) ==
  {Unconditional,
   [Unconditional EXCEPT !.IfNotExists = TRUE],
   [Unconditional EXCEPT !.IfMatch = seen.version],
   [Unconditional EXCEPT !.IfNotMatch = seen.version],
   [Unconditional EXCEPT !.IfNotExists = TRUE, !.IfMatch = seen.version]}

\* Whether a writer's content is what its declared MD5 says.  The check comes
\* before the condition's: content that is not is tried without a condition.
Md5(pre) == {TRUE, pre # Unconditional}

-----------------------------------------------------------------------------
(* The calls.                                                              *)

Reports(c, outcome) == returned' = [by |-> c, outcome |-> outcome]
\* A call that changes nothing of the caller's, and a writer's last call.
Return(c, outcome) == Reports(c, outcome) /\ UNCHANGED client
Closed(c, outcome) == Reports(c, outcome) /\ client' = [client EXCEPT ![c].writer = NoWriter]

HasWriter(c) == client[c].writer # NoWriter

Attributes(c, k) ==
  /\ \/ /\ Exists(objects[k])
        /\ client' = [client EXCEPT ![c].seen = objects[k], ![c].seenKey = k]
        /\ Reports(c, "ok")
     \/ ~Exists(objects[k]) /\ Return(c, "not found")
  /\ UNCHANGED <<objects, nextVersion, nextBody>>

\* The reader is given a copy of the body and of the attributes.
NewRangeReader(c, k) == Attributes(c, k)

Copy(c, dst, src) ==
  \/ /\ Exists(objects[src]) /\ nextVersion < MaxVersion
     /\ nextVersion' = nextVersion + 1
     /\ objects' = [objects EXCEPT ![dst] = [objects[src] EXCEPT !.version = nextVersion + 1]]
     /\ Return(c, "ok")
     /\ UNCHANGED nextBody
  \/ /\ ~Exists(objects[src])
     /\ Return(c, "not found")
     /\ UNCHANGED <<objects, nextVersion, nextBody>>

Delete(c, k, pre) ==
  LET o == objects[k] IN
  /\ \/ Contradictory(pre) /\ Return(c, "invalid option") /\ UNCHANGED objects
     \/ ~Contradictory(pre) /\ ~Exists(o) /\ Return(c, "not found") /\ UNCHANGED objects
     \/ /\ ~Contradictory(pre) /\ Exists(o) /\ ~conditionsPass(pre, o)
        /\ Return(c, "precondition failed")
        /\ UNCHANGED objects
     \/ /\ ~Contradictory(pre) /\ Exists(o) /\ conditionsPass(pre, o)
        /\ objects' = [objects EXCEPT ![k] = NoObject]
        /\ Return(c, "ok")
  /\ UNCHANGED <<nextVersion, nextBody>>

UpdateMetadata(c, k) ==
  \/ /\ Exists(objects[k]) /\ nextVersion < MaxVersion
     /\ nextVersion' = nextVersion + 1
     /\ objects' = [objects EXCEPT ![k].md = TRUE, ![k].version = nextVersion + 1]
     /\ Return(c, "ok")
     /\ UNCHANGED nextBody
  \/ /\ ~Exists(objects[k])
     /\ Return(c, "not found")
     /\ UNCHANGED <<objects, nextVersion, nextBody>>

\* NewWriter checks nothing but its options; WriteAll and Upload open a writer
\* too.  The caller has used what it saw and reads again before the next write.
NewWriter(c, k, pre, md5) ==
  /\ ~HasWriter(c)
  /\ \/ /\ Contradictory(pre)
        /\ Return(c, "invalid option")
        /\ UNCHANGED nextBody
     \/ /\ ~Contradictory(pre) /\ nextBody < MaxBodies
        /\ nextBody' = nextBody + 1
        /\ client' = [client EXCEPT ![c] = [NewClient EXCEPT !.writer =
             [key |-> k, pre |-> pre, body |-> nextBody + 1, md5 |-> md5, cancelled |-> FALSE]]]
        /\ UNCHANGED returned
  /\ UNCHANGED <<objects, nextVersion>>

\* The writer's context ends.
Cancel(c) ==
  /\ HasWriter(c) /\ ~client[c].writer.cancelled
  /\ client' = [client EXCEPT ![c].writer.cancelled = TRUE]
  /\ UNCHANGED <<objects, nextVersion, nextBody, returned>>

\* Close: the buffer becomes the object, if the context, the MD5 and the
\* condition allow it.
Close(c) ==
  LET w == client[c].writer IN
  /\ HasWriter(c)
  /\ \/ w.cancelled /\ Closed(c, "error") /\ UNCHANGED <<objects, nextVersion>>
     \/ ~w.cancelled /\ ~w.md5 /\ Closed(c, "invalid option") /\ UNCHANGED <<objects, nextVersion>>
     \/ /\ ~w.cancelled /\ w.md5 /\ ~conditionsPass(w.pre, objects[w.key])
        /\ Closed(c, "precondition failed")
        /\ UNCHANGED <<objects, nextVersion>>
     \/ /\ ~w.cancelled /\ w.md5 /\ conditionsPass(w.pre, objects[w.key])
        /\ nextVersion < MaxVersion
        /\ nextVersion' = nextVersion + 1
        /\ objects' = [objects EXCEPT ![w.key] =
             [body |-> w.body, of |-> w.body, md |-> FALSE, version |-> nextVersion + 1]]
        /\ Closed(c, "ok")
  /\ UNCHANGED nextBody

\* CloseWithError drops the buffer.
CloseWithError(c) ==
  /\ HasWriter(c)
  /\ Closed(c, "ok")
  /\ UNCHANGED <<objects, nextVersion, nextBody>>

\* A call may fail before it does anything: its context has ended.
Fail(c) ==
  /\ Return(c, "error") \/ Closed(c, "error")
  /\ UNCHANGED <<objects, nextVersion, nextBody>>

\* Callers go away, and their writers with them.
Vanish(gone) ==
  /\ client' = [c \in Clients |-> IF c \in gone THEN NewClient ELSE client[c]]
  /\ UNCHANGED <<objects, nextVersion, nextBody, returned>>

-----------------------------------------------------------------------------

Init ==
  /\ objects = [k \in Keys |-> NoObject]
  /\ nextVersion = 0
  /\ nextBody = 0
  /\ client = [c \in Clients |-> NewClient]
  /\ returned = [by |-> NoClient, outcome |-> "ok"]

Next ==
  \/ \E c \in Clients :
       \/ \E k \in Keys : Attributes(c, k) \/ NewRangeReader(c, k) \/ UpdateMetadata(c, k)
       \/ \E k, src \in Keys : Copy(c, k, src)
       \/ \E k \in Keys, pre \in Asked(client[c].seen) :
            Delete(c, k, pre) \/ \E md5 \in Md5(pre) : NewWriter(c, k, pre, md5)
       \/ Cancel(c) \/ Close(c) \/ CloseWithError(c) \/ Fail(c)
  \/ \E gone \in SUBSET Clients : Vanish(gone)

Spec == Init /\ [][Next]_vars
=============================================================================
