------------------------------ MODULE MCQueue -------------------------------
(* Small instances of Queue for TLC.                                       *)
EXTENDS QueueLeaseProofs, TLC

\* One token for each lease, the two each worker can remember, and a fresh one.
EnoughVersions == 1 .. (Cardinality(Ids) + 2 * Cardinality(Workers) + 1)

\* All that a remembered token can still do is match the lease's or not.
Matches(i, t) == <<t = NoVersion, i # 0 /\ t = lease[i].version>>
View ==
  <<payload, dead, enqueued, horizon, trim, failures, ghosts,
    [i \in Ids |-> <<Absent(lease[i]), lease[i].owner, lease[i].until, lease[i].receives>>],
    [w \in Workers |->
       LET me == worker[w] IN
       <<me.pc, me.rpc, me.id, me.todo, me.newUntil, me.receives, me.leaseUntil, me.err, me.got,
         me.seen.owner, me.seen.until, me.seen.receives,
         IF me.id = 0 THEN 0 ELSE Matches(me.id, me.seen.version),
         IF me.id = 0 THEN 0 ELSE Matches(me.id, me.version)>>]>>

\* Workers are interchangeable.
Symmetric == Permutations(Workers)
=============================================================================
