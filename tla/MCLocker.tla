------------------------------ MODULE MCLocker ------------------------------
(* Small instances of Locker for TLC.                                      *)
EXTENDS LockerProofs, TLC

\* One token for the object and the three a client can remember, plus a fresh one.
EnoughVersions == 1 .. (3 * Cardinality(Clients) + 2)

\* All that a remembered token can still do is match the object's or not: the
\* states that agree on this and on everything else have the same behaviours.
Matches(t) == <<t = record.version, t = NoVersion>>
View ==
  <<record.owner, record.until, Absent(record), pc, rpc, newUntil, leaseUntil, err, failures,
    [c \in Clients |->
       <<seen[c].owner, seen[c].until, Matches(seen[c].version), Matches(version[c]),
         late[c].kind, late[c].until, Matches(late[c].expect)>>]>>
=============================================================================
