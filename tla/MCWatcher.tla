----------------------------- MODULE MCWatcher ------------------------------
(* Small instances of Watcher for TLC.                                     *)
EXTENDS WatcherProofs, TLC

\* One token for the cursor, one for each instance, and a fresh one.
EnoughVersions == 1 .. (Cardinality(Watchers) + 2)

\* All that a remembered token can still do is match the cursor's or not.
View ==
  <<now, queues, cursor.at, lock, failures,
    [w \in Watchers |->
       <<inst[w].pc, inst[w].at, inst[w].todo, inst[w].next, inst[w].done,
         inst[w].adopted, inst[w].version = cursor.version>>]>>

\* No guard reads what local workers have consumed, and of the properties only the
\* type invariant speaks of it.
ForwardView == <<now, stamped, source, ever, View[3], View[4], View[5], View[6]>>

\* Instances are interchangeable.
Symmetric == Permutations(Watchers)
=============================================================================
