------------------------------- MODULE MCFile -------------------------------
(* Small instances of FileBucket for TLC.                                  *)
EXTENDS FileRefinement, TLC

\* All clients use the same Bucket value.
Shared == [c \in Clients |-> CHOOSE b \in Buckets : TRUE]

\* Clients are interchangeable, and so are keys.
Symmetric == Permutations(Clients) \cup Permutations(Keys)
=============================================================================
