\* Content-hash version tokens (s3): the compare-and-swap no longer has one winner.
SPECIFICATION Spec
CONSTANTS
  Clients = {c1, c2}
  NoOwner = nobody
  Lease = 2
  Versions <- EnoughVersions
  NoVersion = 0
  ContentVersions = TRUE
  LateWrites = FALSE
  MaxFailures = 0
INVARIANT MutualExclusion
