\* A failed read-back loses a lock nobody took.
SPECIFICATION Spec
CONSTANTS
  Clients = {c1, c2}
  NoOwner = nobody
  Lease = 2
  Versions <- EnoughVersions
  NoVersion = 0
  ContentVersions = FALSE
  LateWrites = FALSE
  MaxFailures = 1
PROPERTY LostOnlyIfLost
