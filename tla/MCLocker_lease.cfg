\* Two contenders, delayed requests, one crash or failed call, fair scheduling.
SPECIFICATION FairSpec
CONSTANTS
  Clients = {c1, c2}
  NoOwner = nobody
  Lease = 2
  Versions <- EnoughVersions
  NoVersion = 0
  ContentVersions = FALSE
  LateWrites = TRUE
  MaxFailures = 1
VIEW View
INVARIANTS LockInv MutualExclusion ClaimIsRecorded ReadBackIsOwn
PROPERTIES LiveRecordIsOwners KeepsPromise EventuallyHeld TakeoverIsNoticed
