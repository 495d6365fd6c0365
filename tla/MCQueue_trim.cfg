\* A message that grows old while two workers handle it.
SPECIFICATION Spec
CONSTANTS
  Workers = {w1, w2}
  NoOwner = nobody
  Ids = {1, 2}
  CallerIds = {2}
  Untimed = {2}
  MaxEnqueues = 1
  HeadWindow = 2
  Lease = 1
  MaxReceives = 0
  MaxCount = 1
  Retention = TRUE
  TrimBatch = 1
  Versions <- EnoughVersions
  NoVersion = 0
  MaxFailures = 0
VIEW View
SYMMETRY Symmetric
INVARIANTS OneLiveHolder NothingLost
