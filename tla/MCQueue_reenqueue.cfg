\* A late payload delete removes a message enqueued again.
SPECIFICATION Spec
CONSTANTS
  Workers = {w1, w2}
  NoOwner = nobody
  Ids = {1}
  CallerIds = {1}
  Untimed = {}
  MaxEnqueues = 2
  HeadWindow = 1
  Lease = 1
  MaxReceives = 0
  MaxCount = 2
  Retention = FALSE
  TrimBatch = 1
  Versions <- EnoughVersions
  NoVersion = 0
  MaxFailures = 0
VIEW View
INVARIANT NothingLost
