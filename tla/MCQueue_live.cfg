\* Every message is settled or trimmed in the end, and its lease with it.
SPECIFICATION FairSpec
CONSTANTS
  Workers = {w1}
  NoOwner = nobody
  Ids = {1, 2}
  CallerIds = {2}
  Untimed = {2}
  MaxEnqueues = 1
  HeadWindow = 1
  Lease = 1
  MaxReceives = 1
  MaxCount = 1
  Retention = TRUE
  TrimBatch = 1
  Versions <- EnoughVersions
  NoVersion = 0
  MaxFailures = 1
VIEW View
PROPERTIES EventuallySettled OldIsTrimmed
