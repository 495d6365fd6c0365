\* The lease sweep takes the lease of a message that is there.
SPECIFICATION Spec
CONSTANTS
  Workers = {w1, w2}
  NoOwner = nobody
  Ids = {1}
  CallerIds = {1}
  Untimed = {}
  MaxEnqueues = 1
  HeadWindow = 1
  Lease = 1
  MaxReceives = 0
  MaxCount = 1
  Retention = TRUE
  TrimBatch = 2
  Versions <- EnoughVersions
  NoVersion = 0
  MaxFailures = 0
VIEW View
PROPERTY SweepsOnlyResidue
