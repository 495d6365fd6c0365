\* One message, two workers, dead-lettering, failures.
SPECIFICATION Spec
CONSTANTS
  Workers = {w1, w2}
  NoOwner = nobody
  Ids = {1}
  CallerIds = {}
  Untimed = {}
  MaxEnqueues = 1
  HeadWindow = 1
  Lease = 2
  MaxReceives = 2
  MaxCount = 2
  Retention = FALSE
  TrimBatch = 1
  Versions <- EnoughVersions
  NoVersion = 0
  MaxFailures = 2
VIEW View
SYMMETRY Symmetric
INVARIANTS QueueInv OneLiveHolder LeaseBacksHolder NothingLost DeliveryCap
PROPERTY CountNeverDrops
