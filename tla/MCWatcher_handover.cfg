\* Holders that crash but do not pause, fairly scheduled.
SPECIFICATION FairSpec
CONSTANTS
  Watchers = {w1, w2}
  NoOwner = nobody
  Ids = {1, 2, 3}
  Untimed = {}
  PerTick = 2
  Lag = 2
  PageSize = 2
  Lease = 2
  Latency = 1
  MaxTime = 3
  Pauses = FALSE
  Versions <- EnoughVersions
  NoVersion = 0
  MaxFailures = 1
VIEW View
INVARIANT NothingSkipped
PROPERTY EventuallyReplicated
