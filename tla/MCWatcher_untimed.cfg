\* An id without a timestamp carries the cursor past others.
SPECIFICATION Spec
CONSTANTS
  Watchers = {w1}
  NoOwner = nobody
  Ids = {1, 2}
  Untimed = {2}
  PerTick = 1
  Lag = 1
  PageSize = 1
  Lease = 2
  Latency = 0
  MaxTime = 2
  Pauses = FALSE
  Versions <- EnoughVersions
  NoVersion = 0
  MaxFailures = 0
VIEW View
INVARIANT NothingSkipped
