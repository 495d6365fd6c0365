\* A paused holder rewinds the cursor.
SPECIFICATION Spec
CONSTANTS
  Watchers = {w1, w2}
  NoOwner = nobody
  Ids = {1, 2, 3}
  Untimed = {}
  PerTick = 4
  Lag = 0
  PageSize = 1
  Lease = 1
  Latency = 0
  MaxTime = 0
  Pauses = TRUE
  Versions <- EnoughVersions
  NoVersion = 0
  MaxFailures = 0
VIEW ForwardView
PROPERTY CursorNeverRewinds
