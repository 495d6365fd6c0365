\* Two callers of one Bucket value, a failed call or a crash.
SPECIFICATION Spec
CONSTANTS
  Clients = {c1, c2}
  Keys = {k1, k2}
  MaxBodies = 2
  MaxVersion = 2
  Buckets = {b1}
  BucketOf <- Shared
  NoClient = nobody
  MaxFailures = 1
SYMMETRY Symmetric
INVARIANTS NeverHalfApplied TokenStillMeans WaysOutAreClean
PROPERTY IsMemBucket
