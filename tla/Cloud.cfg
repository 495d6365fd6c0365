\* One goroutine of each role, with each driver, among others.
SPECIFICATION Spec
\* A copy that is done is the end of the copier.
CHECK_DEADLOCK FALSE
CONSTANTS
  Drivers = {"s3", "gcs", "azure"}
  MaxLen = 3
  MaxChanges = 4
  MaxFailures = 2
  UploadPart = 1
  MaxWrites = 2
  MaxSingle = 1
  PartSize = 1
  MaxParts = 2
  Concurrency = 2
  MaxPollErrors = 2
INVARIANTS NilMeansDone OnlyClosedIsStored RefusalIsNamed ReadsInPlace EndIsTheEnd DoneMeansCopied NoOrphanedParts PollErrorsAreTolerated
PROPERTIES CallsReturn CopyEnds
