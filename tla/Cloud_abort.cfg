\* Not so: an aborted writer stores nothing (docs/architecture.md).  An abort with
\* io.EOF, and on gcs with nil, ends the body and publishes it.
SPECIFICATION Spec
CHECK_DEADLOCK FALSE
CONSTANTS
  Drivers = {"s3", "gcs", "azure"}
  MaxLen = 3
  MaxChanges = 4
  MaxFailures = 2
  UploadPart = 1
  MaxWrites = 2
  MaxSingle = 1
  PartSize = 1
  MaxParts = 2
  Concurrency = 2
  MaxPollErrors = 2
INVARIANT AbortLeavesNothing
