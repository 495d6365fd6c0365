\* Not so: a declared MD5 is validated (docs/architecture.md).  A body above the
\* part size goes to S3 in parts, without it.
SPECIFICATION Spec
CHECK_DEADLOCK FALSE
CONSTANTS
  Drivers = {"s3", "gcs", "azure"}
  MaxLen = 3
  MaxChanges = 4
  MaxFailures = 2
  UploadPart = 1
  MaxWrites = 2
  MaxSingle = 1
  PartSize = 1
  MaxParts = 2
  Concurrency = 2
  MaxPollErrors = 2
INVARIANT MD5IsValidated
