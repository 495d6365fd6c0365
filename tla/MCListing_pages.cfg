\* Every driver, with and without prefix and delimiter; two writes, deletes or
\* short pages while the listing is read.  A listing that has ended is the end.
SPECIFICATION Spec
CONSTANTS
  Drivers = {"mem", "file", "s3", "gcs", "azure"}
  Names <- MCNames
  ListPrefixes <- MCPrefixes
  PageSize = 2
  MaxChanges = 2
INVARIANTS KeptIsListed ListedWasThere
PROPERTIES ListingEnds
CHECK_DEADLOCK FALSE
