\* azureblob with keys that hold the text of an escape: ListedWasThere is violated.
SPECIFICATION Spec
CONSTANTS
  Drivers = {"azure"}
  Names <- MCEscapes
  ListPrefixes <- MCPrefixes
  PageSize = 2
  MaxChanges = 0
INVARIANTS ListedWasThere
CHECK_DEADLOCK FALSE
