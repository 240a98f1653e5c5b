SPECIFICATION TreeSpec
CONSTANTS
  NodeNames = {"cpus", "soc"}
  PropertyNames = {"reg", "model", "status"}
  Length <- MCLength
  Hash <- MCHash
  DataSizes = {5}
  InitialCapacity = 2
  MaxNodes = 4
  MaxProperties = 3
INVARIANTS
  AssertionsHold
  StringsFindable
  BlobIsTree
CHECK_DEADLOCK FALSE
