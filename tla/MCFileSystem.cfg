SPECIFICATION Spec
CONSTANTS
  Partitions <- MCPartitions
  Signature = "ext2"
  Supported = {"types"}
  DirTypes = "types"
  TextAt <- MCTextAt
  ZeroByte = "zero"
  SuperblockOffset = 4
  DescriptorSize = 1
  OldInodeSize = 1
  EntryHeader = 2
  ReadPaths <- MCReadPaths
  Tokens <- MCTokens
  Paths <- MCPaths
  Slash = "/"
  RootNumber = 2
  MaxSymlinks = 3
  BlockSize = 4
  SectorSize = 2
  PointerCount = 2
  Levels = 3
  WordSize = 256
  PartitionSize = 232
  PointersOf <- MCPointersOf
  MaxCount = 9
INVARIANTS
  LookupIsResolution
  InodesBalanced
  ReadsTheFile
PROPERTIES
  EveryLookupEnds
CHECK_DEADLOCK FALSE
