SPECIFICATION FairSpec
CONSTANTS
  SectorSize = 2
  BlockSize = 4
  NumSlots = 2
  DiskSize = 14
  Partitions <- MCPartitions
  MaxCount = 6
INVARIANTS
  CacheIsDisk
PROPERTIES
  EveryReadEnds
  ImplementsDiskReader
