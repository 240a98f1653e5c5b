SPECIFICATION Spec
CONSTANTS
  HdrSize = 2
  WordSize = 24
  ImageEnd = 3
  BankInterval = 8
  Machines <- MCMachines
  Requests <- MCRequests
  Growths <- MCGrowths
  MaxBlocks = 3
INVARIANTS
  ListsAgree
  BlocksIntact
  OutOfMemoryOnlyWhenFull
PROPERTIES
  LossBounded
  ImplementsAllocator
