SPECIFICATION FairSpec
CONSTANTS
  NumProcessors = 5
  Present <- MCPresent
  Boot = 1
INVARIANTS
  TypeOK
  FrameOutlivesHandlers
  KernelStartsAlone
  EntryStateAsPromised
  OneBootCpu
PROPERTIES
  EventuallyBooted
  ImplementsBarrier
