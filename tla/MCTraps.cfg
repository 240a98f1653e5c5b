SPECIFICATION Spec
CONSTANTS
    idle = idle
    init = init
    child = child
    Tasks <- MCTasks
    Idle = idle
    Null = Null
    MaxDepth = 3
SYMMETRY MCSymmetry
INVARIANTS KernelEntryPrepared CurrentOwnsCpu
PROPERTIES ResumesWhatWasTrapped VmallocFaultRepairs
