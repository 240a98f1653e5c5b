SPECIFICATION Spec
CONSTANTS
    idle = idle
    init = init
    child = child
    Tasks <- MCTasks
    Idle = idle
    Null = Null
    MaxDepth = 2
PROPERTIES WorkDoneBeforeUser
