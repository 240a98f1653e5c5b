SPECIFICATION Spec
CONSTANTS
    Irqs = {"disk", "kbd0", "kbd1"}
    NoIrq = "none"
    r1 = r1
    r2 = r2
    Requests = {r1, r2}
    Sectors = {0}
    Blank = blank
    Disks = {0, 1, 2}
    Size <- MCSize
    Workloads <- MCWorkloads
    DiskIrq = "disk"
    NoRequest = noRequest
    Keyboards = {0, 1}
    Present = {0, 1}
    Scancodes = {"a", "b", "c"}
    Keys <- MCKeys
    KbdIrq <- MCKbdIrq
CHECK_DEADLOCK FALSE
INVARIANTS CompletionsExpected CapacityAsReported KeysArriveInOrder
PROPERTIES EveryRequestEnds ImplementsBlockDevice InterruptDrainsQueue
