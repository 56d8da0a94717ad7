CONSTANTS
    BITMAP_BLOCK_SIZE = 4
    bitmap_size = 8
    TableSize = 12
    BootFrames <- MCBootFrames
    TmpPage <- MCTmpPage
    Kernel = 1
    MAX_TASKS = 2
    StackPages = 2
    DataOffset = 2
    FuncFrames = {6}
    DriverCounts = {1, 2}
    MaxCreated = 3
    MmapPages <- MCMmapPages
    MmapCounts = {1, 2}
    MaxCalls = 3
SPECIFICATION Spec
INVARIANTS StackOwnsItsFrames
CHECK_DEADLOCK FALSE
