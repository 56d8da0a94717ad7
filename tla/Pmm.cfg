CONSTANTS
    BITMAP_BLOCK_SIZE = 3
    bitmap_size = 4
    Base <- MCBase
    Counts = {0, 1, 2, 6, 7}
SPECIFICATION Spec
INVARIANTS TypeOK Accounting NoSharedFrames
PROPERTIES FailsOnlyWhenFull ImplementsFrameAllocator
