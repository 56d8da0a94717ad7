CONSTANTS
    BITMAP_BLOCK_SIZE = 3
    bitmap_size = 4
    Base <- MCBase
    Counts = {1, 3, 4, 5}
SPECIFICATION Spec
INVARIANTS NoSharedFrames
