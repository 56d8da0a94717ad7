CONSTANTS
    BITMAP_BLOCK_SIZE = 3
    bitmap_size = 4
    Base <- MCBase
    Counts = {1, 2, 7}
SPECIFICATION SpecUnchecked
INVARIANTS BootSectionReserved
