CONSTANTS
    BITMAP_BLOCK_SIZE = 3
    bitmap_size = 3
    Base <- MCBase
    Counts = {0, 2, 4, 6}
SPECIFICATION Spec
INVARIANTS ScanInBounds AccountingOfBytes
PROPERTIES ImplementsPmm CallsReturn
