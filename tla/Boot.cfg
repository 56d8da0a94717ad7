CONSTANTS
    FRAME_SIZE = 4
    BITMAP_BLOCK_SIZE = 2
    BOOT_SECTION_SIZE = 64
    TMP_BITMAP_FIRST_FRAME = 12
    TMP_BITMAP_BASE = 40
    TableSpan = 8
    PCI_MAX_DEVS = 2
    PCI_MAX_FUNCS = 2
    RegSize = 256
    StackDepth = 4
    Machines <- MCMachines
SPECIFICATION Spec
INVARIANTS KeptIsReserved FreeIsExactlyUsable PmmStartsAsAssumed InitPmmStaysInBitmap
INVARIANTS MappingsSurvive SdtIsReadable EveryFunctionOnce BarIsDecoded
PROPERTIES FirstXhciIsServed
