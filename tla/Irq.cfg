CONSTANTS
    ISA_INTERRUPT_COUNT = 3
    MaxEntries = 4
    IO_VECTOR_COUNT = 9
    Firmwares <- MCFirmwares
    Counts = {1, 2, 3}
    MaxRaises = 2
    MaxCalls = 4
    PicLines = {0, 1, 8, 10}
    MaxPicIrqs = 4
SPECIFICATION Spec
INVARIANTS LineReachesItsDriver NoHandlerOnlyAfterRemove IrqReachesHandler InServiceIsUnended
PROPERTIES InterruptsAreTaken AllocFindsFirstRun PicInterruptsAreTaken
CHECK_DEADLOCK FALSE
